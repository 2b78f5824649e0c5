----------------------------- MODULE PagesProofs -----------------------------
(***************************************************************************)
(* Proofs about the configuration of the band, for any bands, any number   *)
(* of saves at once and any number of kills; about the setup wizard, for   *)
(* any number of wizards one after the other; and about the bar's window,  *)
(* with its page and with any page, for any displays that are larger than  *)
(* the bar and any agents.  The specification is that of the run: each     *)
(* step is of one part.                                                    *)
(***************************************************************************)
EXTENDS MCPages, FiniteSetTheorems, SequenceTheorems, TLAPS

(***************************************************************************)
(* The configuration                                                       *)
(***************************************************************************)
Addresses == Devices \cup {Nowhere}
Meanings == SUBSET (Addresses \cup Typed)
Payloads == [log : Logs, selected : DeviceIds, manual : Typed]
SavePlaces == {"idle", "called", "asking", "write", "rename"}
SaveRecords == [at : SavePlaces, mine : BOOLEAN, payload : Payloads, addr : Addresses,
                meant : Meanings]
ConfigFiles == [addr : Addresses, whole : BOOLEAN, meant : Meanings]

PickerTypes ==
  /\ paired \subseteq Devices
  /\ picker \in [loaded : BOOLEAN, list : SUBSET DeviceIds, found : SUBSET DeviceIds,
                 selected : DeviceIds, manual : Typed, saving : BOOLEAN]
  /\ scan \in [on : BOOLEAN, mine : BOOLEAN, selected : DeviceIds, manual : Typed,
               known : SUBSET Addresses]

SaveTypes ==
  /\ save \in [Saves -> SaveRecords]
  /\ files \in [config : ConfigFiles, tmp : ConfigFiles]

\* A save asks for the paired devices only when neither what was typed nor the
\* log says which band is meant.
AskedForWant(k) ==
  save[k].at = "asking" =>
    /\ save[k].payload.manual = "nothing"
    /\ save[k].payload.selected = NoDevice => save[k].payload.log.addr = Nowhere

\* What is about to be written is for a band the user meant.
WritesMeant(k) == save[k].at \in {"write", "rename"} => save[k].addr \in save[k].meant

\* A temporary file that is about to replace device.json is complete.
TmpIsComplete ==
  (\E k \in Saves : save[k].at = "rename") =>
     files.tmp.whole /\ (Has(files.tmp) => files.tmp.addr \in files.tmp.meant)

SaveInv ==
  /\ SaveTypes
  /\ \A k \in Saves : AskedForWant(k) /\ WritesMeant(k)
  /\ TmpIsComplete
  /\ SavedIsChosen

ConfigInv == PickerTypes /\ SaveInv

\* What an idle save, and no file, are.
LEMMA IdleTypes == IdleSave \in SaveRecords /\ IdleSave.at = "idle" /\ NoFile \in ConfigFiles
<1>1. Nowhere \in Addresses /\ {} \in Meanings
  BY DEF Addresses, Meanings
<1>2. Payload(NoLog, NoDevice, "nothing") \in Payloads
  BY DEF Payload, Payloads, NoLog, Logs, DeviceIds, Typed
<1> QED BY <1>1, <1>2 DEF IdleSave, SaveRecords, SavePlaces, NoFile, ConfigFiles

\* The addresses and the words a payload may hold.
LEMMA PayloadTypes ==
  ASSUME NEW p \in Payloads
  PROVE  /\ p.selected.addr \in Addresses /\ p.log.addr \in Addresses
         /\ \A list \in SUBSET Bands : Meant(p, list) \in Meanings
<1>1. p.log \in Logs /\ p.selected \in DeviceIds /\ p.manual \in Typed
  BY DEF Payloads
<1>2. p.selected.addr \in Addresses
  BY <1>1 DEF DeviceIds, NoDevice, DeviceId, Addresses, Devices
<1>3. p.log.addr \in Addresses
  BY <1>1 DEF Logs, Addresses, Devices
<1>4. \A list \in SUBSET Bands : Meant(p, list) \in Meanings
  BY <1>1, <1>2, <1>3 DEF Meant, Meanings, Addresses, Devices
<1> QED BY <1>2, <1>3, <1>4

\* A step that touches neither the saves nor the files keeps their invariant.
LEMMA SavesUntouched ==
  ASSUME SaveInv, UNCHANGED <<save, files>>
  PROVE  SaveInv'
BY DEF SaveInv, SaveTypes, AskedForWant, WritesMeant, TmpIsComplete, SavedIsChosen, Has

\* A save that ends, whatever becomes of the files, leaves the others as they are.
LEMMA SaveEndsKeeps ==
  ASSUME SaveInv, NEW k \in Saves, SaveEnds(k)
  PROVE  /\ save' \in [Saves -> SaveRecords]
         /\ \A i \in Saves : save'[i] = IF i = k THEN IdleSave ELSE save[i]
         /\ \A i \in Saves : AskedForWant(i)' /\ WritesMeant(i)'
         /\ UNCHANGED files => SaveInv'
<1>1. /\ save' \in [Saves -> SaveRecords]
      /\ \A i \in Saves : save'[i] = IF i = k THEN IdleSave ELSE save[i]
  BY IdleTypes DEF SaveEnds, SaveInv, SaveTypes
<1>2. \A i \in Saves : AskedForWant(i)' /\ WritesMeant(i)'
  BY <1>1, IdleTypes DEF SaveInv, AskedForWant, WritesMeant
<1>3. ASSUME UNCHANGED files PROVE SaveInv'
  <2>1. TmpIsComplete' /\ SavedIsChosen'
    BY <1>1, <1>3, IdleTypes DEF SaveInv, TmpIsComplete, SavedIsChosen, Has
  <2> QED BY <1>1, <1>2, <1>3, <2>1 DEF SaveInv, SaveTypes
<1> QED BY <1>1, <1>2, <1>3

\* A save goes on to write only what the user meant.
LEMMA WritesKeeps ==
  ASSUME SaveInv, NEW k \in Saves, NEW addr \in Addresses, NEW list \in SUBSET Devices,
         Writes(k, addr, list), UNCHANGED files,
         addr \in Meant(save[k].payload, list \cap Bands)
  PROVE  SaveInv'
<1> DEFINE m == Meant(save[k].payload, list \cap Bands)
<1>1. m \in Meanings
  <2>1. save[k].payload \in Payloads
    BY DEF SaveInv, SaveTypes, SaveRecords
  <2> QED BY <2>1, PayloadTypes
<1>2. save' = [save EXCEPT ![k].at = "write", ![k].addr = addr, ![k].meant = m]
  BY DEF Writes
<1> HIDE DEF m
<1>3. /\ save' \in [Saves -> SaveRecords]
      /\ \A i \in Saves : i # k => save'[i] = save[i]
      /\ save'[k].at = "write" /\ save'[k].addr = addr /\ save'[k].meant = m
  BY <1>1, <1>2 DEF SaveInv, SaveTypes, SaveRecords, SavePlaces
<1>4. addr \in m
  BY DEF m
<1>5. \A i \in Saves : AskedForWant(i)' /\ WritesMeant(i)'
  BY <1>3, <1>4 DEF SaveInv, AskedForWant, WritesMeant
<1>6. TmpIsComplete' /\ SavedIsChosen'
  BY <1>3 DEF SaveInv, TmpIsComplete, SavedIsChosen, Has
<1> QED BY <1>3, <1>5, <1>6 DEF SaveInv, SaveTypes

\* The only member of a set of one band is in it.
LEMMA SingleIsChosen ==
  ASSUME NEW S, Cardinality(S) = 1
  PROVE  (CHOOSE b \in S : TRUE) \in S
<1>1. S # {}
  BY FS_EmptySet
<1> QED BY <1>1

\* Choosing the band keeps the invariant.
LEMMA ChooseKeeps ==
  ASSUME SaveInv, NEW k \in Saves, Choose(k)
  PROVE  SaveInv'
<1> DEFINE p == save[k].payload
<1>0. UNCHANGED files /\ p \in Payloads
  BY DEF Choose, SaveInv, SaveTypes, SaveRecords
<1>1. CASE SaveEnds(k)
  BY <1>0, <1>1, SaveEndsKeeps
<1>2. CASE p.manual \in Bands /\ Writes(k, p.manual, {})
  <2>1. p.manual \in Meant(p, {} \cap Bands) /\ p.manual \in Addresses
    BY <1>2, BandsAssumption DEF Meant, Addresses, Devices
  <2> QED BY <1>0, <1>2, <2>1, WritesKeeps
<1>3. CASE p.manual = "nothing" /\ p.selected.from = "scan" /\ Writes(k, p.selected.addr, {})
  <2>1. p.selected.addr \in Meant(p, {} \cap Bands) /\ {} \in SUBSET Devices
    BY <1>3 DEF Meant, NoDevice, DeviceId
  <2>2. p.selected.addr \in Addresses
    BY <1>0, PayloadTypes
  <2> QED BY <1>0, <1>3, <2>1, <2>2, WritesKeeps
<1>4. CASE p.manual = "nothing" /\ p.selected = NoDevice /\ p.log.addr # Nowhere /\ Writes(k, p.log.addr, {})
  <2>1. p.log.addr \in Meant(p, {} \cap Bands) /\ {} \in SUBSET Devices
    BY <1>4 DEF Meant
  <2>2. p.log.addr \in Addresses
    BY <1>0, PayloadTypes
  <2> QED BY <1>0, <1>4, <2>1, <2>2, WritesKeeps
<1>5. CASE /\ p.manual = "nothing"
           /\ p.selected = NoDevice => p.log.addr = Nowhere
           /\ save' = [save EXCEPT ![k].at = "asking"]
  <2>1. /\ save' \in [Saves -> SaveRecords]
        /\ \A i \in Saves : i # k => save'[i] = save[i]
        /\ save'[k].at = "asking" /\ save'[k].payload = p
    BY <1>5 DEF SaveInv, SaveTypes, SaveRecords, SavePlaces
  <2>2. \A i \in Saves : AskedForWant(i)' /\ WritesMeant(i)'
    BY <1>5, <2>1 DEF SaveInv, AskedForWant, WritesMeant
  <2>3. TmpIsComplete' /\ SavedIsChosen'
    BY <1>0, <2>1 DEF SaveInv, TmpIsComplete, SavedIsChosen, Has
  <2> QED BY <1>0, <2>1, <2>2, <2>3 DEF SaveInv, SaveTypes
<1>6. \/ SaveEnds(k)
      \/ p.manual \in Bands /\ Writes(k, p.manual, {})
      \/ p.manual = "nothing" /\ p.selected.from = "scan" /\ Writes(k, p.selected.addr, {})
      \/ p.manual = "nothing" /\ p.selected = NoDevice /\ p.log.addr # Nowhere /\ Writes(k, p.log.addr, {})
      \/ /\ p.manual = "nothing"
         /\ p.selected = NoDevice => p.log.addr = Nowhere
         /\ save' = [save EXCEPT ![k].at = "asking"]
  BY Zenon DEF Choose
<1> QED BY <1>1, <1>2, <1>3, <1>4, <1>5, <1>6

\* The list of paired devices keeps the invariant, whatever it holds.
LEMMA ListedKeeps ==
  ASSUME PickerTypes, SaveInv, NEW k \in Saves, Listed(k)
  PROVE  SaveInv'
<1> DEFINE p == save[k].payload
<1>0. UNCHANGED files /\ p \in Payloads
  BY DEF Listed, SaveInv, SaveTypes, SaveRecords
<1>1. /\ p.manual = "nothing"
      /\ p.selected = NoDevice => p.log.addr = Nowhere
  BY DEF Listed, SaveInv, AskedForWant
<1>2. PICK list \in {paired, {}} :
         IF p.selected = NoDevice THEN OnlyOne(k, list)
         ELSE IF p.selected.from = "pnp" /\ p.selected.addr \in list
              THEN Writes(k, p.selected.addr, list)
              ELSE Missing(k, list)
  BY Zenon DEF Listed
<1>3. list \in SUBSET Devices
  BY DEF PickerTypes
<1>4. CASE SaveEnds(k)
  BY <1>0, <1>4, SaveEndsKeeps
<1>5. CASE p.selected = NoDevice /\ ~SaveEnds(k)
  <2> DEFINE bands == list \cap Bands
             b1 == CHOOSE b \in bands : TRUE
  <2>1. Cardinality(bands) = 1 /\ Writes(k, b1, list)
    BY <1>2, <1>5 DEF OnlyOne
  <2>2. b1 \in bands
    BY <2>1, SingleIsChosen
  <2>3. Meant(p, bands) = bands
    BY <1>1, <1>5, <2>1 DEF Meant
  <2>4. b1 \in Addresses
    BY <2>2 DEF Addresses, Devices
  <2> QED BY <1>0, <1>3, <2>1, <2>2, <2>3, <2>4, WritesKeeps
<1>6. CASE p.selected # NoDevice /\ ~SaveEnds(k)
  <2>1. Writes(k, p.selected.addr, list)
    BY <1>2, <1>6 DEF Missing
  <2>2. p.selected.addr \in Meant(p, list \cap Bands)
    BY <1>1, <1>6 DEF Meant
  <2> QED BY <1>0, <1>3, <2>1, <2>2, PayloadTypes, WritesKeeps
<1> QED BY <1>4, <1>5, <1>6

\* Writing the temporary file keeps the invariant.
LEMMA WriteTmpKeeps ==
  ASSUME SaveInv, NEW k \in Saves, WriteTmp(k)
  PROVE  SaveInv'
<1>1. CASE UNCHANGED files /\ SaveEnds(k)
  BY <1>1, SaveEndsKeeps
<1>2. CASE /\ files' = [files EXCEPT !.tmp = Config(k, TRUE)]
           /\ save' = [save EXCEPT ![k].at = "rename"]
  <2>1. /\ save' \in [Saves -> SaveRecords]
        /\ \A i \in Saves : i # k => save'[i] = save[i]
        /\ save'[k].at = "rename" /\ save'[k].addr = save[k].addr /\ save'[k].meant = save[k].meant
    BY <1>2 DEF SaveInv, SaveTypes, SaveRecords, SavePlaces
  <2>2. Config(k, TRUE) \in ConfigFiles
    BY DEF SaveInv, SaveTypes, SaveRecords, ConfigFiles, Config
  <2>3. /\ files' \in [config : ConfigFiles, tmp : ConfigFiles]
        /\ files'.config = files.config /\ files'.tmp = Config(k, TRUE)
    BY <1>2, <2>2 DEF SaveInv, SaveTypes
  <2>4. save[k].addr \in save[k].meant
    BY DEF WriteTmp, SaveInv, WritesMeant
  <2>5. \A i \in Saves : AskedForWant(i)' /\ WritesMeant(i)'
    BY <2>1, <2>4 DEF SaveInv, AskedForWant, WritesMeant
  <2>6. TmpIsComplete' /\ SavedIsChosen'
    BY <2>3, <2>4 DEF SaveInv, TmpIsComplete, SavedIsChosen, Has, Config
  <2> QED BY <2>1, <2>3, <2>5, <2>6 DEF SaveInv, SaveTypes
<1> QED BY <1>1, <1>2 DEF WriteTmp

\* Replacing device.json keeps the invariant.
LEMMA RenameKeeps ==
  ASSUME SaveInv, NEW k \in Saves, Rename(k)
  PROVE  SaveInv'
<1>1. /\ save' \in [Saves -> SaveRecords]
      /\ \A i \in Saves : AskedForWant(i)' /\ WritesMeant(i)'
  BY SaveEndsKeeps DEF Rename
<1>2. /\ files' \in [config : ConfigFiles, tmp : ConfigFiles] /\ files'.tmp = NoFile
      /\ files'.config \in {files.config, files.tmp}
  BY IdleTypes DEF Rename, SaveInv, SaveTypes
<1>3. files.tmp.whole /\ (Has(files.tmp) => files.tmp.addr \in files.tmp.meant)
  BY DEF Rename, SaveInv, TmpIsComplete
<1>4. TmpIsComplete' /\ SavedIsChosen'
  BY <1>2, <1>3 DEF SaveInv, TmpIsComplete, SavedIsChosen, Has, NoFile
<1> QED BY <1>1, <1>2, <1>4 DEF SaveInv, SaveTypes

\* A kill leaves device.json as it was.
LEMMA KilledKeeps ==
  ASSUME SaveInv, KilledConfig
  PROVE  SaveInv'
<1>1. save' = [i \in Saves |-> IdleSave]
  BY DEF KilledConfig
<1>2. files' \in [config : ConfigFiles, tmp : ConfigFiles] /\ files'.config = files.config
  <2>1. CASE UNCHANGED files
    BY <2>1 DEF SaveInv, SaveTypes
  <2>2. ASSUME NEW k \in Saves, files' = [files EXCEPT !.tmp = Config(k, FALSE)]
        PROVE files' \in [config : ConfigFiles, tmp : ConfigFiles] /\ files'.config = files.config
    <3>1. Config(k, FALSE) \in ConfigFiles
      BY DEF SaveInv, SaveTypes, SaveRecords, ConfigFiles, Config
    <3> QED BY <2>2, <3>1 DEF SaveInv, SaveTypes
  <2> QED BY <2>1, <2>2 DEF KilledConfig
<1>3. \A i \in Saves : AskedForWant(i)' /\ WritesMeant(i)'
  BY <1>1, IdleTypes DEF AskedForWant, WritesMeant
<1>4. TmpIsComplete' /\ SavedIsChosen'
  BY <1>1, <1>2, IdleTypes DEF SaveInv, TmpIsComplete, SavedIsChosen, Has
<1> QED BY <1>1, <1>2, <1>3, <1>4, IdleTypes DEF SaveInv, SaveTypes

\* A page that goes leaves its saves to themselves.
LEMMA PageLeavesKeeps ==
  ASSUME SaveInv, PageLeaves
  PROVE  SaveInv'
<1>0. UNCHANGED files /\ save' = [i \in Saves |-> [save[i] EXCEPT !.mine = FALSE]]
  BY DEF PageLeaves
<1>1. ASSUME NEW i \in Saves
      PROVE  /\ save'[i] \in SaveRecords
             /\ save'[i].at = save[i].at /\ save'[i].payload = save[i].payload
             /\ save'[i].addr = save[i].addr /\ save'[i].meant = save[i].meant
  BY <1>0 DEF SaveInv, SaveTypes, SaveRecords
<1>2. save' \in [Saves -> SaveRecords]
  BY <1>0, <1>1
<1>3. \A i \in Saves : AskedForWant(i)' /\ WritesMeant(i)'
  BY <1>1 DEF SaveInv, AskedForWant, WritesMeant
<1>4. TmpIsComplete' /\ SavedIsChosen'
  BY <1>0, <1>1 DEF SaveInv, TmpIsComplete, SavedIsChosen, Has
<1> QED BY <1>0, <1>2, <1>3, <1>4 DEF SaveInv, SaveTypes

\* A page begins a save with what the user has chosen.
LEMMA ClickSaveKeeps ==
  ASSUME PickerTypes, SaveInv, ClickSave
  PROVE  SaveInv'
<1>0. UNCHANGED files
  BY DEF ClickSave
<1>1. PICK k \in Saves, log \in Logs :
        save' = [save EXCEPT ![k] = [IdleSave EXCEPT !.at = "called", !.mine = TRUE,
                   !.payload = Payload(log, picker.selected, picker.manual)]]
  BY DEF ClickSave
<1> DEFINE r == [IdleSave EXCEPT !.at = "called", !.mine = TRUE,
                   !.payload = Payload(log, picker.selected, picker.manual)]
<1>2. Payload(log, picker.selected, picker.manual) \in Payloads
  BY DEF PickerTypes, Payload, Payloads
<1>3. r \in SaveRecords /\ r.at = "called"
  BY <1>2, IdleTypes DEF SaveRecords, SavePlaces
<1>4. /\ save' \in [Saves -> SaveRecords]
      /\ \A i \in Saves : save'[i] = IF i = k THEN r ELSE save[i]
  <2> HIDE DEF r
  <2>1. save' = [save EXCEPT ![k] = r]
    BY <1>1 DEF r
  <2> QED BY <1>3, <2>1 DEF SaveInv, SaveTypes
<1> HIDE DEF r
<1>5. \A i \in Saves : AskedForWant(i)' /\ WritesMeant(i)'
  BY <1>3, <1>4 DEF SaveInv, AskedForWant, WritesMeant
<1>6. TmpIsComplete' /\ SavedIsChosen'
  BY <1>0, <1>3, <1>4 DEF SaveInv, TmpIsComplete, SavedIsChosen, Has
<1> QED BY <1>0, <1>4, <1>5, <1>6 DEF SaveInv, SaveTypes

\* Every step of the configuration's part keeps the saves' invariant.
LEMMA SavesKeep ==
  ASSUME PickerTypes, SaveInv, ConfigNext
  PROVE  SaveInv'
<1>1. CASE \E k \in Saves : Choose(k) \/ Listed(k) \/ WriteTmp(k) \/ Rename(k)
  BY <1>1, ChooseKeeps, ListedKeeps, WriteTmpKeeps, RenameKeeps
<1>2. CASE PageLoads \/ PickDevice \/ TypeAddress \/ ClickScan \/ ScanEnds
  BY <1>2, SavesUntouched DEF PageLoads, PickDevice, TypeAddress, ClickScan, ScanEnds
<1> QED BY <1>1, <1>2, PageLeavesKeeps, ClickSaveKeeps, KilledKeeps DEF ConfigNext

\* Every step of the configuration's part keeps the types of what the page shows.
LEMMA PickerKeeps ==
  ASSUME PickerTypes, ConfigNext
  PROVE  PickerTypes'
<1>0. UNCHANGED paired
  BY DEF ConfigNext, Choose, Listed, WriteTmp, Rename, PageLoads, PageLeaves, PickDevice,
         TypeAddress, ClickScan, ScanEnds, ClickSave, KilledConfig
<1>1. /\ BlankPage \in [loaded : BOOLEAN, list : SUBSET DeviceIds, found : SUBSET DeviceIds,
                        selected : DeviceIds, manual : Typed, saving : BOOLEAN]
      /\ NoScan \in [on : BOOLEAN, mine : BOOLEAN, selected : DeviceIds, manual : Typed,
                     known : SUBSET Addresses]
  BY DEF BlankPage, NoScan, DeviceIds, Typed
<1>2. ASSUME NEW k \in Saves, Choose(k) \/ Listed(k) \/ WriteTmp(k) \/ Rename(k)
      PROVE PickerTypes'
  <2>1. UNCHANGED scan
    BY <1>2 DEF Choose, Listed, WriteTmp, Rename
  <2>2. picker' = picker \/ picker' = [picker EXCEPT !.saving = FALSE]
    <3>1. SaveEnds(k) => picker' = picker \/ picker' = [picker EXCEPT !.saving = FALSE]
      BY DEF SaveEnds
    <3>2. \A a, l : Writes(k, a, l) => picker' = picker
      BY DEF Writes
    <3>3. CASE Choose(k)
      BY <3>1, <3>2, <3>3, Zenon DEF Choose
    <3>4. CASE Listed(k)
      BY <3>1, <3>2, <3>4, Zenon DEF Listed, OnlyOne, Missing
    <3>5. CASE WriteTmp(k) \/ Rename(k)
      BY <3>1, <3>5, Zenon DEF WriteTmp, Rename
    <3> QED BY <1>2, <3>3, <3>4, <3>5
  <2> QED BY <1>0, <2>1, <2>2 DEF PickerTypes
<1>3. CASE PageLoads
  <2>1. \A d \in Devices : DeviceId("pnp", d) \in DeviceIds
    BY DEF DeviceIds
  <2>2. PICK list \in {paired, {}} :
           \E first \in IF list \cap Bands # {} THEN {DeviceId("pnp", d) : d \in list \cap Bands}
                        ELSE IF list # {} THEN {DeviceId("pnp", d) : d \in list} ELSE {NoDevice} :
             picker' = [BlankPage EXCEPT !.loaded = TRUE, !.list = {DeviceId("pnp", d) : d \in list},
                                         !.selected = first]
    BY <1>3, Zenon DEF PageLoads
  <2>3. list \subseteq Devices
    BY DEF PickerTypes
  <2> DEFINE L == {DeviceId("pnp", d) : d \in list}
  <2>4. L \subseteq DeviceIds
    BY <2>1, <2>3
  <2>5. PICK first \in DeviceIds : picker' = [BlankPage EXCEPT !.loaded = TRUE, !.list = L, !.selected = first]
    BY <2>1, <2>2, <2>3 DEF DeviceIds, NoDevice, DeviceId
  <2> HIDE DEF L
  <2>6. picker' \in [loaded : BOOLEAN, list : SUBSET DeviceIds, found : SUBSET DeviceIds,
                     selected : DeviceIds, manual : Typed, saving : BOOLEAN]
    BY <1>1, <2>4, <2>5
  <2> QED BY <1>0, <1>3, <2>6 DEF PickerTypes, PageLoads
<1>4. CASE PageLeaves
  BY <1>0, <1>1, <1>4 DEF PickerTypes, PageLeaves
<1>5. CASE PickDevice
  <2>1. PICK id \in picker.list \cup picker.found : picker' = [picker EXCEPT !.selected = id, !.manual = "nothing"]
    BY <1>5 DEF PickDevice
  <2>2. id \in DeviceIds /\ "nothing" \in Typed
    BY DEF PickerTypes, Typed
  <2> QED BY <1>0, <1>5, <2>1, <2>2 DEF PickerTypes, PickDevice
<1>6. CASE TypeAddress
  <2>1. PICK t \in Typed, n \in DeviceIds : picker' = [picker EXCEPT !.manual = t, !.selected = n]
    BY <1>6 DEF TypeAddress, PickerTypes, DeviceIds
  <2> QED BY <1>0, <1>6, <2>1 DEF PickerTypes, TypeAddress
<1>7. CASE ClickScan
  <2>1. {id.addr : id \in picker.list} \subseteq Addresses
    BY DEF PickerTypes, DeviceIds, NoDevice, DeviceId, Addresses, Devices
  <2> QED BY <1>0, <1>7, <2>1 DEF PickerTypes, ClickScan
<1>8. CASE ScanEnds
  <2>1. \A b \in Bands : DeviceId("scan", b) \in DeviceIds
    BY DEF DeviceIds
  <2>2. picker' = picker \/ \E fresh \in SUBSET DeviceIds, first \in DeviceIds :
           picker' = [picker EXCEPT !.found = fresh, !.selected = first]
    <3>1. PICK found \in SUBSET Bands :
            LET fresh == {DeviceId("scan", b) : b \in found \ scan.known} IN
            \E first \in IF scan.selected = NoDevice /\ scan.manual = "nothing" /\ fresh # {}
                         THEN fresh ELSE {picker.selected} :
              picker' = IF scan.mine THEN [picker EXCEPT !.found = fresh, !.selected = first] ELSE picker
      BY <1>8 DEF ScanEnds
    <3> DEFINE fresh == {DeviceId("scan", b) : b \in found \ scan.known}
    <3>2. fresh \in SUBSET DeviceIds
      BY <2>1
    <3>3. picker.selected \in DeviceIds
      BY DEF PickerTypes
    <3> HIDE DEF fresh
    <3>4. PICK first \in IF scan.selected = NoDevice /\ scan.manual = "nothing" /\ fresh # {}
                         THEN fresh ELSE {picker.selected} :
              picker' = IF scan.mine THEN [picker EXCEPT !.found = fresh, !.selected = first] ELSE picker
      BY <3>1, Zenon DEF fresh
    <3>5. first \in DeviceIds
      BY <3>2, <3>3
    <3> QED BY <3>2, <3>4, <3>5
  <2> QED BY <1>0, <1>1, <1>8, <2>2 DEF PickerTypes, ScanEnds
<1>9. CASE ClickSave
  BY <1>0, <1>9 DEF PickerTypes, ClickSave
<1>10. CASE KilledConfig
  BY <1>0, <1>1, <1>10 DEF PickerTypes, KilledConfig
<1> QED BY <1>2, <1>3, <1>4, <1>5, <1>6, <1>7, <1>8, <1>9, <1>10 DEF ConfigNext

\* device.json is never half written, whenever the program is killed, and names
\* the band the user meant, with any number of saves and scans under way
\* (device-config-service.ts).
THEOREM ConfigurationIsChosen == PagesSpec => []SavedIsChosen
<1>1. PagesInit => ConfigInv
  <2> SUFFICES ASSUME PagesInit PROVE ConfigInv
    OBVIOUS
  <2>1. save = [k \in Saves |-> IdleSave] /\ files = [config |-> NoFile, tmp |-> NoFile]
    BY DEF PagesInit, ConfigInit
  <2>2. SaveTypes
    BY <2>1, IdleTypes DEF SaveTypes
  <2>3. \A k \in Saves : AskedForWant(k) /\ WritesMeant(k)
    BY <2>1, IdleTypes DEF AskedForWant, WritesMeant
  <2>4. TmpIsComplete /\ SavedIsChosen
    BY <2>1, IdleTypes DEF TmpIsComplete, SavedIsChosen, Has, NoFile
  <2>5. paired \subseteq Devices
    BY DEF PagesInit, ConfigInit, Devices
  <2>6. PickerTypes
    BY <2>5 DEF PickerTypes, PagesInit, ConfigInit, BlankPage, NoScan, DeviceIds, Typed
  <2> QED BY <2>2, <2>3, <2>4, <2>6 DEF ConfigInv, SaveInv
<1>2. ConfigInv /\ [PagesNext]_vars => ConfigInv'
  <2> SUFFICES ASSUME ConfigInv, [PagesNext]_vars PROVE ConfigInv'
    OBVIOUS
  <2>1. ConfigNext \/ UNCHANGED configVars
    <3>1. CASE part = "config" /\ ConfigNext
      BY <3>1
    <3>2. CASE \E p \in {"bar", "window", "setup"} : Only(p)
      BY <3>2 DEF Only
    <3>3. CASE UNCHANGED vars
      BY <3>3 DEF vars
    <3> QED BY <3>1, <3>2, <3>3 DEF PagesNext
  <2>2. CASE UNCHANGED configVars
    BY <2>2, SavesUntouched DEF configVars, ConfigInv, PickerTypes
  <2> QED BY <2>1, <2>2, SavesKeep, PickerKeeps DEF ConfigInv
<1>3. ConfigInv => SavedIsChosen
  BY DEF ConfigInv, SaveInv
<1> QED BY <1>1, <1>2, <1>3, PTL DEF PagesSpec

(***************************************************************************)
(* The setup wizard                                                        *)
(***************************************************************************)
SetupTypes ==
  /\ wizard \in [open : BOOLEAN, index : 1..4, checks : SUBSET {"config", "band"},
                 outcome : {"none", "confirmed", "deferred"}]
  /\ stepExecution \in [StepSet -> {"pending", "visited", "skipped", "success"}]
  /\ told \subseteq StepSet

\* An open wizard has not been finished yet.
SetupInv ==
  /\ SetupTypes
  /\ SuccessIsEarned
  /\ wizard.open => wizard.outcome = "none"

\* The four steps.
LEMMA FourSteps ==
  /\ Len(StepIds) = 4
  /\ StepSet = {"import_log", "connect_band", "install_app", "verify_quota"}
  /\ \A i \in 1..4 : StepIds[i] \in StepSet
  /\ \A i \in 1..4 : StepIds[i] = "verify_quota" <=> i = 4
<1>1. Len(StepIds) = 4
  BY DEF StepIds
<1>2. /\ StepIds[1] = "import_log" /\ StepIds[2] = "connect_band"
      /\ StepIds[3] = "install_app" /\ StepIds[4] = "verify_quota"
  BY DEF StepIds
<1>3. \A i \in 1..4 : i = 1 \/ i = 2 \/ i = 3 \/ i = 4
  OBVIOUS
<1> QED BY <1>1, <1>2, <1>3 DEF StepSet

\* Showing a step, and leaving it, marks nothing as done and nothing as undone.
LEMMA VisitKeepsSuccess ==
  ASSUME NEW exec \in [StepSet -> {"pending", "visited", "skipped", "success"}], NEW s \in StepSet
  PROVE  /\ Visited(exec, s) \in [StepSet -> {"pending", "visited", "skipped", "success"}]
         /\ \A i \in StepSet : Visited(exec, s)[i] = "success" <=> exec[i] = "success"
         /\ Passed(exec, s) \in [StepSet -> {"pending", "visited", "skipped", "success"}]
         /\ \A i \in StepSet : Passed(exec, s)[i] = "success" <=> exec[i] = "success"
         /\ Succeeds(exec, s) \in [StepSet -> {"pending", "visited", "skipped", "success"}]
         /\ \A i \in StepSet : Succeeds(exec, s)[i] = "success" <=> exec[i] = "success" \/ i = s
BY DEF Visited, Passed, Succeeds

\* A wizard that opens has everything still to do.
LEMMA OpensKeeps ==
  ASSUME Opens
  PROVE  SetupInv'
<1>1. [s \in StepSet |-> "pending"] \in [StepSet -> {"pending", "visited", "skipped", "success"}]
  OBVIOUS
<1>2. StepIds[1] \in StepSet
  BY FourSteps
<1>3. /\ wizard' = [open |-> TRUE, index |-> 1, checks |-> {"config", "band"}, outcome |-> "none"]
      /\ told' = {} /\ stepExecution' = Visited([s \in StepSet |-> "pending"], StepIds[1])
  BY DEF Opens
<1>4. /\ stepExecution' \in [StepSet -> {"pending", "visited", "skipped", "success"}]
      /\ \A i \in StepSet : stepExecution'[i] # "success"
  BY <1>1, <1>2, <1>3, VisitKeepsSuccess
<1> QED BY <1>3, <1>4 DEF SetupInv, SetupTypes, SuccessIsEarned

\* A step of an open wizard that closes nothing, tells what it marks as done and
\* reports no end keeps the invariant.
LEMMA MarkedAsTold ==
  ASSUME SetupInv, wizard.open,
         wizard' \in [open : BOOLEAN, index : 1..4, checks : SUBSET {"config", "band"},
                      outcome : {"none", "confirmed", "deferred"}],
         stepExecution' \in [StepSet -> {"pending", "visited", "skipped", "success"}],
         NEW T \in SUBSET StepSet, told' = told \cup T,
         \A i \in StepSet : stepExecution'[i] = "success" <=> stepExecution[i] = "success" \/ i \in T,
         wizard'.open => wizard'.outcome = "none",
         wizard'.outcome = "confirmed" => "verify_quota" \in told'
  PROVE  SetupInv'
BY DEF SetupInv, SetupTypes, SuccessIsEarned

\* Every step of the wizard's part keeps its invariant.
LEMMA SetupKeeps ==
  ASSUME SetupInv, SetupNext
  PROVE  SetupInv'
<1> DEFINE W == [open : BOOLEAN, index : 1..4, checks : SUBSET {"config", "band"},
                 outcome : {"none", "confirmed", "deferred"}]
           E == [StepSet -> {"pending", "visited", "skipped", "success"}]
<1>0. /\ wizard \in W /\ stepExecution \in E /\ told \subseteq StepSet
      /\ wizard.open => wizard.outcome = "none"
      /\ Current \in StepSet /\ wizard.index \in 1..4
  BY FourSteps DEF SetupInv, SetupTypes, Current
<1>1. ASSUME UNCHANGED <<wizard, stepExecution, told>> PROVE SetupInv'
  BY <1>1 DEF SetupInv, SetupTypes, SuccessIsEarned
<1>2. CASE OpenSetup \/ Prompt
  BY <1>1, <1>2, OpensKeeps DEF OpenSetup, Prompt
<1>3. CASE AskPrompt \/ BandChanges \/ Begin("import", "import_log") \/ Begin("install", "install_app")
  BY <1>1, <1>3 DEF AskPrompt, BandChanges, Begin
<1>4. ASSUME NEW what, NEW s \in StepSet, NEW so, Comes(what, s, so) PROVE SetupInv'
  <2>1. wizard' \in W /\ wizard'.open = wizard.open /\ wizard'.outcome = wizard.outcome /\ wizard.open
    BY <1>0, <1>4 DEF Comes
  <2>2. CASE so
    <3>1. stepExecution' = Succeeds(stepExecution, s) /\ told' = told \cup {s}
      BY <1>4, <2>2 DEF Comes
    <3>2. stepExecution' \in E
          /\ \A i \in StepSet : stepExecution'[i] = "success" <=> stepExecution[i] = "success" \/ i \in {s}
      BY <1>0, <3>1, VisitKeepsSuccess
    <3>3. {s} \in SUBSET StepSet /\ wizard'.outcome = "none"
      BY <1>0, <2>1
    <3> QED BY <2>1, <3>1, <3>2, <3>3, MarkedAsTold
  <2>3. CASE ~so
    <3>1. stepExecution' = stepExecution /\ told' = told \cup {}
      BY <1>4, <2>3 DEF Comes
    <3>2. stepExecution' \in E
          /\ \A i \in StepSet : stepExecution'[i] = "success" <=> stepExecution[i] = "success" \/ i \in {}
      BY <1>0, <3>1
    <3>3. {} \in SUBSET StepSet /\ wizard'.outcome = "none"
      BY <1>0, <2>1
    <3> QED BY <2>1, <3>1, <3>2, <3>3, MarkedAsTold
  <2> QED BY <2>2, <2>3
<1>5. CASE MountChecks
  BY <1>4, <1>5, FourSteps DEF MountChecks
<1>6. ASSUME NEW ok, NEW whose, ImportEnds(ok, whose) PROVE SetupInv'
  <2>1. CASE ok /\ whose = "mine" /\ wizard.open
    <3>1. /\ stepExecution' = Visited(Succeeds(stepExecution, "import_log"), "connect_band")
          /\ wizard' = [wizard EXCEPT !.index = 2]
          /\ told' = told \cup {"import_log"}
      BY <1>6, <2>1 DEF ImportEnds
    <3>2. wizard' \in W /\ wizard'.open = wizard.open /\ wizard'.outcome = wizard.outcome
      BY <1>0, <3>1
    <3> DEFINE e1 == Succeeds(stepExecution, "import_log")
    <3>3. e1 \in E /\ \A i \in StepSet : e1[i] = "success" <=> stepExecution[i] = "success" \/ i = "import_log"
      BY <1>0, VisitKeepsSuccess, FourSteps
    <3> HIDE DEF e1
    <3>4. Visited(e1, "connect_band") \in E
          /\ \A i \in StepSet : Visited(e1, "connect_band")[i] = "success" <=> e1[i] = "success"
      BY <3>3, VisitKeepsSuccess, FourSteps
    <3>5. stepExecution' \in E
          /\ \A i \in StepSet : stepExecution'[i] = "success" <=> stepExecution[i] = "success" \/ i \in {"import_log"}
      BY <3>1, <3>3, <3>4 DEF e1
    <3>6. {"import_log"} \in SUBSET StepSet
      BY FourSteps
    <3> QED BY <1>0, <2>1, <3>1, <3>2, <3>5, <3>6, MarkedAsTold
  <2>2. CASE ~(ok /\ whose = "mine" /\ wizard.open)
    BY <1>1, <1>6, <2>2 DEF ImportEnds
  <2> QED BY <2>1, <2>2
<1>7. ASSUME NEW s \in StepSet, wizard.open, UNCHANGED wizard,
             stepExecution' = Succeeds(stepExecution, s), told' = told \cup {s}
      PROVE SetupInv'
  <2>1. stepExecution' \in E
        /\ \A i \in StepSet : stepExecution'[i] = "success" <=> stepExecution[i] = "success" \/ i \in {s}
    BY <1>0, <1>7, VisitKeepsSuccess
  <2>2. wizard' \in W /\ wizard'.outcome = "none" /\ {s} \in SUBSET StepSet
    BY <1>0, <1>7
  <2> QED BY <1>7, <2>1, <2>2, MarkedAsTold
<1>8. ASSUME NEW ok, NEW whose, InstallEnds(ok, whose) PROVE SetupInv'
  BY <1>1, <1>7, <1>8, FourSteps DEF InstallEnds
<1>9. CASE ConnectReports
  BY <1>7, <1>9, FourSteps DEF ConnectReports
<1>10. CASE VerifyConfirmed
  <2>1. /\ stepExecution' = Succeeds(stepExecution, "verify_quota")
        /\ told' = told \cup {"verify_quota"} /\ wizard.open
        /\ wizard' = [wizard EXCEPT !.open = FALSE, !.checks = {}, !.outcome = "confirmed"]
    BY <1>10 DEF VerifyConfirmed, Finished
  <2>2. wizard' \in W /\ ~wizard'.open
    BY <1>0, <2>1
  <2>3. stepExecution' \in E
        /\ \A i \in StepSet : stepExecution'[i] = "success" <=> stepExecution[i] = "success" \/ i \in {"verify_quota"}
    BY <1>0, <2>1, VisitKeepsSuccess, FourSteps
  <2>4. {"verify_quota"} \in SUBSET StepSet /\ "verify_quota" \in told'
    BY <2>1, FourSteps
  <2> QED BY <2>1, <2>2, <2>3, <2>4, MarkedAsTold
<1>11. CASE NextStep
  <2>0. wizard.open /\ told' = told \cup {} /\ {} \in SUBSET StepSet
    BY <1>11 DEF NextStep
  <2>1. CASE wizard.index = Len(StepIds)
    <3> DEFINE out == IF stepExecution[Current] = "success" THEN "confirmed" ELSE "deferred"
    <3>1. /\ stepExecution' = Passed(stepExecution, Current)
          /\ wizard' = [wizard EXCEPT !.open = FALSE, !.checks = {}, !.outcome = out]
      BY <1>11, <2>1 DEF NextStep, Finished
    <3>2. wizard' \in W /\ ~wizard'.open /\ wizard'.outcome = out
      BY <1>0, <3>1
    <3>3. Current = "verify_quota"
      BY <1>0, <2>1, FourSteps DEF Current
    <3>4. out = "confirmed" => "verify_quota" \in told
      BY <1>0, <2>0, <3>3 DEF SetupInv, SuccessIsEarned
    <3>5. stepExecution' \in E
          /\ \A i \in StepSet : stepExecution'[i] = "success" <=> stepExecution[i] = "success" \/ i \in {}
      BY <1>0, <3>1, VisitKeepsSuccess
    <3> QED BY <2>0, <3>2, <3>4, <3>5, MarkedAsTold
  <2>2. CASE wizard.index # Len(StepIds)
    <3>1. /\ wizard' = [wizard EXCEPT !.index = @ + 1]
          /\ stepExecution' = Visited(Passed(stepExecution, Current), StepIds[wizard.index + 1])
      BY <1>11, <2>2 DEF NextStep
    <3>2. wizard.index + 1 \in 1..4 /\ StepIds[wizard.index + 1] \in StepSet
      BY <1>0, <2>2, FourSteps
    <3>3. wizard' \in W /\ wizard'.outcome = wizard.outcome
      BY <1>0, <3>1, <3>2
    <3> DEFINE e1 == Passed(stepExecution, Current)
               n == StepIds[wizard.index + 1]
    <3>4. e1 \in E /\ \A i \in StepSet : e1[i] = "success" <=> stepExecution[i] = "success"
      BY <1>0, VisitKeepsSuccess
    <3> HIDE DEF e1, n
    <3>5. Visited(e1, n) \in E /\ \A i \in StepSet : Visited(e1, n)[i] = "success" <=> e1[i] = "success"
      BY <3>2, <3>4, VisitKeepsSuccess DEF n
    <3>6. stepExecution' \in E
          /\ \A i \in StepSet : stepExecution'[i] = "success" <=> stepExecution[i] = "success" \/ i \in {}
      BY <3>1, <3>4, <3>5 DEF e1, n
    <3> QED BY <1>0, <2>0, <3>3, <3>6, MarkedAsTold
  <2> QED BY <2>1, <2>2
<1>12. CASE ClickStep
  <2>1. PICK i \in 1..4 : /\ wizard' = [wizard EXCEPT !.index = i]
                          /\ stepExecution' = Visited(stepExecution, StepIds[i])
    BY <1>12, FourSteps DEF ClickStep
  <2>2. wizard.open /\ told' = told \cup {} /\ {} \in SUBSET StepSet
    BY <1>12 DEF ClickStep
  <2>3. wizard' \in W /\ wizard'.outcome = wizard.outcome /\ StepIds[i] \in StepSet
    BY <1>0, <2>1, FourSteps
  <2>4. stepExecution' \in E
        /\ \A j \in StepSet : stepExecution'[j] = "success" <=> stepExecution[j] = "success" \/ j \in {}
    BY <1>0, <2>1, <2>3, VisitKeepsSuccess
  <2> QED BY <1>0, <2>2, <2>3, <2>4, MarkedAsTold
<1>13. CASE Prev \/ CloseSetup
  <2>1. wizard.open /\ told' = told \cup {} /\ {} \in SUBSET StepSet /\ stepExecution' = stepExecution
    BY <1>13 DEF Prev, CloseSetup
  <2>2. wizard' \in W /\ wizard'.outcome = wizard.outcome
    <3>1. CASE Prev
      <4>1. wizard.index - 1 \in 1..4 /\ wizard' = [wizard EXCEPT !.index = wizard.index - 1]
        BY <1>0, <3>1 DEF Prev
      <4> QED BY <1>0, <4>1
    <3>2. CASE CloseSetup
      BY <1>0, <3>2 DEF CloseSetup
    <3> QED BY <1>13, <3>1, <3>2
  <2> QED BY <1>0, <2>1, <2>2, MarkedAsTold
<1> QED BY <1>2, <1>3, <1>5, <1>6, <1>8, <1>9, <1>10, <1>11, <1>12, <1>13 DEF SetupNext

\* The list at the end of the setup marks as done exactly what that wizard was
\* told has happened, and a setup is reported as confirmed only if the user said
\* so, whatever earlier wizards began and whenever that ends (SetupWizard.tsx).
THEOREM SetupIsEarned == PagesSpec => []SuccessIsEarned
<1>1. PagesInit => SetupInv
  BY FourSteps DEF PagesInit, SetupInit, Closed, SetupInv, SetupTypes, SuccessIsEarned
<1>2. SetupInv /\ [PagesNext]_vars => SetupInv'
  <2> SUFFICES ASSUME SetupInv, [PagesNext]_vars PROVE SetupInv'
    OBVIOUS
  <2>1. SetupNext \/ UNCHANGED setupVars
    <3>1. CASE part = "setup" /\ SetupNext
      BY <3>1
    <3>2. CASE \E p \in {"bar", "window", "config"} : Only(p)
      BY <3>2 DEF Only
    <3>3. CASE UNCHANGED vars
      BY <3>3 DEF vars
    <3> QED BY <3>1, <3>2, <3>3 DEF PagesNext
  <2>2. CASE UNCHANGED setupVars
    BY <2>2 DEF setupVars, SetupInv, SetupTypes, SuccessIsEarned
  <2> QED BY <2>1, <2>2, SetupKeeps
<1>3. SetupInv => SuccessIsEarned
  BY DEF SetupInv
<1> QED BY <1>1, <1>2, <1>3, PTL DEF PagesSpec

-----------------------------------------------------------------------------
(***************************************************************************)
(* The bar's window and its page                                           *)
(***************************************************************************)
Rects == [x : Int, y : Int, width : Nat, height : Nat]
Spots == [x : Int, y : Int]
Modes == {"full", "edge-tab"}
States == [dock : Docks, mode : Modes, expanded : BOOLEAN]
Commands ==
  [c : {"expand", "show"}, v : BOOLEAN] \cup [c : {"mode"}, v : Modes]
  \cup [c : {"start", "end", "reset"}, v : {TRUE}]

BoundsTypes ==
  /\ win \in Rects /\ isExpanded \in BOOLEAN
  /\ currentDockSide \in Docks /\ currentDisplayMode \in Modes
  /\ savedBounds \in [x : Int, y : Int, dock : Docks, mode : Modes]
CursorTypes ==
  /\ displays \subseteq Displays /\ Primary \in displays
  /\ cursor \in Points /\ \E a \in displays : Within(a, cursor)
TalkTypes ==
  /\ visible \in BOOLEAN /\ switch \in BOOLEAN
  /\ preferences \in [visible : BOOLEAN, dock : {"remember", "left", "right"}]
  /\ grab \in [dx : Int, dy : Int, on : BOOLEAN]
  /\ toMain \in Seq(Commands) /\ toBar \in Seq(States) /\ toApp \in Seq(BOOLEAN)
BarTypes == BoundsTypes /\ CursorTypes /\ TalkTypes

\* What was last said in a queue, or heard before it.
LastSaid(old, q) == IF q = <<>> THEN old ELSE q[Len(q)]
\* m is the last command of the kinds K in the queue; there is none of them.
LastIs(q, K, m) == \E j \in DOMAIN q : q[j] = m /\ \A i \in DOMAIN q : i > j => q[i].c \notin K
NoneOf(q, K) == \A i \in DOMAIN q : q[i].c \notin K
\* Nothing in the queue sends the bar to the edge-tab.
NoTab(q) == \A i \in DOMAIN q : q[i] # Command("mode", "edge-tab")
\* After the end of a drag nothing is said of another.
EndLast(q) ==
  \A j \in DOMAIN q : q[j].c = "end" => \A i \in DOMAIN q : i > j => q[i].c \notin {"start", "end"}

-----------------------------------------------------------------------------
\* What is said is the last of the queue; nothing else in it changes.
LEMMA Said ==
  ASSUME NEW T, NEW q \in Seq(T), NEW m \in T
  PROVE  /\ Say(q, m) \in Seq(T) /\ Say(q, m) # <<>> /\ \A o : LastSaid(o, Say(q, m)) = m
         /\ \A i \in DOMAIN q : i \in DOMAIN Say(q, m) /\ Say(q, m)[i] = q[i]
  <1>1. CASE q # <<>> /\ q[Len(q)] = m
    BY <1>1 DEF Say, LastSaid, Last
  <1>2. CASE ~(q # <<>> /\ q[Len(q)] = m)
    <2>1. Say(q, m) = Append(q, m)
      BY <1>2 DEF Say, Last
    <2>2. /\ Append(q, m) \in Seq(T) /\ Len(Append(q, m)) = Len(q) + 1 /\ Append(q, m)[Len(q) + 1] = m
          /\ Append(q, m) # <<>> /\ \A i \in DOMAIN q : i \in DOMAIN Append(q, m) /\ Append(q, m)[i] = q[i]
      OBVIOUS
    <2> QED
      BY <2>1, <2>2 DEF LastSaid
  <1> QED
    BY <1>1, <1>2

\* What follows the message that is heard first.
LEMMA Heads ==
  ASSUME NEW T, NEW q \in Seq(T), q # <<>>
  PROVE  /\ Head(q) \in T /\ Tail(q) \in Seq(T) /\ \A o : LastSaid(Head(q), Tail(q)) = LastSaid(o, q)
         /\ 1 \in DOMAIN q /\ q[1] = Head(q)
         /\ \A i \in DOMAIN Tail(q) : i + 1 \in DOMAIN q /\ Tail(q)[i] = q[i + 1] /\ i \in Nat /\ i + 1 > 1
         /\ \A i \in DOMAIN q : i = 1 \/ (i - 1 \in DOMAIN Tail(q) /\ Tail(q)[i - 1] = q[i] /\ i \in Nat)
  <1>1. /\ Head(q) \in T /\ Tail(q) \in Seq(T) /\ 1 \in DOMAIN q /\ q[1] = Head(q)
        /\ Len(Tail(q)) = Len(q) - 1 /\ DOMAIN q = 1..Len(q) /\ DOMAIN Tail(q) = 1..Len(q) - 1
        /\ Len(q) \in Nat /\ Len(q) >= 1
    OBVIOUS
  <1>2. \A i \in 1..Len(q) - 1 : Tail(q)[i] = q[i + 1]
    BY <1>1
  <1>3. \A o : LastSaid(Head(q), Tail(q)) = LastSaid(o, q)
    <2>1. CASE Tail(q) = <<>>
      BY <1>1, <2>1 DEF LastSaid
    <2>2. CASE Tail(q) # <<>>
      <3>1. Len(q) - 1 \in 1..Len(q) - 1
        BY <1>1, <2>2
      <3> QED
        BY <1>1, <1>2, <2>2, <3>1 DEF LastSaid
    <2> QED
      BY <2>1, <2>2
  <1>4. \A i \in DOMAIN q : i = 1 \/ (i - 1 \in DOMAIN Tail(q) /\ Tail(q)[i - 1] = q[i] /\ i \in Nat)
    BY <1>1, <1>2
  <1> QED
    BY <1>1, <1>2, <1>3, <1>4

\* A command that is taken up leaves what comes after it.
LEMMA TakenUp ==
  ASSUME NEW T, NEW q \in Seq(T), q # <<>>, NEW K
  PROVE  /\ NoneOf(q, K) => NoneOf(Tail(q), K) /\ Head(q).c \notin K
         /\ \A m : LastIs(q, K, m) => LastIs(Tail(q), K, m) \/ (Head(q) = m /\ NoneOf(Tail(q), K))
         /\ NoTab(q) => NoTab(Tail(q)) /\ Head(q) # Command("mode", "edge-tab")
         /\ NoneOf(q, K) <=> NoneOf(Tail(q), K) /\ Head(q).c \notin K
         /\ EndLast(q) => EndLast(Tail(q)) /\ (Head(q).c = "end" => NoneOf(Tail(q), {"start", "end"}))
  <1>1. /\ 1 \in DOMAIN q /\ q[1] = Head(q)
        /\ \A i \in DOMAIN Tail(q) : i + 1 \in DOMAIN q /\ Tail(q)[i] = q[i + 1] /\ i \in Nat /\ i + 1 > 1
        /\ \A i \in DOMAIN q : i = 1 \/ (i - 1 \in DOMAIN Tail(q) /\ Tail(q)[i - 1] = q[i] /\ i \in Nat)
    BY Heads
  <1>2. NoneOf(q, K) => NoneOf(Tail(q), K) /\ Head(q).c \notin K
    BY <1>1 DEF NoneOf
  <1>3. ASSUME NEW m, LastIs(q, K, m)
        PROVE  LastIs(Tail(q), K, m) \/ (Head(q) = m /\ NoneOf(Tail(q), K))
    <2>1. PICK j \in DOMAIN q : q[j] = m /\ \A i \in DOMAIN q : i > j => q[i].c \notin K
      BY <1>3 DEF LastIs
    <2>2. CASE j = 1
      BY <1>1, <2>1, <2>2 DEF NoneOf
    <2>3. CASE j # 1
      <3>1. j - 1 \in DOMAIN Tail(q) /\ Tail(q)[j - 1] = m
        BY <1>1, <2>1, <2>3
      <3>2. \A i \in DOMAIN Tail(q) : i > j - 1 => Tail(q)[i].c \notin K
        BY <1>1, <2>1
      <3> QED
        BY <3>1, <3>2 DEF LastIs
    <2> QED
      BY <2>2, <2>3
  <1>4. NoTab(q) => NoTab(Tail(q)) /\ Head(q) # Command("mode", "edge-tab")
    BY <1>1 DEF NoTab
  <1>5. NoneOf(Tail(q), K) /\ Head(q).c \notin K => NoneOf(q, K)
    BY <1>1 DEF NoneOf
  <1>6. ASSUME EndLast(q)
        PROVE  EndLast(Tail(q)) /\ (Head(q).c = "end" => NoneOf(Tail(q), {"start", "end"}))
    <2>1. ASSUME NEW j \in DOMAIN Tail(q), NEW i \in DOMAIN Tail(q), Tail(q)[j].c = "end", i > j
          PROVE  Tail(q)[i].c \notin {"start", "end"}
      <3>1. /\ j + 1 \in DOMAIN q /\ i + 1 \in DOMAIN q /\ i + 1 > j + 1
            /\ q[j + 1] = Tail(q)[j] /\ q[i + 1] = Tail(q)[i]
        BY <1>1, <2>1
      <3> QED
        BY <1>6, <2>1, <3>1 DEF EndLast
    <2>2. ASSUME Head(q).c = "end", NEW i \in DOMAIN Tail(q)
          PROVE  Tail(q)[i].c \notin {"start", "end"}
      <3>1. i + 1 \in DOMAIN q /\ i + 1 > 1 /\ q[i + 1] = Tail(q)[i] /\ 1 \in DOMAIN q /\ q[1].c = "end"
        BY <1>1, <2>2
      <3> QED
        BY <1>6, <3>1 DEF EndLast
    <2> QED
      BY <2>1, <2>2 DEF EndLast, NoneOf
  <1> QED
    BY <1>2, <1>3, <1>4, <1>5, <1>6

\* What is sent comes behind what is on its way.
LEMMA SentBehind ==
  ASSUME NEW q \in Seq(Commands), NEW s \in Seq(Commands), NEW K
  PROVE  /\ q \o s \in Seq(Commands)
         /\ NoneOf(q, K) /\ NoneOf(s, K) => NoneOf(q \o s, K)
         /\ \A m : LastIs(s, K, m) => LastIs(q \o s, K, m)
         /\ \A m : LastIs(q, K, m) /\ NoneOf(s, K) => LastIs(q \o s, K, m)
         /\ NoTab(q) /\ NoTab(s) => NoTab(q \o s)
         /\ NoneOf(q \o s, K) => NoneOf(q, K) /\ NoneOf(s, K)
         /\ NoneOf(q, {"end"}) /\ EndLast(s) => EndLast(q \o s)
         /\ EndLast(q) /\ NoneOf(s, {"start", "end"}) => EndLast(q \o s)
         /\ \A i \in DOMAIN q : i \in DOMAIN (q \o s) /\ (q \o s)[i] = q[i]
         /\ \A i \in DOMAIN (q \o s) : i \notin DOMAIN q =>
              /\ \A j \in DOMAIN q : j < i
              /\ \E j \in DOMAIN s : (q \o s)[i] = s[j]
  <1> DEFINE r == q \o s
  <1>1. /\ r \in Seq(Commands) /\ Len(r) = Len(q) + Len(s)
        /\ \A i \in 1..Len(q) + Len(s) : r[i] = IF i <= Len(q) THEN q[i] ELSE s[i - Len(q)]
    BY ConcatProperties, Zenon
  <1> HIDE DEF r
  <1>2. /\ \A i \in DOMAIN r : /\ i \in Nat
                               /\ \/ i \in DOMAIN q /\ r[i] = q[i] /\ i <= Len(q)
                                  \/ i > Len(q) /\ i - Len(q) \in DOMAIN s /\ r[i] = s[i - Len(q)]
        /\ \A i \in DOMAIN q : i \in DOMAIN r /\ r[i] = q[i] /\ i <= Len(q) /\ i \in Nat
        /\ \A i \in DOMAIN s : i + Len(q) \in DOMAIN r /\ r[i + Len(q)] = s[i] /\ i \in Nat /\ i > 0
        /\ Len(q) \in Nat
    BY <1>1
  <1>3. NoneOf(q, K) /\ NoneOf(s, K) => NoneOf(r, K)
    BY <1>2 DEF NoneOf
  <1>4. ASSUME NEW m, LastIs(s, K, m)
        PROVE  LastIs(r, K, m)
    <2>1. PICK j \in DOMAIN s : s[j] = m /\ \A i \in DOMAIN s : i > j => s[i].c \notin K
      BY <1>4 DEF LastIs
    <2>2. ASSUME NEW i \in DOMAIN r, i > j + Len(q)
          PROVE  r[i].c \notin K
      <3>1. i \in Nat /\ j \in Nat /\ Len(q) \in Nat /\ i > Len(q) /\ i - Len(q) > j
        BY <1>2, <2>1, <2>2
      <3>2. i - Len(q) \in DOMAIN s /\ r[i] = s[i - Len(q)]
        BY <1>2, <3>1
      <3> QED
        BY <2>1, <3>1, <3>2
    <2> QED
      BY <1>2, <2>1, <2>2 DEF LastIs
  <1>5. ASSUME NEW m, LastIs(q, K, m), NoneOf(s, K)
        PROVE  LastIs(r, K, m)
    <2>1. PICK j \in DOMAIN q : q[j] = m /\ \A i \in DOMAIN q : i > j => q[i].c \notin K
      BY <1>5 DEF LastIs
    <2>2. \A i \in DOMAIN r : i > j => r[i].c \notin K
      BY <1>2, <1>5, <2>1 DEF NoneOf
    <2> QED
      BY <1>2, <2>1, <2>2 DEF LastIs
  <1>6. NoTab(q) /\ NoTab(s) => NoTab(r)
    BY <1>2 DEF NoTab
  <1>7. NoneOf(r, K) => NoneOf(q, K) /\ NoneOf(s, K)
    BY <1>2 DEF NoneOf
  <1>8. ASSUME NoneOf(q, {"end"}), EndLast(s)
        PROVE  EndLast(r)
    <2>1. ASSUME NEW j \in DOMAIN r, NEW i \in DOMAIN r, r[j].c = "end", i > j
          PROVE  r[i].c \notin {"start", "end"}
      <3>1. j \notin DOMAIN q
        BY <1>2, <1>8, <2>1 DEF NoneOf
      <3>2. /\ j - Len(q) \in DOMAIN s /\ r[j] = s[j - Len(q)] /\ i - Len(q) \in DOMAIN s
            /\ r[i] = s[i - Len(q)] /\ i - Len(q) > j - Len(q)
        BY <1>2, <2>1, <3>1
      <3> QED
        BY <1>8, <2>1, <3>2 DEF EndLast
    <2> QED
      BY <2>1 DEF EndLast
  <1>9. ASSUME EndLast(q), NoneOf(s, {"start", "end"})
        PROVE  EndLast(r)
    <2>1. ASSUME NEW j \in DOMAIN r, NEW i \in DOMAIN r, r[j].c = "end", i > j
          PROVE  r[i].c \notin {"start", "end"}
      <3>1. j \in DOMAIN q /\ r[j] = q[j]
        BY <1>2, <1>9, <2>1 DEF NoneOf
      <3>2. CASE i \in DOMAIN q
        BY <1>2, <1>9, <2>1, <3>1, <3>2 DEF EndLast
      <3>3. CASE i \notin DOMAIN q
        BY <1>2, <1>9, <3>3 DEF NoneOf
      <3> QED
        BY <3>2, <3>3
    <2> QED
      BY <2>1 DEF EndLast
  <1>10. \A i \in DOMAIN r : i \notin DOMAIN q =>
           /\ \A j \in DOMAIN q : j < i
           /\ \E j \in DOMAIN s : r[i] = s[j]
    BY <1>2
  <1> QED
    BY <1>1, <1>2, <1>3, <1>4, <1>5, <1>6, <1>7, <1>8, <1>9, <1>10 DEF r

\* One command more.
LEMMA SentOne ==
  ASSUME NEW s \in Seq(Commands), NEW m \in Commands, NEW K
  PROVE  /\ Append(s, m) \in Seq(Commands)
         /\ m.c \notin K => /\ NoneOf(s, K) => NoneOf(Append(s, m), K)
                            /\ \A k : LastIs(s, K, k) => LastIs(Append(s, m), K, k)
         /\ m.c \in K => LastIs(Append(s, m), K, m)
         /\ NoTab(s) /\ m # Command("mode", "edge-tab") => NoTab(Append(s, m))
         /\ NoneOf(s, {"end"}) \/ (EndLast(s) /\ m.c \notin {"start", "end"}) => EndLast(Append(s, m))
  <1> DEFINE r == Append(s, m)
             n == Len(s) + 1
  <1>1. /\ r \in Seq(Commands) /\ n \in DOMAIN r /\ r[n] = m /\ n \in Nat
        /\ \A i \in DOMAIN s : i \in DOMAIN r /\ r[i] = s[i] /\ i < n
        /\ \A i \in DOMAIN r : i = n \/ i \in DOMAIN s
        /\ \A i \in DOMAIN r : ~(i > n)
    OBVIOUS
  <1> HIDE DEF r, n
  <1>2. m.c \notin K => (NoneOf(s, K) => NoneOf(r, K))
    BY <1>1 DEF NoneOf
  <1>3. m.c \in K => LastIs(r, K, m)
    BY <1>1 DEF LastIs
  <1>4. ASSUME m.c \notin K, NEW k, LastIs(s, K, k)
        PROVE  LastIs(r, K, k)
    <2>1. PICK j \in DOMAIN s : s[j] = k /\ \A i \in DOMAIN s : i > j => s[i].c \notin K
      BY <1>4 DEF LastIs
    <2>2. \A i \in DOMAIN r : i > j => r[i].c \notin K
      BY <1>1, <1>4, <2>1
    <2> QED
      BY <1>1, <2>1, <2>2 DEF LastIs
  <1>5. NoTab(s) /\ m # Command("mode", "edge-tab") => NoTab(r)
    BY <1>1 DEF NoTab
  <1>6. NoneOf(s, {"end"}) => EndLast(r)
    BY <1>1 DEF NoneOf, EndLast
  <1>7. EndLast(s) /\ m.c \notin {"start", "end"} => EndLast(r)
    BY <1>1 DEF EndLast
  <1> QED
    BY <1>1, <1>2, <1>3, <1>4, <1>5, <1>6, <1>7 DEF r

-----------------------------------------------------------------------------
(***************************************************************************)
(* The bounds                                                              *)
(***************************************************************************)
\* The arithmetic of the bounds gives bounds.
LEMMA Clamped ==
  ASSUME NEW v \in Int, NEW lo \in Int, NEW hi \in Int
  PROVE  /\ Clamp(v, lo, hi) \in Int /\ Clamp(v, lo, hi) >= lo
         /\ lo <= hi => Clamp(v, lo, hi) <= hi
         /\ lo <= v /\ v <= hi => Clamp(v, lo, hi) = v
  <1>1. Min({hi, v}) = IF hi <= v THEN hi ELSE v
    BY DEF Min
  <1> DEFINE m == Min({hi, v})
  <1>2. m \in Int
    BY <1>1
  <1> HIDE DEF m
  <1>3. Max({lo, m}) = IF lo >= m THEN lo ELSE m
    BY <1>2 DEF Max
  <1> QED
    BY <1>1, <1>2, <1>3 DEF Clamp, m

\* The sizes of the bar are sizes.
LEMMA SizesAreSizes ==
  ASSUME NEW d \in Docks, NEW e \in BOOLEAN
  PROVE  FullSize(d, e) \in [width : Nat, height : Nat] /\ TabSize(d) \in [width : Nat, height : Nat]
  BY DEF FullSize, TabSize, Horizontal, Docks

\* The corners and bounds that are computed are places and bounds.
LEMMA BoundsAreBounds ==
  ASSUME NEW b \in Rects, NEW a \in Rects, NEW p \in Spots, NEW d \in Docks, NEW e \in BOOLEAN
  PROVE  /\ At(p, FullSize(d, e)) \in Rects /\ BoundsForState(p, e, d) \in Rects
         /\ CollapsedAnchor(b, e, d) \in Spots
         /\ TabBounds(p, d) \in Rects /\ AnchorOfTab(b, d) \in Spots
         /\ ClampToWorkArea(b, a, e, d) \in Spots
  <1>1. FullSize(d, e) \in [width : Nat, height : Nat] /\ TabSize(d) \in [width : Nat, height : Nat]
    BY SizesAreSizes
  <1>2. At(p, FullSize(d, e)) \in Rects
    BY <1>1 DEF At, Rects, Spots
  <1>3. BoundsForState(p, e, d) \in Rects
    <2> DEFINE size == FullSize(d, e)
    <2>1. size \in [width : Nat, height : Nat]
      BY <1>1
    <2> HIDE DEF size
    <2>2. At(Place(IF d = "right" THEN p.x + 80 - size.width ELSE p.x,
                   IF d = "bottom" THEN p.y + 56 - size.height ELSE p.y), size) \in Rects
      BY <2>1 DEF At, Place, Rects, Spots
    <2> QED
      BY <2>2 DEF BoundsForState, size
  <1>4. CollapsedAnchor(b, e, d) \in Spots
    BY DEF CollapsedAnchor, Place, Right, Rects, Spots
  <1>5. TabShift(d) \in [x : Nat, y : Nat]
    BY DEF TabShift, Place, Docks
  <1>6. TabBounds(p, d) \in Rects /\ AnchorOfTab(b, d) \in Spots
    BY <1>1, <1>5 DEF TabBounds, AnchorOfTab, At, Place, Rects, Spots
  <1>7. ClampToWorkArea(b, a, e, d) \in Spots
    <2> DEFINE size == FullSize(d, e)
    <2>1. size \in [width : Nat, height : Nat]
      BY <1>1
    <2> HIDE DEF size
    <2>2. /\ Right(a) \in Int /\ Bottom(a) \in Int /\ Right(a) - size.width \in Int
          /\ Bottom(a) - size.height \in Int /\ a.x \in Int /\ a.y \in Int /\ b.x \in Int /\ b.y \in Int
      BY <2>1 DEF Rects, Right, Bottom
    <2>3. /\ Clamp(b.x, a.x, Right(a) - size.width) \in Int
          /\ Clamp(b.y, a.y, Bottom(a) - size.height) \in Int
      BY <2>2, Clamped
    <2> DEFINE x == CASE d = "left" -> a.x [] d = "right" -> Right(a) - size.width
                      [] OTHER -> Clamp(b.x, a.x, Right(a) - size.width)
               y == CASE d = "top" -> a.y [] d = "bottom" -> Bottom(a) - size.height
                      [] OTHER -> Clamp(b.y, a.y, Bottom(a) - size.height)
    <2>4. x \in Int /\ y \in Int
      BY <2>2, <2>3
    <2>5. ClampToWorkArea(b, a, e, d) = Place(x, y)
      BY DEF ClampToWorkArea, size
    <2> HIDE DEF x, y
    <2> QED
      BY <2>4, <2>5 DEF Place, Spots
  <1> QED
    BY <1>2, <1>3, <1>4, <1>6, <1>7

\* A display is chosen among those that are there.
LEMMA VisibleSpot ==
  ASSUME CursorTypes, NEW b \in Rects, NEW d \in Docks, NEW e \in BOOLEAN
  PROVE  ClampToVisibleArea(b, e, d) \in Spots
  <1>1. displays \subseteq Rects /\ Primary \in Rects
    BY MinibarAssumption DEF CursorTypes, Rects
  <1> DEFINE near == {a \in displays : Overlaps(b, a)}
             a == IF near = {} THEN Primary ELSE CHOOSE a \in near : TRUE
  <1>2. a \in Rects
    BY <1>1
  <1>3. ClampToVisibleArea(b, e, d) = ClampToWorkArea(b, a, e, d)
    BY DEF ClampToVisibleArea
  <1>4. [x |-> 0, y |-> 0] \in Spots
    BY DEF Spots
  <1> HIDE DEF a
  <1> QED
    BY <1>2, <1>3, <1>4, BoundsAreBounds

\* A drag ends on an edge, at a place.
LEMMA Resolved ==
  ASSUME NEW p \in Spots, NEW a \in Rects
  PROVE  ResolveDockTarget(p, a) \in [dock : Docks, x : Int, y : Int]
  <1> DEFINE dock == NearestDock(p, a)
             size == FullSize(dock, FALSE)
  <1>1. dock \in Docks
    BY DEF NearestDock, Docks
  <1> HIDE DEF dock
  <1>2. size \in [width : Nat, height : Nat]
    BY <1>1, SizesAreSizes
  <1> HIDE DEF size
  <1>3. /\ Right(a) \in Int /\ Bottom(a) \in Int /\ Right(a) - size.width \in Int
        /\ Bottom(a) - size.height \in Int /\ a.x \in Int /\ a.y \in Int
        /\ p.x - size.width \div 2 \in Int /\ p.y - size.height \div 2 \in Int
    BY <1>2 DEF Rects, Spots, Right, Bottom
  <1>4. /\ Clamp(p.x - size.width \div 2, a.x, Right(a) - size.width) \in Int
        /\ Clamp(p.y - size.height \div 2, a.y, Bottom(a) - size.height) \in Int
    BY <1>3, Clamped
  <1> DEFINE x == CASE dock = "left" -> a.x [] dock = "right" -> Right(a) - size.width
                    [] OTHER -> Clamp(p.x - size.width \div 2, a.x, Right(a) - size.width)
             y == CASE dock = "top" -> a.y [] dock = "bottom" -> Bottom(a) - size.height
                    [] OTHER -> Clamp(p.y - size.height \div 2, a.y, Bottom(a) - size.height)
  <1>5. x \in Int /\ y \in Int
    BY <1>3, <1>4
  <1>6. ResolveDockTarget(p, a) = [dock |-> dock, x |-> x, y |-> y]
    BY DEF ResolveDockTarget, dock, size
  <1> HIDE DEF x, y
  <1> QED
    BY <1>1, <1>5, <1>6

-----------------------------------------------------------------------------
(***************************************************************************)
(* The window's steps                                                      *)
(***************************************************************************)
\* A step of the main process tells the page the state it leaves, and the main
\* window whether the bar is there.
Pushed ==
  \/ BarState' = BarState /\ toBar' = toBar
  \/ toBar' = Say(toBar, BarState')
Notified ==
  \/ visible' = visible /\ toApp' = toApp
  \/ toApp' = Say(toApp, visible')
Done ==
  /\ BoundsTypes' /\ Pushed /\ Notified
  /\ visible' \in BOOLEAN /\ grab' \in [dx : Int, dy : Int, on : BOOLEAN]
  /\ preferences' \in [visible : BOOLEAN, dock : {"remember", "left", "right"}]

\* What is saved is the corner of the bar.
LEMMA SavedType ==
  ASSUME SaveBounds, win' \in Rects, isExpanded' \in BOOLEAN, currentDockSide' \in Docks,
         currentDisplayMode' \in Modes
  PROVE  savedBounds' \in [x : Int, y : Int, dock : Docks, mode : Modes]
  <1>1. PICK q \in Spots : savedBounds' = [x |-> q.x, y |-> q.y, dock |-> currentDockSide',
                                           mode |-> currentDisplayMode']
    <2> DEFINE q == IF currentDisplayMode' = "edge-tab" THEN AnchorOfTab(win', currentDockSide')
                    ELSE CollapsedAnchor(win', isExpanded', currentDockSide')
    <2>1. [x |-> 0, y |-> 0] \in Spots
      BY DEF Spots
    <2>2. q \in Spots
      BY <2>1, BoundsAreBounds
    <2>3. savedBounds' = [x |-> q.x, y |-> q.y, dock |-> currentDockSide', mode |-> currentDisplayMode']
      BY DEF SaveBounds, AnchorOf
    <2> HIDE DEF q
    <2> QED
      BY <2>2, <2>3
  <1> QED
    BY <1>1 DEF Spots

\* The card opens and closes, and the page is told.
LEMMA ExpandDone ==
  ASSUME BarTypes, NEW e \in BOOLEAN, SetWindowExpanded(e)
  PROVE  Done
  <1>1. /\ UNCHANGED <<currentDockSide, currentDisplayMode, savedBounds, visible, preferences, grab, toApp>>
    BY DEF SetWindowExpanded
  <1>2. CASE UNCHANGED <<win, isExpanded, toBar>>
    BY <1>1, <1>2 DEF Done, BarTypes, BoundsTypes, TalkTypes, Pushed, Notified, BarState
  <1>3. CASE ~(isExpanded = e \/ currentDisplayMode = "edge-tab")
    <2>1. /\ isExpanded' = e
          /\ win' = BoundsForState(CollapsedAnchor(win, isExpanded, currentDockSide), e, currentDockSide)
          /\ toBar' = Say(toBar, [BarState EXCEPT !.expanded = e])
      BY <1>3 DEF SetWindowExpanded
    <2>2. win' \in Rects
      <3>1. CollapsedAnchor(win, isExpanded, currentDockSide) \in Spots
        <4>1. [x |-> 0, y |-> 0] \in Spots
          BY DEF Spots
        <4> QED
          BY <4>1, BoundsAreBounds DEF BarTypes, BoundsTypes
      <3> QED
        BY <2>1, <3>1, BoundsAreBounds DEF BarTypes, BoundsTypes
    <2>3. [BarState EXCEPT !.expanded = e] = BarState'
      BY <1>1, <2>1 DEF BarState
    <2> QED
      BY <1>1, <2>1, <2>2, <2>3 DEF Done, BarTypes, BoundsTypes, TalkTypes, Pushed, Notified
  <1> QED
    BY <1>2, <1>3 DEF SetWindowExpanded

\* The bar goes to the edge-tab and back, and the page is told.
LEMMA ModeDone ==
  ASSUME BarTypes, NEW m \in Modes, SetDisplayMode(m)
  PROVE  Done
  <1>0. [x |-> 0, y |-> 0] \in Spots
    BY DEF Spots
  <1>1. UNCHANGED <<visible, preferences, grab, toApp>>
    BY DEF SetDisplayMode
  <1>2. CASE UNCHANGED <<placeVars, toBar>>
    BY <1>1, <1>2 DEF Done, BarTypes, BoundsTypes, TalkTypes, Pushed, Notified, BarState, placeVars
  <1>3. CASE currentDisplayMode # m
    <2>1. /\ currentDisplayMode' = m /\ isExpanded' = FALSE /\ currentDockSide' = currentDockSide
          /\ SaveBounds /\ PushState
      BY <1>3 DEF SetDisplayMode
    <2>2. win' \in Rects
      <3>1. CASE m = "edge-tab"
        <4>1. CollapsedAnchor(win, isExpanded, currentDockSide) \in Spots
          BY <1>0, BoundsAreBounds DEF BarTypes, BoundsTypes
        <4>2. win' = TabBounds(CollapsedAnchor(win, isExpanded, currentDockSide), currentDockSide)
          BY <1>3, <3>1 DEF SetDisplayMode
        <4> QED
          BY <4>1, <4>2, BoundsAreBounds DEF BarTypes, BoundsTypes
      <3>2. CASE m # "edge-tab"
        <4> DEFINE size == FullSize(currentDockSide, FALSE)
                   q == ClampToVisibleArea(At(AnchorOfTab(win, currentDockSide), size), FALSE, currentDockSide)
        <4>1. AnchorOfTab(win, currentDockSide) \in Spots
          BY <1>0, BoundsAreBounds DEF BarTypes, BoundsTypes
        <4>2. At(AnchorOfTab(win, currentDockSide), size) \in Rects
          BY <4>1, BoundsAreBounds DEF BarTypes, BoundsTypes
        <4>3. q \in Spots
          BY <4>2, VisibleSpot DEF BarTypes, BoundsTypes
        <4>4. win' = At(q, size)
          BY <1>3, <3>2 DEF SetDisplayMode
        <4> QED
          BY <4>3, <4>4, BoundsAreBounds DEF BarTypes, BoundsTypes
      <3> QED
        BY <3>1, <3>2
    <2>3. savedBounds' \in [x : Int, y : Int, dock : Docks, mode : Modes]
      BY <2>1, <2>2, SavedType DEF BarTypes, BoundsTypes
    <2> QED
      BY <1>1, <2>1, <2>2, <2>3 DEF Done, BarTypes, BoundsTypes, TalkTypes, Pushed, Notified, PushState
  <1> QED
    BY <1>2, <1>3 DEF SetDisplayMode

\* The bar appears and goes, and the main window is told.
LEMMA ShowDone ==
  ASSUME BarTypes, NEW b \in BOOLEAN, SetVisible(b)
  PROVE  Done
  <1>1. /\ visible' = b /\ grab' = grab /\ toApp' = Say(toApp, visible')
        /\ preferences' = [preferences EXCEPT !.visible = b]
    BY DEF SetVisible, NotifyVisibility
  <1>2. preferences' \in [visible : BOOLEAN, dock : {"remember", "left", "right"}]
    BY <1>1 DEF BarTypes, TalkTypes
  <1>3. BoundsTypes' /\ Pushed
    <2>1. CASE UNCHANGED <<placeVars, toBar>>
      BY <2>1 DEF BarTypes, BoundsTypes, placeVars, Pushed, BarState
    <2>2. CASE Reveal /\ PushState
      <3> DEFINE q == ClampToVisibleArea(win, isExpanded, currentDockSide)
      <3>1. q \in Spots
        BY VisibleSpot DEF BarTypes, BoundsTypes
      <3>2. /\ win' = [win EXCEPT !.x = q.x, !.y = q.y]
            /\ UNCHANGED <<isExpanded, currentDockSide, currentDisplayMode>>
            /\ SaveBounds \/ savedBounds' = savedBounds
        BY <2>2 DEF Reveal, EnsureOnScreen
      <3> HIDE DEF q
      <3>3. win' \in Rects
        BY <3>1, <3>2 DEF BarTypes, BoundsTypes, Rects, Spots
      <3>4. savedBounds' \in [x : Int, y : Int, dock : Docks, mode : Modes]
        BY <3>2, <3>3, SavedType DEF BarTypes, BoundsTypes
      <3> QED
        BY <2>2, <3>2, <3>3, <3>4 DEF BarTypes, BoundsTypes, Pushed, PushState
    <2> QED
      BY <2>1, <2>2 DEF SetVisible
  <1> QED
    BY <1>1, <1>2, <1>3 DEF Done, BarTypes, TalkTypes, Notified

\* The bar is taken by the cursor.
LEMMA DragStarts ==
  ASSUME BarTypes, DragStart
  PROVE  Done /\ grab'.on = TRUE
  <1>0. [x |-> 0, y |-> 0] \in Spots /\ cursor \in Spots
    BY MinibarAssumption DEF Spots, BarTypes, CursorTypes
  <1>1. /\ isExpanded' = FALSE /\ grab' = [dx |-> cursor.x - win'.x, dy |-> cursor.y - win'.y, on |-> TRUE]
        /\ UNCHANGED <<currentDockSide, currentDisplayMode, savedBounds, visible, preferences, toApp>>
    BY DEF DragStart
  <1>2. win' \in Rects /\ Pushed
    <2>1. CASE isExpanded
      <3>1. win' = BoundsForState(CollapsedAnchor(win, TRUE, currentDockSide), FALSE, currentDockSide)
            /\ PushState
        BY <2>1 DEF DragStart
      <3>2. CollapsedAnchor(win, TRUE, currentDockSide) \in Spots
        BY <1>0, BoundsAreBounds DEF BarTypes, BoundsTypes
      <3>3. win' \in Rects
        BY <3>1, <3>2, BoundsAreBounds DEF BarTypes, BoundsTypes
      <3> QED
        BY <3>1, <3>3 DEF PushState, Pushed
    <2>2. CASE ~isExpanded
      <3>1. UNCHANGED <<win, toBar>>
        BY <2>2 DEF DragStart
      <3>2. isExpanded = FALSE
        BY <2>2 DEF BarTypes, BoundsTypes
      <3> QED
        BY <1>1, <3>1, <3>2 DEF Pushed, BarState, BarTypes, BoundsTypes
    <2> QED
      BY <2>1, <2>2
  <1>3. grab' \in [dx : Int, dy : Int, on : BOOLEAN] /\ grab'.on = TRUE
    BY <1>0, <1>1, <1>2 DEF Rects, Spots
  <1> QED
    BY <1>1, <1>2, <1>3 DEF Done, BarTypes, BoundsTypes, TalkTypes, Notified

\* The bar goes to the edge of the display under the cursor.
LEMMA DragEnds ==
  ASSUME BarTypes, DragEnd
  PROVE  Done /\ grab'.on = FALSE
  <1>0. [x |-> 0, y |-> 0] \in Spots /\ cursor \in Spots
    BY MinibarAssumption DEF Spots, BarTypes, CursorTypes
  <1> DEFINE a == CHOOSE a \in displays : Within(a, cursor)
             t == ResolveDockTarget(cursor, a)
  <1>1. a \in Rects
    BY MinibarAssumption DEF BarTypes, CursorTypes, Rects
  <1>2. /\ grab' = NotDragged /\ currentDockSide' = t.dock /\ isExpanded' = FALSE
        /\ currentDisplayMode' = currentDisplayMode /\ win' = At(t, FullSize(t.dock, FALSE))
        /\ SaveBounds /\ PushState /\ UNCHANGED <<visible, preferences, toApp>>
    BY DEF DragEnd
  <1> HIDE DEF a
  <1>3. t \in [dock : Docks, x : Int, y : Int]
    BY <1>0, <1>1, Resolved
  <1> HIDE DEF t
  <1>4. win' \in Rects /\ currentDockSide' \in Docks
    <2>1. t.dock \in Docks
      BY <1>3
    <2>2. FullSize(t.dock, FALSE) \in [width : Nat, height : Nat]
      BY <2>1, SizesAreSizes
    <2> QED
      BY <1>2, <1>3, <2>1, <2>2 DEF At, Rects
  <1>5. savedBounds' \in [x : Int, y : Int, dock : Docks, mode : Modes]
    BY <1>2, <1>4, SavedType DEF BarTypes, BoundsTypes
  <1>6. grab'.on = FALSE /\ grab' \in [dx : Int, dy : Int, on : BOOLEAN]
    BY <1>2 DEF NotDragged
  <1> QED
    BY <1>2, <1>4, <1>5, <1>6 DEF Done, BarTypes, BoundsTypes, TalkTypes, Notified, Pushed, PushState

\* The bar goes to its first place.
LEMMA ResetDone ==
  ASSUME BarTypes, ResetMiniBarDock
  PROVE  Done
  <1>1. /\ currentDockSide' = "right" /\ currentDisplayMode' = "full" /\ isExpanded' = FALSE
        /\ SaveBounds /\ PushState /\ UNCHANGED <<visible, preferences, grab, toApp>>
    BY DEF ResetMiniBarDock
  <1>2. Primary \in Rects
    BY MinibarAssumption DEF Rects
  <1> DEFINE h == (Primary.height - 340) \div 2
  <1>3. h \in Int
    BY <1>2 DEF Rects
  <1>4. win' = At(Place(Right(Primary) - 80, Primary.y + Max({24, h})), FullSize("right", FALSE))
    BY DEF ResetMiniBarDock
  <1> HIDE DEF h
  <1>5. Max({24, h}) = IF 24 >= h THEN 24 ELSE h
    BY <1>3 DEF Max
  <1>6. Place(Right(Primary) - 80, Primary.y + Max({24, h})) \in Spots
    BY <1>2, <1>3, <1>5 DEF Place, Spots, Right, Rects
  <1>7. win' \in Rects
    BY <1>2, <1>4, <1>6, BoundsAreBounds DEF Docks
  <1>8. savedBounds' \in [x : Int, y : Int, dock : Docks, mode : Modes]
    BY <1>1, <1>7, SavedType DEF Docks, Modes
  <1> QED
    BY <1>1, <1>7, <1>8 DEF Done, BarTypes, BoundsTypes, TalkTypes, Notified, Pushed, PushState, Docks, Modes

\* The state that is pushed is a state; the main window's switch has heard, or
\* will hear, whether the bar is visible.
SwitchHears == LastSaid(switch, toApp) = visible

\* After a step of the main process the types hold and the switch will hear.
LEMMA DoneKeeps ==
  ASSUME BarTypes, SwitchHears, Done, toMain' \in Seq(Commands), UNCHANGED worldVars
  PROVE  BarTypes' /\ SwitchHears'
  <1>1. BarState' \in States
    BY DEF Done, BoundsTypes, BarState, States
  <1>2. toBar' \in Seq(States)
    <2>1. toBar \in Seq(States)
      BY DEF BarTypes, TalkTypes
    <2>2. Say(toBar, BarState') \in Seq(States)
      BY <1>1, <2>1, Said
    <2> QED
      BY <2>1, <2>2 DEF Done, Pushed
  <1>3. toApp' \in Seq(BOOLEAN) /\ SwitchHears'
    <2>1. CASE visible' = visible /\ toApp' = toApp
      BY <2>1 DEF BarTypes, TalkTypes, SwitchHears, LastSaid, worldVars
    <2>2. CASE toApp' = Say(toApp, visible')
      BY <2>2, Said DEF BarTypes, TalkTypes, SwitchHears, Done
    <2> QED
      BY <2>1, <2>2 DEF Done, Notified
  <1>4. CursorTypes'
    BY DEF CursorTypes, Within, Right, Bottom, worldVars, BarTypes
  <1> QED
    BY <1>2, <1>3, <1>4 DEF BarTypes, TalkTypes, Done, worldVars

\* Each command of the page is a step of the main process.
LEMMA CommandDone ==
  ASSUME BarTypes, NEW m \in Commands, Do(m)
  PROVE  /\ Done
         /\ m.c = "expand" => m.v \in BOOLEAN /\ SetWindowExpanded(m.v)
         /\ m.c = "start" => grab'.on = TRUE
         /\ m.c = "end" => grab'.on = FALSE
         /\ m.c \notin {"start", "end"} => grab' = grab
  <1>1. CASE m.c = "expand"
    <2>1. m.v \in BOOLEAN /\ SetWindowExpanded(m.v)
      BY <1>1 DEF Commands, Do
    <2>2. grab' = grab
      BY <2>1 DEF SetWindowExpanded
    <2> QED
      BY <1>1, <2>1, <2>2, ExpandDone
  <1>2. CASE m.c = "mode"
    <2>1. m.v \in Modes /\ SetDisplayMode(m.v)
      BY <1>2 DEF Commands, Do
    <2>2. grab' = grab
      BY <2>1 DEF SetDisplayMode
    <2> QED
      BY <1>2, <2>1, <2>2, ModeDone
  <1>3. CASE m.c = "show"
    <2>1. m.v \in BOOLEAN /\ SetVisible(m.v)
      BY <1>3 DEF Commands, Do
    <2>2. grab' = grab
      BY <2>1 DEF SetVisible
    <2> QED
      BY <1>3, <2>1, <2>2, ShowDone
  <1>4. CASE m.c = "start"
    BY <1>4, DragStarts DEF Do
  <1>5. CASE m.c = "end"
    BY <1>5, DragEnds DEF Do
  <1>6. CASE m.c = "reset"
    <2>1. ResetMiniBarDock
      BY <1>6 DEF Do
    <2> QED
      BY <1>6, <2>1, ResetDone DEF ResetMiniBarDock
  <1> QED
    BY <1>1, <1>2, <1>3, <1>4, <1>5, <1>6 DEF Commands

\* What is done elsewhere is, too.
LEMMA ElsewhereDone ==
  ASSUME BarTypes, Elsewhere
  PROVE  Done /\ grab' = grab /\ toMain' = toMain /\ UNCHANGED worldVars
  <1>1. CASE SetVisible(~visible)
    <2>1. grab' = grab
      BY <1>1 DEF SetVisible
    <2> QED
      BY <1>1, <2>1, ShowDone DEF Elsewhere, BarTypes, TalkTypes
  <1>2. CASE ResetMiniBarDock
    <2>1. grab' = grab
      BY <1>2 DEF ResetMiniBarDock
    <2> QED
      BY <1>2, <2>1, ResetDone DEF Elsewhere
  <1>3. CASE SetDisplayMode("full")
    <2>1. grab' = grab
      BY <1>3 DEF SetDisplayMode
    <2> QED
      BY <1>3, <2>1, ModeDone DEF Elsewhere, Modes
  <1> QED
    BY <1>1, <1>2, <1>3 DEF Elsewhere

\* The bar starts on an edge of a display that is there.
LEMMA Started ==
  ASSUME CursorTypes, NEW pr \in {"remember", "left", "right"},
         NEW saved \in [x : Int, y : Int, dock : Docks, mode : Modes]
  PROVE  StartupDock(pr, saved) \in Docks /\ StartupPosition(pr, saved) \in Rects
  <1>1. StartupDock(pr, saved) \in Docks
    BY DEF StartupDock, Docks
  <1> DEFINE near == {a \in displays : Overlaps(At(saved, FullSize("right", FALSE)), a)}
             a == StartupArea(pr, saved)
             dock == StartupDock(pr, saved)
  <1>2. a \in Rects
    <2>1. displays \subseteq Rects /\ Primary \in Rects
      BY MinibarAssumption DEF CursorTypes, Rects
    <2>2. a = IF pr = "remember" /\ near # {} THEN CHOOSE x \in near : TRUE ELSE Primary
      BY DEF StartupArea
    <2> QED
      BY <2>1, <2>2
  <1> HIDE DEF a
  <1> DEFINE y == Clamp(saved.y, a.y, Bottom(a) - 340)
  <1>3. y \in Int
    <2> DEFINE lo == a.y
               hi == Bottom(a) - 340
    <2>1. saved.y \in Int /\ lo \in Int /\ hi \in Int
      BY <1>2 DEF Rects, Bottom
    <2>2. y = Clamp(saved.y, lo, hi)
      OBVIOUS
    <2> HIDE DEF lo, hi, y
    <2> QED
      BY <2>1, <2>2, Clamped
  <1> HIDE DEF y
  <1> DEFINE anchor == Place(IF dock = "left" THEN a.x ELSE Right(a) - 80, y)
  <1>4. anchor \in Spots
    BY <1>2, <1>3 DEF Place, Spots, Right, Rects
  <1>5. StartupPosition(pr, saved) = IF saved.mode = "edge-tab" THEN TabBounds(anchor, dock)
                                     ELSE At(anchor, FullSize(dock, FALSE))
    BY DEF StartupPosition, a, y
  <1> HIDE DEF anchor, dock
  <1> QED
    BY <1>1, <1>2, <1>4, <1>5, BoundsAreBounds DEF dock

\* Every step of the window alone keeps the types and what the switch will hear.
LEMMA WindowKeeps ==
  ASSUME BarTypes, SwitchHears, WindowStep \/ AnyPage
  PROVE  BarTypes' /\ SwitchHears'
  <1>1. CASE Receive
    <2>1. /\ toMain \in Seq(Commands) /\ toMain # <<>> /\ toMain' = Tail(toMain)
          /\ Do(Head(toMain)) /\ UNCHANGED worldVars
      BY <1>1 DEF Receive, BarTypes, TalkTypes
    <2>2. Head(toMain) \in Commands /\ Tail(toMain) \in Seq(Commands)
      BY <2>1, Heads
    <2>3. Done
      BY <2>1, <2>2, CommandDone
    <2> QED
      BY <2>1, <2>2, <2>3, DoneKeeps
  <1>2. CASE Elsewhere
    BY <1>2, ElsewhereDone, DoneKeeps DEF BarTypes, TalkTypes
  <1>3. CASE UseSwitch
    <2>1. SetVisible(~switch) /\ toMain' = toMain /\ UNCHANGED worldVars
      BY <1>3 DEF UseSwitch
    <2>2. (~switch) \in BOOLEAN
      BY DEF BarTypes, TalkTypes
    <2>3. Done
      BY <2>1, <2>2, ShowDone
    <2> QED
      BY <2>1, <2>3, DoneKeeps DEF BarTypes, TalkTypes
  <1>4. CASE Follow
    <2>1. /\ win' = [win EXCEPT !.x = cursor.x - grab.dx, !.y = cursor.y - grab.dy]
          /\ UNCHANGED <<visible, isExpanded, currentDockSide, currentDisplayMode, grab, savedBounds,
                         preferences, toBar, toApp, toMain, worldVars>>
      BY <1>4 DEF Follow
    <2>2. cursor \in Spots
      BY MinibarAssumption DEF BarTypes, CursorTypes, Spots
    <2>3. cursor.x - grab.dx \in Int /\ cursor.y - grab.dy \in Int
      BY <2>2 DEF BarTypes, TalkTypes, Spots
    <2>4. win' \in Rects
      BY <2>1, <2>3 DEF BarTypes, BoundsTypes, Rects
    <2>5. BoundsTypes'
      BY <2>1, <2>4 DEF BarTypes, BoundsTypes
    <2>6. CursorTypes'
      BY <2>1 DEF BarTypes, CursorTypes, Within, Right, Bottom, worldVars
    <2>7. TalkTypes' /\ SwitchHears'
      BY <2>1 DEF BarTypes, TalkTypes, SwitchHears, LastSaid, worldVars
    <2> QED
      BY <2>5, <2>6, <2>7 DEF BarTypes
  <1>5. CASE CloseWindow
    <2>1. /\ visible' = FALSE /\ toApp' = Say(toApp, visible')
          /\ UNCHANGED <<placeVars, preferences, grab, toBar, toMain, worldVars>>
      BY <1>5 DEF CloseWindow, NotifyVisibility
    <2>2. Done
      BY <2>1 DEF Done, Pushed, Notified, BarState, placeVars, BarTypes, BoundsTypes, TalkTypes
    <2> QED
      BY <2>1, <2>2, DoneKeeps DEF BarTypes, TalkTypes
  <1>6. CASE SetDockPreference
    <2>1. PICK p \in {"remember", "left", "right"} : preferences' = [preferences EXCEPT !.dock = p]
      BY <1>6 DEF SetDockPreference
    <2>2. UNCHANGED <<placeVars, visible, grab, toMain, toBar, toApp, worldVars>>
      BY <1>6 DEF SetDockPreference
    <2>3. preferences' \in [visible : BOOLEAN, dock : {"remember", "left", "right"}]
      BY <2>1 DEF BarTypes, TalkTypes
    <2>4. Done
      BY <2>2, <2>3 DEF Done, Pushed, Notified, BarState, placeVars, BarTypes, BoundsTypes, TalkTypes
    <2> QED
      BY <2>2, <2>4, DoneKeeps DEF BarTypes, TalkTypes
  <1>7. CASE Restart
    <2>1. /\ currentDockSide' = StartupDock(preferences.dock, savedBounds)
          /\ currentDisplayMode' = savedBounds.mode /\ isExpanded' = FALSE
          /\ win' = StartupPosition(preferences.dock, savedBounds)
          /\ visible' = preferences.visible /\ grab' = NotDragged
          /\ toMain' = <<>> /\ toBar' = <<BarState'>> /\ toApp' = <<visible'>>
          /\ UNCHANGED <<savedBounds, preferences, worldVars>>
      BY <1>7 DEF Restart, Start
    <2>2. BoundsTypes'
      <3>1. preferences.dock \in {"remember", "left", "right"}
        BY DEF BarTypes, TalkTypes
      <3>2. currentDockSide' \in Docks /\ win' \in Rects
        BY <2>1, <3>1, Started DEF BarTypes, BoundsTypes
      <3> QED
        BY <2>1, <3>2 DEF BarTypes, BoundsTypes
    <2>3. BarState' \in States
      BY <2>2 DEF BoundsTypes, BarState, States
    <2>4. CursorTypes'
      BY <2>1 DEF BarTypes, CursorTypes, Within, Right, Bottom, worldVars
    <2>5. visible' \in BOOLEAN /\ switch' \in BOOLEAN /\ preferences' = preferences
      BY <2>1 DEF BarTypes, TalkTypes, worldVars
    <2>6. toMain' \in Seq(Commands) /\ toBar' \in Seq(States) /\ toApp' \in Seq(BOOLEAN)
      BY <2>1, <2>3, <2>5
    <2>7. grab' \in [dx : Int, dy : Int, on : BOOLEAN]
      BY <2>1 DEF NotDragged
    <2>8. SwitchHears'
      BY <2>1, <2>5 DEF SwitchHears, LastSaid
    <2> QED
      BY <2>2, <2>4, <2>5, <2>6, <2>7, <2>8 DEF BarTypes, TalkTypes
  <1>8. ASSUME worldUnchanged, CursorTypes', UNCHANGED <<toApp, switch>>
        PROVE  BarTypes' /\ SwitchHears'
    BY <1>8 DEF worldUnchanged, BarTypes, BoundsTypes, TalkTypes, SwitchHears, LastSaid, placeVars
  <1>9. CASE MoveCursor
    <2>1. CursorTypes'
      BY <1>9 DEF MoveCursor, BarTypes, CursorTypes, Within, Right, Bottom
    <2> QED
      BY <1>8, <1>9, <2>1 DEF MoveCursor
  <1>10. CASE PlugDisplays
    <2>1. displays' \subseteq Displays /\ Primary \in displays'
      BY <1>10 DEF PlugDisplays
    <2>2. cursor' \in Points /\ \E a \in displays' : Within(a, cursor')
      <3>1. CASE \E a \in displays' : Within(a, cursor)
        BY <1>10, <3>1 DEF PlugDisplays, BarTypes, CursorTypes
      <3>2. CASE ~\E a \in displays' : Within(a, cursor)
        BY <1>10, <2>1, <3>2, CursorAssumption DEF PlugDisplays
      <3> QED
        BY <3>1, <3>2
    <2>3. CursorTypes'
      BY <2>1, <2>2 DEF CursorTypes, Within, Right, Bottom
    <2> QED
      BY <1>8, <1>10, <2>3 DEF PlugDisplays
  <1>11. CASE HearVisibility
    <2>1. toApp \in Seq(BOOLEAN) /\ toApp # <<>> /\ switch' = Head(toApp) /\ toApp' = Tail(toApp)
      BY <1>11 DEF HearVisibility, BarTypes, TalkTypes
    <2>2. Head(toApp) \in BOOLEAN /\ Tail(toApp) \in Seq(BOOLEAN)
      BY <2>1, Heads
    <2>3. LastSaid(Head(toApp), Tail(toApp)) = LastSaid(switch, toApp)
      BY <2>1, Heads
    <2>4. worldUnchanged /\ UNCHANGED <<displays, cursor>>
      BY <1>11 DEF HearVisibility
    <2>5. CursorTypes'
      BY <2>4 DEF BarTypes, CursorTypes, Within, Right, Bottom
    <2>6. SwitchHears'
      <3>1. LastSaid(switch', toApp') = LastSaid(switch, toApp)
        BY <2>1, <2>3
      <3> QED
        BY <2>4, <3>1 DEF SwitchHears, worldUnchanged
    <2> QED
      BY <2>1, <2>2, <2>4, <2>5, <2>6 DEF worldUnchanged, BarTypes, BoundsTypes, TalkTypes, placeVars
  <1>12. CASE AnyPage
    <2>1. toBar' = <<>> /\ UNCHANGED <<placeVars, visible, grab, preferences, toApp, worldVars>>
      BY <1>12 DEF AnyPage
    <2>2. toMain' \in Seq(Commands)
      <3>1. PICK m : toMain' = <<m>> /\ m \in AnyCommand \cup {Command("end", TRUE), Command("start", TRUE)}
        BY <1>12 DEF AnyPage
      <3>2. \A b \in BOOLEAN : [c |-> "expand", v |-> b] \in Commands
        BY DEF Commands
      <3>3. \A x \in Modes : [c |-> "mode", v |-> x] \in Commands
        BY DEF Commands
      <3>4. [c |-> "show", v |-> FALSE] \in Commands
        BY DEF Commands
      <3>5. [c |-> "start", v |-> TRUE] \in Commands /\ [c |-> "end", v |-> TRUE] \in Commands
        BY DEF Commands
      <3>6. m \in Commands
        BY <3>1, <3>2, <3>3, <3>4, <3>5, Zenon DEF AnyCommand, Command, Modes
      <3> QED
        BY <3>1, <3>6
    <2>3. toBar' \in Seq(States)
      BY <2>1
    <2>4. CursorTypes'
      BY <2>1 DEF BarTypes, CursorTypes, Within, Right, Bottom, worldVars
    <2> QED
      BY <2>1, <2>2, <2>3, <2>4
         DEF BarTypes, BoundsTypes, TalkTypes, SwitchHears, LastSaid, placeVars, worldVars
  <1> QED
    BY <1>1, <1>2, <1>3, <1>4, <1>5, <1>6, <1>7, <1>9, <1>10, <1>11, <1>12 DEF WindowStep

-----------------------------------------------------------------------------
(***************************************************************************)
(* The page's handlers                                                     *)
(***************************************************************************)
Someone == Agents \cup {NoAgent}
PageRecs ==
  [seen : States, hovered : Someone, pinned : Someone, mounted : Someone, shown : BOOLEAN,
   menu : BOOLEAN, hover : Someone, leave : {"off", "clears", "keeps"},
   close : {"none", "armed", "cleared"}, held : BOOLEAN, sent : Seq(Commands)]
Mice == {"out", "bar", "card", "menu"} \cup Agents
PageTypes == page \in PageRecs /\ page.sent = <<>> /\ mouse \in Mice

\* Whether the button is held is said.
HeldSaid(p) ==
  \/ NoneOf(p.sent, {"start", "end"}) /\ p.held = page.held
  \/ LastIs(p.sent, {"start", "end"}, Command(IF p.held THEN "start" ELSE "end", TRUE))
\* A handler that neither begins a drag nor leaves for the edge-tab.
Calm(p) ==
  /\ NoTab(p.sent) /\ (p.held => page.held)
  /\ ~page.held => NoneOf(p.sent, {"start", "end"})
  /\ EndLast(p.sent) /\ (p.held => NoneOf(p.sent, {"end"}))
\* What a handler leaves that neither asks for a size nor hides the card.
Plain(p) ==
  /\ p \in PageRecs /\ (page.shown => p.shown)
  /\ NoneOf(p.sent, {"expand"}) /\ HeldSaid(p) /\ Calm(p)
\* What any handler leaves.
Kept(p) ==
  /\ p \in PageRecs /\ HeldSaid(p)
  /\ page.shown /\ ~p.shown => Target(p) = NoAgent
  /\ \/ NoneOf(p.sent, {"expand"})
     \/ /\ LastIs(p.sent, {"expand"}, Command("expand", FALSE))
        /\ Target(p) = NoAgent /\ p.mounted = NoAgent /\ p.menu = FALSE

\* A drag is begun, and the edge-tab is gone to, when all is heard.
Orderly(p) ==
  \/ Calm(p)
  \/ /\ UserActs
     /\ \/ ~Tab(page) /\ NoTab(p.sent) /\ NoneOf(p.sent, {"end"})
        \/ ~p.held /\ NoneOf(p.sent, {"start", "end"})

\* Handlers that send nothing and hide nothing.
LEMMA QuietHandlers ==
  ASSUME PageTypes, NEW p, Plain(p)
  PROVE  /\ \A key \in Agents :
              /\ Plain(MouseEnterAgent(key, p)) /\ MouseEnterAgent(key, p).seen = p.seen
              /\ Plain(RingClick(key, p)) /\ RingClick(key, p).seen = p.seen
         /\ Plain(MouseLeaveAgent(p)) /\ MouseLeaveAgent(p).seen = p.seen
         /\ Plain(ContainerMouseLeave(p)) /\ ContainerMouseLeave(p).seen = p.seen
         /\ Plain(InteractiveMouseEnter(p)) /\ InteractiveMouseEnter(p).seen = p.seen
         /\ Plain(CloseContextMenu(p)) /\ CloseContextMenu(p).seen = p.seen
         /\ Plain(Forget(p)) /\ Forget(p).seen = p.seen
         /\ Plain(PinFromCard(p)) /\ PinFromCard(p).seen = p.seen
         /\ Plain(ContextMenu(p)) /\ ContextMenu(p).seen = p.seen
  <1>0. p \in PageRecs /\ Agents \subseteq Someone /\ NoAgent \in Someone
    BY DEF Plain, Someone
  <1> DEFINE Same(r) == /\ r \in PageRecs /\ r.sent = p.sent /\ r.held = p.held
                        /\ (p.shown => r.shown) /\ r.seen = p.seen
  <1>1. ASSUME NEW r, Same(r)
        PROVE  Plain(r) /\ r.seen = p.seen
    BY <1>1 DEF Plain, HeldSaid, Calm
  <1>2. \A key \in Agents : Same(MouseEnterAgent(key, p))
    BY <1>0 DEF MouseEnterAgent, PageRecs
  <1>3. Same(MouseLeaveAgent(p))
    BY <1>0 DEF MouseLeaveAgent, PageRecs
  <1>4. Same(ContainerMouseLeave(p))
    BY <1>0 DEF ContainerMouseLeave, PageRecs
  <1>5. Same(InteractiveMouseEnter(p))
    BY <1>0 DEF InteractiveMouseEnter, PageRecs
  <1>6. Same(CloseContextMenu(p))
    BY <1>0 DEF CloseContextMenu, PageRecs
  <1>7. Same(Forget(p))
    BY <1>0 DEF Forget, PageRecs
  <1>8. \A key \in Agents : Same(RingClick(key, p))
    BY <1>0 DEF RingClick, PageRecs
  <1>9. Same(PinFromCard(p))
    BY <1>0 DEF PinFromCard, PageRecs
  <1>10. Same(ContextMenu(p))
    BY <1>0 DEF ContextMenu, PageRecs, Tab
  <1> HIDE DEF Same
  <1> QED
    BY <1>1, <1>2, <1>3, <1>4, <1>5, <1>6, <1>7, <1>8, <1>9, <1>10

\* A command sent is the last one of the page's.
LEMMA Sends ==
  ASSUME PageTypes, NEW p \in PageRecs, NEW m \in Commands
  PROVE  /\ Send(p, m) = [p EXCEPT !.sent = Append(p.sent, m)]
         /\ Send(p, m) \in PageRecs /\ Send(p, m).sent = Append(p.sent, m)
         /\ Send(p, m).seen = p.seen /\ Send(p, m).held = p.held /\ Send(p, m).shown = p.shown
         /\ Send(p, m).menu = p.menu /\ Send(p, m).mounted = p.mounted /\ Target(Send(p, m)) = Target(p)
         /\ /\ Plain(p) /\ m.c \notin {"expand", "start", "end"} /\ m # Command("mode", "edge-tab")
            => Plain(Send(p, m))
  <1>1. Append(p.sent, m) \in Seq(Commands) /\ p.sent \in Seq(Commands)
    BY DEF PageRecs
  <1> DEFINE r == Send(p, m)
  <1>2. r = [p EXCEPT !.sent = Append(p.sent, m)]
    BY DEF Send
  <1>3. r \in PageRecs /\ r.sent = Append(p.sent, m)
        /\ r.seen = p.seen /\ r.held = p.held /\ r.shown = p.shown
        /\ r.menu = p.menu /\ r.mounted = p.mounted /\ Target(r) = Target(p)
    BY <1>1, <1>2 DEF PageRecs, Target
  <1> HIDE DEF r
  <1>5. ASSUME Plain(p), m.c \notin {"expand", "start", "end"}, m # Command("mode", "edge-tab")
        PROVE  Plain(r)
    <2>1. NoneOf(r.sent, {"expand"})
      BY <1>1, <1>3, <1>5, SentOne DEF Plain
    <2>2. HeldSaid(r)
      <3>1. CASE NoneOf(p.sent, {"start", "end"}) /\ p.held = page.held
        <4>1. NoneOf(r.sent, {"start", "end"})
          BY <1>1, <1>3, <1>5, <3>1, SentOne
        <4> QED
          BY <1>3, <3>1, <4>1 DEF HeldSaid
      <3>2. CASE LastIs(p.sent, {"start", "end"}, Command(IF p.held THEN "start" ELSE "end", TRUE))
        <4>1. LastIs(r.sent, {"start", "end"}, Command(IF p.held THEN "start" ELSE "end", TRUE))
          BY <1>1, <1>3, <1>5, <3>2, SentOne
        <4> QED
          BY <1>3, <4>1 DEF HeldSaid
      <3> QED
        BY <1>5, <3>1, <3>2 DEF Plain, HeldSaid
    <2>3. Calm(r)
      <3>1. NoTab(r.sent)
        BY <1>1, <1>3, <1>5, SentOne DEF Plain, Calm
      <3>2. ~page.held => NoneOf(r.sent, {"start", "end"})
        BY <1>1, <1>3, <1>5, SentOne DEF Plain, Calm
      <3>3. EndLast(r.sent)
        BY <1>1, <1>3, <1>5, SentOne DEF Plain, Calm
      <3>4. r.held => NoneOf(r.sent, {"end"})
        BY <1>1, <1>3, <1>5, SentOne DEF Plain, Calm
      <3> QED
        BY <1>3, <1>5, <3>1, <3>2, <3>3, <3>4 DEF Plain, Calm
    <2> QED
      BY <1>3, <1>5, <2>1, <2>2, <2>3 DEF Plain
  <1> QED
    BY <1>2, <1>3, <1>5 DEF r

\* Handlers that send a command without a size: the end of a drag is said.
LEMMA LoudHandlers ==
  ASSUME PageTypes, NEW p, Plain(p)
  PROVE  /\ Plain(EndDrag(p)) /\ EndDrag(p).seen = p.seen
         /\ Plain(Escape(p)) /\ Escape(p).seen = p.seen
         /\ Plain(Close(p)) /\ Close(p).seen = p.seen
         /\ Plain(RestoreFromEdgeTab(p)) /\ RestoreFromEdgeTab(p).seen = p.seen
         /\ Plain(ResetFromMenu(p)) /\ ResetFromMenu(p).seen = p.seen
         /\ Plain(PinFromMenu(p)) /\ PinFromMenu(p).seen = p.seen
  <1>0. p \in PageRecs
    BY DEF Plain
  <1>1. /\ Command("show", FALSE) \in Commands /\ Command("mode", "full") \in Commands
        /\ Command("reset", TRUE) \in Commands /\ Command("end", TRUE) \in Commands
    BY DEF Command, Commands, Modes
  <1>2. Plain(EndDrag(p)) /\ EndDrag(p).seen = p.seen
    <2>1. CASE ~p.held
      BY <2>1 DEF EndDrag
    <2>2. CASE p.held
      <3> DEFINE q == [p EXCEPT !.held = FALSE]
                 r == Send(q, Command("end", TRUE))
      <3>1. q \in PageRecs /\ q.held = FALSE /\ q.shown = p.shown /\ q.sent = p.sent /\ q.seen = p.seen
        BY <1>0 DEF PageRecs
      <3>2. EndDrag(p) = r
        BY <2>2 DEF EndDrag
      <3> HIDE DEF q
      <3>3. r \in PageRecs /\ r.sent = Append(p.sent, Command("end", TRUE))
            /\ r.held = q.held /\ r.shown = q.shown /\ r.seen = q.seen
        BY <1>1, <3>1, Sends
      <3> HIDE DEF r
      <3>4. p.sent \in Seq(Commands)
        BY <1>0 DEF PageRecs
      <3>5. NoneOf(r.sent, {"expand"})
        BY <1>1, <3>3, <3>4, SentOne DEF Plain, Command
      <3>6. LastIs(r.sent, {"start", "end"}, Command("end", TRUE))
        BY <1>1, <3>3, <3>4, SentOne DEF Command
      <3>7. HeldSaid(r)
        BY <3>1, <3>3, <3>6 DEF HeldSaid
      <3>8. NoTab(r.sent)
        BY <1>1, <3>3, <3>4, SentOne DEF Plain, Calm, Command
      <3>9. EndLast(r.sent)
        BY <1>1, <2>2, <3>3, <3>4, SentOne DEF Plain, Calm
      <3>10. Calm(r)
        BY <2>2, <3>1, <3>3, <3>8, <3>9 DEF Plain, Calm
      <3> QED
        BY <3>1, <3>2, <3>3, <3>5, <3>7, <3>10 DEF Plain
    <2> QED
      BY <2>1, <2>2
  <1>3. Plain(CloseContextMenu(p)) /\ CloseContextMenu(p).seen = p.seen
    BY <1>0 DEF Plain, HeldSaid, Calm, CloseContextMenu, PageRecs
  <1>4. Plain(Forget(p)) /\ Forget(p).seen = p.seen
    BY <1>0 DEF Plain, HeldSaid, Calm, Forget, PageRecs, Someone
  <1>5. Plain(Escape(p)) /\ Escape(p).seen = p.seen
    BY <1>3, <1>4 DEF Escape
  <1>6. Plain(RestoreFromEdgeTab(p)) /\ RestoreFromEdgeTab(p).seen = p.seen
    BY <1>0, <1>1, Sends DEF RestoreFromEdgeTab, Command
  <1>7. Plain(ResetFromMenu(p)) /\ ResetFromMenu(p).seen = p.seen
    <2> DEFINE q == CloseContextMenu(p)
    <2>1. q \in PageRecs /\ Plain(q) /\ q.seen = p.seen
      BY <1>3 DEF Plain
    <2> HIDE DEF q
    <2> QED
      BY <1>1, <2>1, Sends DEF ResetFromMenu, Command, q
  <1>8. Plain(Close(p)) /\ Close(p).seen = p.seen
    <2> DEFINE q == CloseContextMenu(Forget(p))
    <2>1. q \in PageRecs /\ Plain(q) /\ q.seen = p.seen
      <3>1. q \in PageRecs /\ q.seen = p.seen /\ q.sent = p.sent /\ q.held = p.held /\ q.shown = p.shown
        BY <1>0 DEF CloseContextMenu, Forget, PageRecs, Someone
      <3> HIDE DEF q
      <3> QED
        BY <3>1 DEF Plain, HeldSaid, Calm
    <2> HIDE DEF q
    <2> QED
      BY <1>1, <2>1, Sends DEF Close, Command, q
  <1>9. Plain(PinFromMenu(p)) /\ PinFromMenu(p).seen = p.seen
    <2> DEFINE q == PinFromMenu(p)
    <2>1. q \in PageRecs /\ q.seen = p.seen /\ q.sent = p.sent /\ q.held = p.held /\ q.shown = p.shown
      BY <1>0 DEF PinFromMenu, CloseContextMenu, Target, PageRecs, Someone
    <2> HIDE DEF q
    <2>2. Plain(q)
      BY <2>1 DEF Plain, HeldSaid, Calm
    <2> QED
      BY <2>1, <2>2 DEF q
  <1> QED
    BY <1>2, <1>5, <1>6, <1>7, <1>8, <1>9

\* The press on the bar and the way to the edge-tab take the card away.
LEMMA HidingHandlers ==
  ASSUME PageTypes
  PROVE  /\ Plain(page)
         /\ Kept(DragRegionMouseDown(page)) /\ DragRegionMouseDown(page).seen = page.seen
         /\ NoTab(DragRegionMouseDown(page).sent) /\ NoneOf(DragRegionMouseDown(page).sent, {"end"})
         /\ Kept(CollapseToEdgeTab(page)) /\ CollapseToEdgeTab(page).seen = page.seen
         /\ NoneOf(CollapseToEdgeTab(page).sent, {"start", "end"})
         /\ CollapseToEdgeTab(page).held = page.held
  <1>0. page \in PageRecs /\ page.sent = <<>>
    BY DEF PageTypes
  <1>1. NoneOf(page.sent, {"expand"}) /\ NoneOf(page.sent, {"start", "end"}) /\ NoTab(page.sent)
        /\ NoneOf(page.sent, {"end"}) /\ EndLast(page.sent)
    BY <1>0 DEF NoneOf, NoTab, EndLast
  <1>2. Plain(page)
    BY <1>0, <1>1 DEF Plain, HeldSaid, Calm
  <1>3. /\ Kept(DragRegionMouseDown(page)) /\ DragRegionMouseDown(page).seen = page.seen
        /\ NoTab(DragRegionMouseDown(page).sent) /\ NoneOf(DragRegionMouseDown(page).sent, {"end"})
    <2> DEFINE q == [Forget(CloseContextMenu(page)) EXCEPT
                       !.mounted = NoAgent, !.shown = FALSE, !.held = TRUE, !.hover = NoAgent,
                       !.leave = "off", !.close = IF @ = "none" THEN @ ELSE "cleared"]
               s == Send(q, Command("start", TRUE))
               r == Send(s, Command("expand", FALSE))
    <2>1. /\ q \in PageRecs /\ q.sent = <<>> /\ q.held = TRUE /\ q.mounted = NoAgent
          /\ q.menu = FALSE /\ q.seen = page.seen /\ q.pinned = NoAgent /\ q.hovered = NoAgent
      BY <1>0 DEF Forget, CloseContextMenu, PageRecs, Someone
    <2>2. DragRegionMouseDown(page) = r
      BY DEF DragRegionMouseDown
    <2> HIDE DEF q
    <2>3. /\ Command("start", TRUE) \in Commands /\ Command("start", TRUE).c = "start"
          /\ Command("expand", FALSE) \in Commands /\ Command("expand", FALSE).c = "expand"
      BY DEF Command, Commands
    <2>4. Target(q) = NoAgent
      BY <2>1 DEF Target
    <2>5. /\ s \in PageRecs /\ s.sent = Append(q.sent, Command("start", TRUE)) /\ s.held = TRUE
          /\ s.mounted = NoAgent /\ s.menu = FALSE /\ s.seen = page.seen /\ Target(s) = NoAgent
      BY <2>1, <2>3, <2>4, Sends
    <2> HIDE DEF s
    <2>6. /\ r \in PageRecs /\ r.sent = Append(s.sent, Command("expand", FALSE)) /\ r.held = TRUE
          /\ r.mounted = NoAgent /\ r.menu = FALSE /\ r.seen = page.seen /\ Target(r) = NoAgent
      BY <2>3, <2>5, Sends
    <2> HIDE DEF r
    <2>7. q.sent \in Seq(Commands) /\ s.sent \in Seq(Commands)
      BY <2>1, <2>5 DEF PageRecs
    <2>8. LastIs(s.sent, {"start", "end"}, Command("start", TRUE))
      BY <2>3, <2>5, <2>7, SentOne
    <2>9. LastIs(r.sent, {"start", "end"}, Command("start", TRUE))
      BY <2>3, <2>6, <2>7, <2>8, SentOne
    <2>10. LastIs(r.sent, {"expand"}, Command("expand", FALSE))
      BY <2>3, <2>6, <2>7, SentOne
    <2>11. HeldSaid(r)
      BY <2>6, <2>9 DEF HeldSaid
    <2>12. NoTab(r.sent) /\ NoneOf(r.sent, {"end"})
      <3>1. NoTab(q.sent) /\ NoneOf(q.sent, {"end"})
        BY <2>1 DEF NoTab, NoneOf
      <3>2. NoTab(s.sent) /\ NoneOf(s.sent, {"end"})
        BY <2>3, <2>5, <2>7, <3>1, SentOne DEF Command
      <3> QED
        BY <2>3, <2>6, <2>7, <3>2, SentOne DEF Command
    <2> QED
      BY <2>2, <2>6, <2>10, <2>11, <2>12 DEF Kept
  <1>4. /\ Kept(CollapseToEdgeTab(page)) /\ CollapseToEdgeTab(page).seen = page.seen
        /\ NoneOf(CollapseToEdgeTab(page).sent, {"start", "end"})
        /\ CollapseToEdgeTab(page).held = page.held
    <2> DEFINE q == [CloseContextMenu(Forget(page)) EXCEPT !.mounted = NoAgent, !.shown = FALSE]
               r == Send(q, Command("mode", "edge-tab"))
    <2>1. /\ q \in PageRecs /\ q.sent = <<>> /\ q.held = page.held
          /\ q.seen = page.seen /\ q.pinned = NoAgent /\ q.hovered = NoAgent
      BY <1>0 DEF Forget, CloseContextMenu, PageRecs, Someone
    <2>2. CollapseToEdgeTab(page) = r
      BY DEF CollapseToEdgeTab
    <2> HIDE DEF q
    <2>3. Command("mode", "edge-tab") \in Commands /\ Command("mode", "edge-tab").c = "mode"
      BY DEF Command, Commands, Modes
    <2>4. Target(q) = NoAgent
      BY <2>1 DEF Target
    <2>5. /\ r \in PageRecs /\ r.sent = Append(q.sent, Command("mode", "edge-tab")) /\ r.held = page.held
          /\ r.seen = page.seen /\ Target(r) = NoAgent
      BY <2>1, <2>3, <2>4, Sends
    <2> HIDE DEF r
    <2>6. q.sent \in Seq(Commands)
      BY <2>1 DEF PageRecs
    <2>7. NoneOf(r.sent, {"expand"}) /\ NoneOf(r.sent, {"start", "end"})
      <3>1. NoneOf(q.sent, {"expand"}) /\ NoneOf(q.sent, {"start", "end"})
        BY <2>1 DEF NoneOf
      <3> QED
        BY <2>3, <2>5, <2>6, <3>1, SentOne
    <2> QED
      BY <2>2, <2>5, <2>7 DEF Kept, HeldSaid
  <1> QED
    BY <1>2, <1>3, <1>4

\* Every event of the user and every timer is a handler and then a render.
LEMMA Handled ==
  ASSUME PageTypes, UserStep \/ TimerStep
  PROVE  mouse' \in Mice /\ \E p : Kept(p) /\ Orderly(p) /\ p.seen = page.seen /\ Render(p)
  <1>0. Plain(page) /\ page \in PageRecs /\ mouse \in Mice
    BY HidingHandlers DEF PageTypes
  <1>1. ASSUME NEW p, Plain(p)
        PROVE  Kept(p) /\ Orderly(p)
    BY <1>1 DEF Plain, Kept, Orderly
  <1>2. CASE MoveMouse
    <2> DEFINE left == IF mouse \in Agents THEN MouseLeaveAgent(page) ELSE page
               out == IF mouse' = "out" THEN ContainerMouseLeave(left) ELSE left
               near == IF Horizontal(page.seen.dock) THEN EntersHorizontal ELSE EntersVertical
               near2 == IF near THEN InteractiveMouseEnter(out) ELSE out
               last == IF Tab(page) THEN page
                       ELSE IF mouse' \in Agents THEN MouseEnterAgent(mouse', near2) ELSE near2
    <2>0. mouse' \in Mice
      BY <1>2 DEF MoveMouse, Places, Rings, Mice
    <2>1. Render(last)
      BY <1>2 DEF MoveMouse
    <2>2. Plain(left) /\ left.seen = page.seen
      BY <1>0, QuietHandlers
    <2> HIDE DEF left
    <2>3. \A p : Plain(p) => /\ Plain(ContainerMouseLeave(p)) /\ ContainerMouseLeave(p).seen = p.seen
                             /\ Plain(InteractiveMouseEnter(p)) /\ InteractiveMouseEnter(p).seen = p.seen
      BY QuietHandlers
    <2>4. Plain(out) /\ out.seen = page.seen
      BY <2>2, <2>3
    <2> HIDE DEF out
    <2>5. Plain(near2) /\ near2.seen = page.seen
      BY <2>3, <2>4
    <2> HIDE DEF near2
    <2>6. Plain(last) /\ last.seen = page.seen
      BY <1>0, <2>5, QuietHandlers
    <2> HIDE DEF last
    <2> QED
      BY <1>1, <2>0, <2>1, <2>6
  <1>3. CASE Press
    <2>1. \/ Render(DragRegionMouseDown(page)) /\ ~Tab(page) /\ UserActs
          \/ Render(CloseContextMenu(page))
      BY <1>3 DEF Press
    <2> QED
      BY <1>0, <1>1, <1>3, <2>1, HidingHandlers, QuietHandlers DEF Press, Stays, Orderly
  <1>4. CASE Release
    <2> DEFINE q == EndDrag(page)
    <2>1. Plain(q) /\ q.seen = page.seen
      BY <1>0, LoudHandlers
    <2>2. \/ Render(q)
          \/ mouse \in Agents /\ Render(RingClick(mouse, q))
      BY <1>4 DEF Release
    <2> HIDE DEF q
    <2>3. mouse \in Agents => Plain(RingClick(mouse, q)) /\ RingClick(mouse, q).seen = page.seen
      BY <2>1, QuietHandlers
    <2> QED
      BY <1>0, <1>1, <1>4, <2>1, <2>2, <2>3 DEF Release, Stays
  <1>5. CASE Blur
    <2> DEFINE q == EndDrag(page)
    <2>1. Plain(q) /\ q.seen = page.seen
      BY <1>0, LoudHandlers
    <2>2. Render(CloseContextMenu(q))
      BY <1>5 DEF Blur
    <2> HIDE DEF q
    <2>3. Plain(CloseContextMenu(q)) /\ CloseContextMenu(q).seen = page.seen
      BY <2>1, QuietHandlers
    <2> QED
      BY <1>0, <1>1, <1>5, <2>2, <2>3 DEF Blur, Stays
  <1>6. CASE RightClick
    BY <1>0, <1>1, <1>6, QuietHandlers DEF RightClick, Stays
  <1>7. CASE PressKey
    <2>1. \/ Render(Escape(page))
          \/ mouse \in Agents /\ Render(RingClick(mouse, page))
      BY <1>7 DEF PressKey
    <2> QED
      BY <1>0, <1>1, <1>7, <2>1, QuietHandlers, LoudHandlers DEF PressKey, Stays
  <1>8. CASE ClickTab
    BY <1>0, <1>1, <1>8, LoudHandlers DEF ClickTab, Stays
  <1>9. CASE ClickMenu
    <2>1. \/ Render(CollapseToEdgeTab(page)) \/ Render(ResetFromMenu(page))
          \/ Render(PinFromMenu(page)) \/ Render(Close(page))
      BY <1>9 DEF ClickMenu
    <2> QED
      BY <1>0, <1>1, <1>9, <2>1, HidingHandlers, LoudHandlers DEF ClickMenu, Stays, UserActs, Orderly
  <1>10. CASE ClickCard
    <2>1. Render(PinFromCard(page)) \/ Render(Forget(page))
      BY <1>10 DEF ClickCard
    <2> QED
      BY <1>0, <1>1, <1>10, <2>1, QuietHandlers DEF ClickCard, Stays
  <1>11. CASE TimerStep
    <2>1. PICK r : /\ r \in PageRecs /\ r.sent = page.sent /\ r.held = page.held
                   /\ r.shown = page.shown /\ r.seen = page.seen /\ Render(r)
      <3> DEFINE h == [page EXCEPT !.hovered = page.hover, !.hover = NoAgent]
                 l == [page EXCEPT !.leave = "off", !.hovered = IF page.leave = "clears" THEN NoAgent ELSE @]
                 c == [page EXCEPT !.close = "none", !.mounted = NoAgent]
      <3>1. h \in PageRecs /\ h.sent = page.sent /\ h.held = page.held /\ h.shown = page.shown /\ h.seen = page.seen
        BY <1>0 DEF PageRecs, Someone
      <3>2. l \in PageRecs /\ l.sent = page.sent /\ l.held = page.held /\ l.shown = page.shown /\ l.seen = page.seen
        BY <1>0 DEF PageRecs, Someone
      <3>3. c \in PageRecs /\ c.sent = page.sent /\ c.held = page.held /\ c.shown = page.shown /\ c.seen = page.seen
        BY <1>0 DEF PageRecs, Someone
      <3>4. Render(h) \/ Render(l) \/ Render(c)
        BY <1>11 DEF TimerStep, HoverTimer, LeaveTimer, CloseTimer
      <3> HIDE DEF h, l, c
      <3> QED
        BY <3>1, <3>2, <3>3, <3>4
    <2>2. Plain(r)
      BY <1>0, <2>1 DEF Plain, HeldSaid, Calm
    <2> QED
      BY <1>0, <1>1, <1>11, <2>1, <2>2 DEF TimerStep, HoverTimer, LeaveTimer, CloseTimer, Stays
  <1> QED
    BY <1>2, <1>3, <1>4, <1>5, <1>6, <1>7, <1>8, <1>9, <1>10, <1>11 DEF UserStep

\* The card that is drawn is of the agent that is aimed at; it stays away where
\* it was taken away.
LEMMA Drawn ==
  ASSUME PageTypes, CardFollowsTarget, NEW p, Kept(p)
  PROVE  /\ Animated(page, p) \in PageRecs
         /\ Animated(page, p).sent = p.sent /\ Animated(page, p).held = p.held
         /\ Animated(page, p).seen = p.seen /\ Animated(page, p).menu = p.menu
         /\ Target(Animated(page, p)) = Target(p)
         /\ ~Tab(p) /\ Target(p) # NoAgent
              => Animated(page, p).mounted = Target(p) /\ Animated(page, p).shown
         /\ Target(p) = NoAgent /\ p.mounted = NoAgent => Animated(page, p).mounted = NoAgent
  <1>0. p \in PageRecs /\ page \in PageRecs
    BY DEF Kept, PageTypes
  <1> DEFINE a == Animated(page, p)
  <1>1. CASE <<Target(p), p.mounted, Tab(p)>> = <<Target(page), page.mounted, Tab(page)>>
    <2>1. a = p /\ Target(p) = Target(page) /\ p.mounted = page.mounted /\ Tab(p) = Tab(page)
      BY <1>1 DEF Animated
    <2>2. ~Tab(p) /\ Target(p) # NoAgent => p.mounted = Target(p) /\ p.shown
      BY <2>1 DEF CardFollowsTarget, Kept
    <2> QED
      BY <1>0, <2>1, <2>2
  <1>2. CASE ~(<<Target(p), p.mounted, Tab(p)>> = <<Target(page), page.mounted, Tab(page)>>)
    <2>1. Target(p) \in Someone /\ NoAgent \in Someone
      BY <1>0 DEF Target, PageRecs, Someone
    <2>2. CASE Tab(p)
      <3> DEFINE r == [p EXCEPT !.mounted = NoAgent, !.shown = FALSE]
      <3>1. /\ r \in PageRecs /\ r.sent = p.sent /\ r.held = p.held /\ r.seen = p.seen /\ r.menu = p.menu
            /\ r.pinned = p.pinned /\ r.hovered = p.hovered /\ r.mounted = NoAgent
        BY <1>0, <2>1 DEF PageRecs
      <3>2. a = p \/ a = r
        BY <1>2, <2>2 DEF Animated
      <3> HIDE DEF a, r
      <3>3. Target(r) = Target(p)
        BY <3>1 DEF Target
      <3> QED
        BY <1>0, <2>2, <3>1, <3>2, <3>3 DEF a
    <2>3. CASE ~Tab(p) /\ Target(p) # NoAgent
      <3> DEFINE t == Target(p)
                 r == [p EXCEPT !.mounted = t, !.shown = TRUE, !.close = "none"]
      <3>1. t \in Someone
        BY <2>1
      <3>2. a = r
        BY <1>2, <2>3 DEF Animated
      <3> HIDE DEF t
      <3>3. /\ r \in PageRecs /\ r.sent = p.sent /\ r.held = p.held /\ r.seen = p.seen /\ r.menu = p.menu
            /\ r.pinned = p.pinned /\ r.hovered = p.hovered /\ r.mounted = t /\ r.shown = TRUE
        BY <1>0, <3>1 DEF PageRecs
      <3> HIDE DEF r, a
      <3>4. Target(r) = Target(p)
        BY <3>3 DEF Target
      <3> QED
        BY <2>3, <3>2, <3>3, <3>4 DEF a, t
    <2>4. CASE ~Tab(p) /\ Target(p) = NoAgent
      <3> DEFINE r == [p EXCEPT !.shown = FALSE, !.close = "armed"]
      <3>1. /\ r \in PageRecs /\ r.sent = p.sent /\ r.held = p.held /\ r.seen = p.seen /\ r.menu = p.menu
            /\ r.pinned = p.pinned /\ r.hovered = p.hovered /\ r.mounted = p.mounted
        BY <1>0 DEF PageRecs
      <3>2. a = p \/ a = r
        BY <1>2, <2>4 DEF Animated
      <3> HIDE DEF a, r
      <3>3. Target(r) = Target(p)
        BY <3>1 DEF Target
      <3> QED
        BY <1>0, <2>4, <3>1, <3>2, <3>3 DEF a
    <2> QED
      BY <2>2, <2>3, <2>4
  <1> QED
    BY <1>1, <1>2

\* The size was asked for, or is that which was needed before.
RoomSaid(s) ==
  \/ LastIs(s, {"expand"}, Command("expand", WantsRoom(page')))
  \/ /\ NoneOf(s, {"expand"}) /\ WantsRoom(page') = WantsRoom(page)
     /\ Tab(page') = Tab(page) /\ page'.seen.expanded = page.seen.expanded
\* A new state of the button was said, or it is the one before.
ButtonSaid(s) ==
  \/ NoneOf(s, {"start", "end"}) /\ page'.held = page.held
  \/ LastIs(s, {"start", "end"}, Command(IF page'.held THEN "start" ELSE "end", TRUE))

\* The end of a drag is said once, when there is one; a drag is begun, and the
\* edge-tab is gone to, when all is heard.
OrderSaid(s) ==
  \/ /\ NoTab(s) /\ EndLast(s) /\ (page'.held => page.held /\ NoneOf(s, {"end"}))
     /\ ~page.held => NoneOf(s, {"start", "end"})
  \/ /\ UserActs
     /\ \/ ~Tab(page) /\ NoTab(s) /\ NoneOf(s, {"end"})
        \/ ~page'.held /\ NoneOf(s, {"start", "end"})

\* After an event the page shows the card, and says what size and what of the button.
LEMMA Rendered ==
  ASSUME PageTypes, CardFollowsTarget, NEW p, Kept(p), Render(p)
  PROVE  /\ page' \in PageRecs /\ page'.sent = <<>> /\ page'.seen = p.seen /\ CardFollowsTarget'
         /\ \E s \in Seq(Commands) : /\ toMain' = toMain \o s /\ RoomSaid(s) /\ ButtonSaid(s)
                                     /\ Orderly(p) => OrderSaid(s)
  <1> DEFINE a == Animated(page, p)
             d == Synced(page, a)
  <1>0. page \in PageRecs
    BY DEF PageTypes
  <1>1. /\ a \in PageRecs /\ a.sent = p.sent /\ a.held = p.held /\ a.seen = p.seen /\ a.menu = p.menu
        /\ Target(a) = Target(p)
        /\ ~Tab(p) /\ Target(p) # NoAgent => a.mounted = Target(p) /\ a.shown
        /\ Target(p) = NoAgent /\ p.mounted = NoAgent => a.mounted = NoAgent
    BY Drawn
  <1>2. page' = [d EXCEPT !.sent = <<>>] /\ toMain' = toMain \o d.sent
    BY DEF Render
  <1> HIDE DEF a
  <1> DEFINE w == WantsRoom(a)
             m == Command("expand", w)
             n == Send(a, m)
  <1>3. w \in BOOLEAN
    BY <1>1 DEF WantsRoom, Tab, PageRecs
  <1>4. m \in Commands /\ m.c = "expand"
    BY <1>3 DEF Command, Commands
  <1> HIDE DEF m
  <1>5. /\ n \in PageRecs /\ n.sent = Append(a.sent, m) /\ n.seen = a.seen /\ n.held = a.held
        /\ n.shown = a.shown /\ n.menu = a.menu /\ n.mounted = a.mounted /\ Target(n) = Target(a)
    BY <1>1, <1>4, Sends
  <1>6. \/ d = n
        \/ /\ d = a /\ a.mounted = page.mounted /\ a.menu = page.menu
           /\ Tab(a) = Tab(page) /\ a.seen.expanded = page.seen.expanded
    BY DEF Synced, m
  <1> HIDE DEF n
  <1>7. /\ d \in PageRecs /\ d.seen = a.seen /\ d.held = a.held /\ d.shown = a.shown
        /\ d.menu = a.menu /\ d.mounted = a.mounted /\ Target(d) = Target(a)
    BY <1>1, <1>5, <1>6
  <1> HIDE DEF d
  <1>8. /\ page' \in PageRecs /\ page'.sent = <<>> /\ page'.seen = a.seen /\ page'.held = a.held
        /\ page'.shown = a.shown /\ page'.menu = a.menu /\ page'.mounted = a.mounted
        /\ page'.pinned = d.pinned /\ page'.hovered = d.hovered
    <2> DEFINE r == [d EXCEPT !.sent = <<>>]
    <2>1. <<>> \in Seq(Commands)
      OBVIOUS
    <2>2. r \in PageRecs /\ r.sent = <<>>
      BY <1>7, <2>1 DEF PageRecs
    <2>3. /\ r.seen = d.seen /\ r.held = d.held /\ r.shown = d.shown /\ r.menu = d.menu
          /\ r.mounted = d.mounted /\ r.pinned = d.pinned /\ r.hovered = d.hovered
      BY <1>7 DEF PageRecs
    <2>4. page' = r
      BY <1>2
    <2> HIDE DEF r
    <2> QED
      BY <1>7, <2>2, <2>3, <2>4
  <1>9. Target(page') = Target(a) /\ Tab(page') = Tab(a) /\ WantsRoom(page') = w
    <2>1. Target(page') = Target(d)
      BY <1>8 DEF Target
    <2>2. Tab(page') = Tab(a)
      BY <1>8 DEF Tab
    <2>3. WantsRoom(page') = w
      BY <1>8, <2>2 DEF WantsRoom
    <2> QED
      BY <1>7, <2>1, <2>2, <2>3
  <1>10. Tab(a) = Tab(p)
    BY <1>1 DEF Tab
  <1>11. CardFollowsTarget'
    BY <1>1, <1>8, <1>9, <1>10 DEF CardFollowsTarget
  <1>12. a.sent \in Seq(Commands) /\ d.sent \in Seq(Commands)
    BY <1>1, <1>7 DEF PageRecs
  <1>13. RoomSaid(d.sent)
    <2>1. CASE d = n
      <3>1. LastIs(d.sent, {"expand"}, m)
        BY <1>4, <1>5, <1>12, <2>1, SentOne
      <3> QED
        BY <1>9, <3>1 DEF RoomSaid, m
    <2>2. CASE /\ d = a /\ a.mounted = page.mounted /\ a.menu = page.menu
               /\ Tab(a) = Tab(page) /\ a.seen.expanded = page.seen.expanded
      <3>1. WantsRoom(page) = w
        BY <2>2 DEF WantsRoom
      <3>2. CASE NoneOf(p.sent, {"expand"})
        BY <1>1, <1>8, <1>9, <2>2, <3>1, <3>2 DEF RoomSaid
      <3>3. CASE /\ LastIs(p.sent, {"expand"}, Command("expand", FALSE))
                 /\ Target(p) = NoAgent /\ p.mounted = NoAgent /\ p.menu = FALSE
        <4>1. w = FALSE
          BY <1>1, <3>3 DEF WantsRoom
        <4> QED
          BY <1>1, <1>9, <2>2, <3>3, <4>1 DEF RoomSaid
      <3> QED
        BY <3>2, <3>3 DEF Kept
    <2> QED
      BY <1>6, <2>1, <2>2
  <1>14. ButtonSaid(d.sent)
    <2>1. HeldSaid(p) /\ a.sent = p.sent /\ a.held = p.held
      BY <1>1 DEF Kept
    <2>2. CASE NoneOf(p.sent, {"start", "end"}) /\ p.held = page.held
      <3>1. NoneOf(d.sent, {"start", "end"})
        BY <1>4, <1>5, <1>6, <1>12, <2>1, <2>2, SentOne
      <3> QED
        BY <1>8, <2>1, <2>2, <3>1 DEF ButtonSaid
    <2>3. CASE LastIs(p.sent, {"start", "end"}, Command(IF p.held THEN "start" ELSE "end", TRUE))
      <3>1. LastIs(d.sent, {"start", "end"}, Command(IF p.held THEN "start" ELSE "end", TRUE))
        BY <1>4, <1>5, <1>6, <1>12, <2>1, <2>3, SentOne
      <3> QED
        BY <1>8, <2>1, <3>1 DEF ButtonSaid
    <2> QED
      BY <2>1, <2>2, <2>3 DEF HeldSaid
  <1>15. Orderly(p) => OrderSaid(d.sent)
    <2>1. a.sent \in Seq(Commands) /\ m # Command("mode", "edge-tab")
      BY <1>1, <1>4 DEF PageRecs, Command
    <2>2. /\ NoTab(p.sent) => NoTab(d.sent)
          /\ EndLast(p.sent) => EndLast(d.sent)
          /\ NoneOf(p.sent, {"start", "end"}) => NoneOf(d.sent, {"start", "end"})
          /\ NoneOf(p.sent, {"end"}) => NoneOf(d.sent, {"end"})
      BY <1>1, <1>4, <1>5, <1>6, <2>1, SentOne
    <2>3. page'.held = p.held
      BY <1>1, <1>8
    <2> QED
      BY <2>2, <2>3 DEF Orderly, Calm, OrderSaid
  <1> QED
    BY <1>1, <1>2, <1>8, <1>11, <1>12, <1>13, <1>14, <1>15

-----------------------------------------------------------------------------
(***************************************************************************)
(* The invariant                                                           *)
(***************************************************************************)
\* What the page has heard, or will, is what the window is.
SeenIsState == LastSaid(page.seen, toBar) = BarState
\* A state on its way will have the page ask for the size it needs.
Form(s) == <<s.mode = "edge-tab", s.expanded>>
Differs == \E i \in DOMAIN toBar : Form(toBar[i]) # Form(page.seen)
\* The size that is needed will be asked for, is asked for, or is that of the window.
Room ==
  \/ Differs
  \/ LastIs(toMain, {"expand"}, Command("expand", WantsRoom(page)))
  \/ /\ NoneOf(toMain, {"expand"})
     /\ currentDisplayMode = "edge-tab" \/ isExpanded = WantsRoom(page)
\* The window follows the cursor, or the last that was said has it do so, when
\* the button is held, and only then.
Button ==
  \/ NoneOf(toMain, {"start", "end"}) /\ grab.on = page.held
  \/ LastIs(toMain, {"start", "end"}, Command(IF page.held THEN "start" ELSE "end", TRUE))
BarInv ==
  /\ BarTypes /\ PageTypes /\ SwitchHears /\ CardFollowsTarget
  /\ part = "bar" => SeenIsState /\ Room /\ Button

\* A step of the main process tells the page of a form that is not the one it has.
LEMMA MainTells ==
  ASSUME BarTypes, PageTypes, SeenIsState, Done, page' = page
  PROVE  /\ SeenIsState' /\ (Differs => Differs')
         /\ \/ Differs'
            \/ /\ (currentDisplayMode' = "edge-tab") <=> (currentDisplayMode = "edge-tab")
               /\ isExpanded' = isExpanded
  <1>0. toBar \in Seq(States) /\ page \in PageRecs /\ isExpanded \in BOOLEAN /\ isExpanded' \in BOOLEAN
    BY DEF BarTypes, BoundsTypes, TalkTypes, PageTypes, Done
  <1>1. CASE BarState' = BarState /\ toBar' = toBar
    BY <1>1 DEF SeenIsState, LastSaid, Differs, BarState
  <1>2. CASE toBar' = Say(toBar, BarState')
    <2>1. BarState' \in States
      BY DEF Done, BoundsTypes, BarState, States
    <2>b. PICK b \in States : BarState' = b
      BY <2>1
    <2>c. PICK q : toBar' = q /\ q = Say(toBar, b)
      BY <1>2, <2>b
    <2>d. /\ q \in Seq(States) /\ q # <<>> /\ \A o : LastSaid(o, q) = b
          /\ \A i \in DOMAIN toBar : i \in DOMAIN q /\ q[i] = toBar[i]
      <3>1. Say(toBar, b) \in Seq(States) /\ Say(toBar, b) # <<>>
        BY <1>0, Said
      <3>2. \A o : LastSaid(o, Say(toBar, b)) = b
        BY <1>0, Said
      <3>3. \A i \in DOMAIN toBar : i \in DOMAIN Say(toBar, b) /\ Say(toBar, b)[i] = toBar[i]
        BY <1>0, Said
      <3> QED
        BY <2>c, <3>1, <3>2, <3>3
    <2>2. /\ toBar' \in Seq(States) /\ toBar' # <<>> /\ \A o : LastSaid(o, toBar') = b
          /\ \A i \in DOMAIN toBar : i \in DOMAIN toBar' /\ toBar'[i] = toBar[i]
      BY <2>c, <2>d
    <2>3. Differs => Differs'
      BY <2>2 DEF Differs
    <2>4. SeenIsState'
      BY <2>b, <2>2 DEF SeenIsState
    <2>5. Len(toBar') \in DOMAIN toBar' /\ toBar'[Len(toBar')] = b
      BY <2>2 DEF LastSaid
    <2>6. CASE Form(page.seen) # Form(b)
      <3>1. \E i \in DOMAIN toBar' : Form(toBar'[i]) # Form(page'.seen)
        BY <2>5, <2>6
      <3> QED
        BY <2>3, <2>4, <3>1 DEF Differs
    <2>7. CASE Form(page.seen) = Form(b) /\ Form(b) = Form(BarState)
      <3>1. Form(BarState') = Form(BarState)
        BY <2>b, <2>7
      <3> QED
        BY <1>0, <2>3, <2>4, <3>1 DEF Form, BarState
    <2>8. CASE Form(page.seen) = Form(b) /\ Form(b) # Form(BarState)
      <3>1. toBar # <<>>
        BY <2>8 DEF SeenIsState, LastSaid
      <3>2. Len(toBar) \in DOMAIN toBar /\ toBar[Len(toBar)] = BarState
        BY <1>0, <3>1 DEF SeenIsState, LastSaid
      <3>3. Len(toBar) \in DOMAIN toBar' /\ toBar'[Len(toBar)] = BarState
        BY <2>2, <3>2
      <3>4. Form(toBar'[Len(toBar)]) # Form(page'.seen)
        BY <2>8, <3>3
      <3>5. \E i \in DOMAIN toBar' : Form(toBar'[i]) # Form(page'.seen)
        BY <3>3, <3>4
      <3> QED
        BY <2>3, <2>4, <3>5 DEF Differs
    <2> QED
      BY <2>3, <2>4, <2>6, <2>7, <2>8
  <1> QED
    BY <1>1, <1>2 DEF Done, Pushed

\* The main process takes up a command of the page.
LEMMA ReceiveKeeps ==
  ASSUME BarTypes, PageTypes, SeenIsState, Room, Button, Receive, page' = page
  PROVE  SeenIsState' /\ Room' /\ Button'
  <1> DEFINE m == Head(toMain)
             w == Command("expand", WantsRoom(page))
             h == Command(IF page.held THEN "start" ELSE "end", TRUE)
  <1>1. toMain \in Seq(Commands) /\ toMain # <<>> /\ toMain' = Tail(toMain) /\ Do(m)
    BY DEF Receive, BarTypes, TalkTypes
  <1>2. m \in Commands
    BY <1>1, Heads
  <1>3. /\ Done
        /\ m.c = "expand" => m.v \in BOOLEAN /\ SetWindowExpanded(m.v)
        /\ m.c = "start" => grab'.on = TRUE
        /\ m.c = "end" => grab'.on = FALSE
        /\ m.c \notin {"start", "end"} => grab' = grab
    BY <1>1, <1>2, CommandDone
  <1>4. /\ SeenIsState' /\ (Differs => Differs')
        /\ \/ Differs'
           \/ /\ (currentDisplayMode' = "edge-tab") <=> (currentDisplayMode = "edge-tab")
              /\ isExpanded' = isExpanded
    BY <1>3, MainTells
  <1>5. WantsRoom(page)' = WantsRoom(page)
    BY DEF WantsRoom, Tab
  <1>6. Room'
    <2>1. CASE Differs
      BY <1>4, <2>1 DEF Room
    <2>2. CASE LastIs(toMain, {"expand"}, w)
      <3>1. LastIs(toMain', {"expand"}, w) \/ (m = w /\ NoneOf(toMain', {"expand"}))
        BY <1>1, <2>2, TakenUp
      <3>2. CASE LastIs(toMain', {"expand"}, w)
        BY <1>5, <3>2 DEF Room
      <3>3. CASE m = w /\ NoneOf(toMain', {"expand"})
        <4>1. m.c = "expand" /\ m.v = WantsRoom(page)
          BY <3>3 DEF Command
        <4>2. SetWindowExpanded(WantsRoom(page)) /\ WantsRoom(page) \in BOOLEAN
          BY <1>3, <4>1
        <4>3. currentDisplayMode' = "edge-tab" \/ isExpanded' = WantsRoom(page)
          BY <4>2 DEF SetWindowExpanded
        <4> QED
          BY <1>5, <3>3, <4>3 DEF Room
      <3> QED
        BY <3>1, <3>2, <3>3
    <2>3. CASE /\ NoneOf(toMain, {"expand"})
               /\ currentDisplayMode = "edge-tab" \/ isExpanded = WantsRoom(page)
      <3>1. NoneOf(toMain', {"expand"})
        BY <1>1, <2>3, TakenUp
      <3>2. Differs' \/ currentDisplayMode' = "edge-tab" \/ isExpanded' = WantsRoom(page)
        BY <1>4, <2>3
      <3> QED
        BY <1>5, <3>1, <3>2 DEF Room
    <2> QED
      BY <2>1, <2>2, <2>3 DEF Room
  <1>7. Button'
    <2>1. CASE NoneOf(toMain, {"start", "end"}) /\ grab.on = page.held
      <3>1. NoneOf(toMain', {"start", "end"}) /\ m.c \notin {"start", "end"}
        BY <1>1, <2>1, TakenUp
      <3> QED
        BY <1>3, <2>1, <3>1 DEF Button
    <2>2. CASE LastIs(toMain, {"start", "end"}, h)
      <3>1. LastIs(toMain', {"start", "end"}, h) \/ (m = h /\ NoneOf(toMain', {"start", "end"}))
        BY <1>1, <2>2, TakenUp
      <3>2. CASE LastIs(toMain', {"start", "end"}, h)
        BY <3>2 DEF Button
      <3>3. CASE m = h /\ NoneOf(toMain', {"start", "end"})
        <4>1. m.c = IF page.held THEN "start" ELSE "end"
          BY <3>3 DEF Command
        <4>2. page.held \in BOOLEAN
          BY DEF PageTypes, PageRecs
        <4>3. grab'.on = page.held
          BY <1>3, <4>1, <4>2
        <4> QED
          BY <3>3, <4>3 DEF Button
      <3> QED
        BY <3>1, <3>2, <3>3
    <2> QED
      BY <2>1, <2>2 DEF Button
  <1> QED
    BY <1>4, <1>6, <1>7

\* What is done elsewhere, when all is heard.
LEMMA ElsewhereKeeps ==
  ASSUME BarTypes, PageTypes, SeenIsState, Room, Button, Elsewhere, page' = page
  PROVE  SeenIsState' /\ Room' /\ Button'
  <1>1. Done /\ grab' = grab /\ toMain' = toMain
    BY ElsewhereDone
  <1>2. /\ SeenIsState' /\ (Differs => Differs')
        /\ \/ Differs'
           \/ /\ (currentDisplayMode' = "edge-tab") <=> (currentDisplayMode = "edge-tab")
              /\ isExpanded' = isExpanded
    BY <1>1, MainTells
  <1>3. WantsRoom(page)' = WantsRoom(page)
    BY DEF WantsRoom, Tab
  <1> QED
    BY <1>1, <1>2, <1>3 DEF Room, Button

\* An event of the page, or a state it hears.
LEMMA PageKeeps ==
  ASSUME BarTypes, PageTypes, CardFollowsTarget, SeenIsState, Room, Button, PageStep
  PROVE  PageTypes' /\ CardFollowsTarget' /\ toMain' \in Seq(Commands) /\ toBar' \in Seq(States)
         /\ SeenIsState' /\ Room' /\ Button'
  <1>0. /\ toMain \in Seq(Commands) /\ toBar \in Seq(States) /\ page \in PageRecs /\ mouse \in Mice
    BY DEF BarTypes, TalkTypes, PageTypes
  <1>1. UNCHANGED <<placeVars, visible, grab, preferences, toApp, worldVars>> /\ BarState' = BarState
    BY DEF PageStep, pageFrame, placeVars, BarState
  <1>2. \E p : /\ Kept(p) /\ Render(p) /\ mouse' \in Mice
               /\ \/ p.seen = page.seen /\ toBar' = toBar
                  \/ p.seen = Head(toBar) /\ toBar # <<>> /\ toBar' = Tail(toBar)
    <2>1. CASE (UserStep \/ TimerStep) /\ UNCHANGED toBar
      BY <2>1, Handled
    <2>2. CASE HearState
      <3> DEFINE r == [page EXCEPT !.seen = Head(toBar)]
      <3>1. toBar # <<>> /\ toBar' = Tail(toBar) /\ mouse' = mouse /\ Render(r)
        BY <2>2 DEF HearState, Stays
      <3>2. Head(toBar) \in States
        BY <1>0, <3>1, Heads
      <3>3. /\ r \in PageRecs /\ r.sent = page.sent /\ r.held = page.held /\ r.shown = page.shown
            /\ r.seen = Head(toBar)
        BY <1>0, <3>2 DEF PageRecs
      <3> HIDE DEF r
      <3>4. Plain(page)
        BY HidingHandlers
      <3>5. Kept(r)
        BY <3>3, <3>4 DEF Plain, Kept, HeldSaid
      <3> QED
        BY <1>0, <3>1, <3>3, <3>5
    <2> QED
      BY <2>1, <2>2 DEF PageStep
  <1>3. PICK p : /\ Kept(p) /\ Render(p) /\ mouse' \in Mice
                 /\ \/ p.seen = page.seen /\ toBar' = toBar
                    \/ p.seen = Head(toBar) /\ toBar # <<>> /\ toBar' = Tail(toBar)
    BY <1>2
  <1>4. /\ page' \in PageRecs /\ page'.sent = <<>> /\ page'.seen = p.seen /\ CardFollowsTarget'
        /\ \E s \in Seq(Commands) : toMain' = toMain \o s /\ RoomSaid(s) /\ ButtonSaid(s)
    BY <1>3, Rendered
  <1>5. PICK s \in Seq(Commands) : toMain' = toMain \o s /\ RoomSaid(s) /\ ButtonSaid(s)
    BY <1>4
  <1>6. PageTypes'
    BY <1>3, <1>4 DEF PageTypes
  <1>7. toBar' \in Seq(States) /\ SeenIsState'
    <2>1. CASE p.seen = page.seen /\ toBar' = toBar
      BY <1>0, <1>1, <1>4, <2>1 DEF SeenIsState
    <2>2. CASE p.seen = Head(toBar) /\ toBar # <<>> /\ toBar' = Tail(toBar)
      <3>1. Tail(toBar) \in Seq(States) /\ LastSaid(Head(toBar), Tail(toBar)) = LastSaid(page.seen, toBar)
        BY <1>0, <2>2, Heads
      <3> QED
        BY <1>1, <1>4, <2>2, <3>1 DEF SeenIsState
    <2> QED
      BY <1>3, <2>1, <2>2
  <1>8. toMain' \in Seq(Commands)
    BY <1>0, <1>5, SentBehind
  <1>9. Room'
    <2>1. CASE LastIs(s, {"expand"}, Command("expand", WantsRoom(page')))
      <3>1. LastIs(toMain', {"expand"}, Command("expand", WantsRoom(page')))
        BY <1>0, <1>5, <2>1, SentBehind
      <3> QED
        BY <3>1 DEF Room
    <2>2. CASE /\ NoneOf(s, {"expand"}) /\ WantsRoom(page') = WantsRoom(page)
               /\ Tab(page') = Tab(page) /\ page'.seen.expanded = page.seen.expanded
      <3>1. Form(page'.seen) = Form(page.seen)
        BY <2>2 DEF Form, Tab
      <3>2. CASE Differs
        <4>1. PICK i \in DOMAIN toBar : Form(toBar[i]) # Form(page.seen)
          BY <3>2 DEF Differs
        <4>2. CASE p.seen = page.seen /\ toBar' = toBar
          BY <3>1, <4>1, <4>2 DEF Room, Differs
        <4>3. CASE p.seen = Head(toBar) /\ toBar # <<>> /\ toBar' = Tail(toBar)
          <5>1. toBar[1] = Head(toBar)
                /\ \A j \in DOMAIN toBar : j = 1 \/ (j - 1 \in DOMAIN Tail(toBar) /\ Tail(toBar)[j - 1] = toBar[j])
            BY <1>0, <4>3, Heads
          <5>2. i # 1
            BY <1>4, <3>1, <4>1, <4>3, <5>1
          <5>3. i - 1 \in DOMAIN toBar' /\ Form(toBar'[i - 1]) # Form(page'.seen)
            BY <3>1, <4>1, <4>3, <5>1, <5>2
          <5>4. Differs'
            BY <5>3 DEF Differs
          <5> QED
            BY <5>4 DEF Room
        <4> QED
          BY <1>3, <4>2, <4>3
      <3>3. CASE LastIs(toMain, {"expand"}, Command("expand", WantsRoom(page)))
        <4>1. LastIs(toMain', {"expand"}, Command("expand", WantsRoom(page)))
          BY <1>0, <1>5, <2>2, <3>3, SentBehind
        <4> QED
          BY <2>2, <4>1 DEF Room
      <3>4. CASE /\ NoneOf(toMain, {"expand"})
                 /\ currentDisplayMode = "edge-tab" \/ isExpanded = WantsRoom(page)
        <4>1. NoneOf(toMain', {"expand"})
          BY <1>0, <1>5, <2>2, <3>4, SentBehind
        <4> QED
          BY <1>1, <2>2, <3>4, <4>1 DEF Room, placeVars
      <3> QED
        BY <3>2, <3>3, <3>4 DEF Room
    <2> QED
      BY <1>5, <2>1, <2>2 DEF RoomSaid
  <1>10. Button'
    <2>1. CASE LastIs(s, {"start", "end"}, Command(IF page'.held THEN "start" ELSE "end", TRUE))
      <3>1. LastIs(toMain', {"start", "end"}, Command(IF page'.held THEN "start" ELSE "end", TRUE))
        BY <1>0, <1>5, <2>1, SentBehind
      <3> QED
        BY <3>1 DEF Button
    <2>2. CASE NoneOf(s, {"start", "end"}) /\ page'.held = page.held
      <3>1. CASE NoneOf(toMain, {"start", "end"}) /\ grab.on = page.held
        <4>1. NoneOf(toMain', {"start", "end"})
          BY <1>0, <1>5, <2>2, <3>1, SentBehind
        <4> QED
          BY <1>1, <2>2, <3>1, <4>1 DEF Button
      <3>2. CASE LastIs(toMain, {"start", "end"}, Command(IF page.held THEN "start" ELSE "end", TRUE))
        <4>1. LastIs(toMain', {"start", "end"}, Command(IF page.held THEN "start" ELSE "end", TRUE))
          BY <1>0, <1>5, <2>2, <3>2, SentBehind
        <4> QED
          BY <2>2, <4>1 DEF Button
      <3> QED
        BY <3>1, <3>2 DEF Button
    <2> QED
      BY <1>5, <2>1, <2>2 DEF ButtonSaid
  <1> QED
    BY <1>4, <1>6, <1>7, <1>8, <1>9, <1>10

\* The first states.
LEMMA BarInitially ==
  ASSUME PagesInit
  PROVE  BarInv
  <1>1. WindowInit /\ PageInit
    BY DEF PagesInit, MinibarInit
  <1>2. CursorTypes
    <2>1. cursor \in Points /\ Within(Primary, cursor) /\ displays = Displays
      BY <1>1, CursorAssumption DEF WindowInit
    <2> QED
      BY <2>1, MinibarAssumption DEF CursorTypes
  <1>3. SavedAtFirst \in [x : Int, y : Int, dock : Docks, mode : Modes]
    <2>1. Primary \in Rects
      BY MinibarAssumption DEF Rects
    <2> QED
      BY <2>1 DEF SavedAtFirst, Right, Rects, Docks, Modes
  <1>4. BoundsTypes
    <2>1. StartupPosition("remember", SavedAtFirst) \in Rects
      BY <1>2, <1>3, Started
    <2> QED
      BY <1>1, <1>3, <2>1 DEF WindowInit, BoundsTypes, Docks, Modes
  <1>5. BarState \in States /\ visible \in BOOLEAN /\ preferences \in [visible : BOOLEAN, dock : {"remember"}]
    BY <1>1 DEF WindowInit, BarState, States, Docks, Modes
  <1>6. TalkTypes
    <2>1. toMain = <<>> /\ toBar = <<BarState>> /\ toApp = <<visible>> /\ switch = FALSE /\ grab = NotDragged
      BY <1>1 DEF WindowInit
    <2>2. toMain \in Seq(Commands) /\ toBar \in Seq(States) /\ toApp \in Seq(BOOLEAN)
      BY <1>5, <2>1
    <2>3. grab \in [dx : Int, dy : Int, on : BOOLEAN]
      BY <2>1 DEF NotDragged
    <2>4. preferences \in [visible : BOOLEAN, dock : {"remember", "left", "right"}]
      BY <1>5
    <2>5. switch \in BOOLEAN
      BY <2>1
    <2> QED
      BY <1>5, <2>2, <2>3, <2>4, <2>5 DEF TalkTypes
  <1>7. PageTypes
    <2>1. FreshPage.seen \in States
      BY DEF FreshPage, States, Docks, Modes
    <2>2. <<>> \in Seq(Commands)
      OBVIOUS
    <2> QED
      BY <1>1, <2>1, <2>2 DEF PageInit, PageTypes, PageRecs, FreshPage, Mice, Someone
  <1>8. SwitchHears
    BY <1>1 DEF WindowInit, SwitchHears, LastSaid
  <1>9. CardFollowsTarget
    BY <1>1 DEF PageInit, FreshPage, CardFollowsTarget, Target
  <1>10. SeenIsState
    BY <1>1 DEF WindowInit, SeenIsState, LastSaid
  <1>11. Room /\ Button
    <2>1. toMain = <<>> /\ isExpanded = FALSE /\ page = FreshPage /\ grab.on = FALSE
      BY <1>1 DEF WindowInit, PageInit, NotDragged
    <2>2. NoneOf(toMain, {"expand"}) /\ NoneOf(toMain, {"start", "end"})
      BY <2>1 DEF NoneOf
    <2>3. WantsRoom(page) = FALSE /\ page.held = FALSE
      BY <2>1 DEF FreshPage, WantsRoom
    <2> QED
      BY <2>1, <2>2, <2>3 DEF Room, Button
  <1> QED
    BY <1>2, <1>4, <1>6, <1>7, <1>8, <1>9, <1>10, <1>11 DEF BarInv, BarTypes

\* Every step.
LEMMA BarKept ==
  ASSUME BarInv, [PagesNext]_vars
  PROVE  BarInv'
  <1>0. BarTypes /\ PageTypes /\ SwitchHears /\ CardFollowsTarget
    BY DEF BarInv
  <1>1. ASSUME page' = page, mouse' = mouse
        PROVE  PageTypes' /\ CardFollowsTarget'
    BY <1>0, <1>1 DEF PageTypes, CardFollowsTarget, Tab, Target
  <1>2. CASE part = "bar" /\ BarNext /\ Only("bar")
    <2>1. SeenIsState /\ Room /\ Button
      BY <1>2 DEF BarInv
    <2>2. CASE PageStep
      <3>1. /\ PageTypes' /\ CardFollowsTarget' /\ toMain' \in Seq(Commands) /\ toBar' \in Seq(States)
            /\ SeenIsState' /\ Room' /\ Button'
        BY <1>0, <2>1, <2>2, PageKeeps
      <3>2. UNCHANGED <<placeVars, visible, grab, preferences, toApp, worldVars>>
        BY <2>2 DEF PageStep, pageFrame
      <3>3. BoundsTypes' /\ TalkTypes' /\ SwitchHears'
        BY <1>0, <3>1, <3>2
           DEF BarTypes, BoundsTypes, TalkTypes, SwitchHears, LastSaid, placeVars, worldVars
      <3>4. CursorTypes'
        BY <1>0, <3>2 DEF BarTypes, CursorTypes, Within, Right, Bottom, worldVars
      <3> QED
        BY <3>1, <3>3, <3>4 DEF BarInv, BarTypes
    <2>3. CASE BarMain /\ UNCHANGED pageVars
      <3>1. page' = page /\ mouse' = mouse /\ (Receive \/ Elsewhere)
        BY <2>3 DEF BarMain, pageVars
      <3>2. BarTypes' /\ SwitchHears'
        BY <1>0, <3>1, WindowKeeps DEF WindowStep
      <3>3. SeenIsState' /\ Room' /\ Button'
        BY <1>0, <2>1, <3>1, ReceiveKeeps, ElsewhereKeeps
      <3> QED
        BY <1>1, <3>1, <3>2, <3>3 DEF BarInv
    <2>4. CASE HearSwitch
      <3>1. page' = page /\ mouse' = mouse /\ HearVisibility /\ worldUnchanged
        BY <2>4 DEF HearSwitch, HearVisibility, pageVars
      <3>2. BarTypes' /\ SwitchHears'
        BY <1>0, <3>1, WindowKeeps DEF WindowStep
      <3>3. SeenIsState' /\ Room' /\ Button'
        BY <2>1, <3>1 DEF SeenIsState, Room, Button, Differs, WantsRoom, Tab, BarState, LastSaid,
                          worldUnchanged, placeVars
      <3> QED
        BY <1>1, <3>1, <3>2, <3>3 DEF BarInv
    <2> QED
      BY <1>2, <2>2, <2>3, <2>4 DEF BarNext
  <1>3. CASE part = "window" /\ WindowNext /\ Only("window")
    <2>1. page' = page /\ mouse' = mouse /\ part' # "bar" /\ (AnyPage \/ WindowStep)
      BY <1>3 DEF WindowNext, pageVars, Only
    <2>2. BarTypes' /\ SwitchHears'
      BY <1>0, <2>1, WindowKeeps
    <2> QED
      BY <1>1, <2>1, <2>2 DEF BarInv
  <1>4. ASSUME UNCHANGED minibarVars, UNCHANGED part
        PROVE  BarInv'
    <2>1. UNCHANGED windowVars /\ page' = page /\ mouse' = mouse
      BY <1>4 DEF minibarVars, pageVars
    <2>2. BoundsTypes' /\ TalkTypes' /\ SwitchHears'
      BY <1>0, <2>1
         DEF BarTypes, BoundsTypes, TalkTypes, SwitchHears, LastSaid, windowVars
    <2>3. CursorTypes'
      BY <1>0, <2>1 DEF BarTypes, CursorTypes, Within, Right, Bottom, windowVars
    <2>4. part' = "bar" => SeenIsState' /\ Room' /\ Button'
      BY <1>4, <2>1 DEF BarInv, SeenIsState, Room, Button, Differs, WantsRoom, Tab, BarState, LastSaid,
                        windowVars
    <2> QED
      BY <1>1, <2>1, <2>2, <2>3, <2>4 DEF BarInv, BarTypes
  <1>5. CASE UNCHANGED vars
    BY <1>4, <1>5 DEF vars
  <1>6. CASE part = "config" /\ ConfigNext /\ Only("config")
    BY <1>4, <1>6 DEF Only
  <1>7. CASE part = "setup" /\ SetupNext /\ Only("setup")
    BY <1>4, <1>7 DEF Only
  <1> QED
    BY <1>2, <1>3, <1>5, <1>6, <1>7 DEF PagesNext

\* What the invariant is for.
LEMMA BarInvIsEnough == BarInv => PageAgrees
  <1> SUFFICES ASSUME BarInv
               PROVE  PageAgrees
    OBVIOUS
  <1>0. BarTypes /\ PageTypes /\ SwitchHears /\ CardFollowsTarget
    BY DEF BarInv
  <1>1. WindowTypeOK
    BY <1>0 DEF BarTypes, BoundsTypes, TalkTypes, WindowTypeOK, Rects, Modes
  <1>2. PageTypeOK
    BY <1>0 DEF PageTypes, PageTypeOK, PageRecs, Someone, Mice
  <1>3. SwitchIsTrue
    BY <1>0 DEF SwitchHears, SwitchIsTrue, LastSaid
  <1>4. ASSUME part = "bar"
        PROVE  WindowFitsContent /\ DragEndsWithButton
    <2>1. SeenIsState /\ Room /\ Button
      BY <1>4 DEF BarInv
    <2>2. ASSUME Heard
          PROVE  /\ currentDisplayMode = "edge-tab" \/ isExpanded = WantsRoom(page)
                 /\ grab.on = page.held
      <3>1. toMain = <<>> /\ toBar = <<>>
        BY <2>2 DEF Heard
      <3>2. ~Differs /\ \A K, m : ~LastIs(toMain, K, m)
        BY <3>1 DEF Differs, LastIs
      <3> QED
        BY <2>1, <3>2 DEF Room, Button
    <2> QED
      BY <2>2 DEF WindowFitsContent, DragEndsWithButton
  <1> QED
    BY <1>0, <1>1, <1>2, <1>3, <1>4 DEF PageAgrees

\* What the window and its page say of each other, once heard, is true.
THEOREM AgreementIsTrue == PagesSpec => []PageAgrees
  <1>1. PagesSpec => []BarInv
    BY BarInitially, BarKept, PTL DEF PagesSpec
  <1> QED
    BY <1>1, BarInvIsEnough, PTL

-----------------------------------------------------------------------------
(***************************************************************************)
(* Dragging                                                                *)
(***************************************************************************)
\* While the bar is dragged, or will be, it is a full one and stays it.
DragIsFull ==
  grab.on \/ page.held \/ ~NoneOf(toMain, {"start", "end"})
    => currentDisplayMode = "full" /\ NoTab(toMain)
\* A drag that ends has begun.
EndHasStart ==
  \A j \in DOMAIN toMain : toMain[j].c = "end" =>
    grab.on \/ \E i \in DOMAIN toMain : i < j /\ toMain[i].c = "start"
DragInv ==
  /\ DragIsFull /\ EndLast(toMain) /\ EndHasStart
  /\ page.held => NoneOf(toMain, {"end"}) /\ part = "bar"

\* A full bar stays full unless it is sent to the edge-tab.
LEMMA FullStays ==
  ASSUME NEW m \in Commands, Do(m), m # Command("mode", "edge-tab"), currentDisplayMode = "full"
  PROVE  currentDisplayMode' = "full"
  <1>1. CASE m.c = "expand"
    BY <1>1 DEF Do, SetWindowExpanded
  <1>2. CASE m.c = "mode"
    <2>1. m.v = "full"
      <3>1. m = [c |-> m.c, v |-> m.v] /\ m.v \in Modes
        BY <1>2 DEF Commands
      <3> QED
        BY <1>2, <3>1 DEF Command, Modes
    <2>2. SetDisplayMode("full")
      BY <1>2, <2>1 DEF Do
    <2> QED
      BY <2>2 DEF SetDisplayMode, placeVars
  <1>3. CASE m.c = "show"
    BY <1>3 DEF Do, SetVisible, Reveal, EnsureOnScreen, placeVars
  <1>4. CASE m.c = "start"
    BY <1>4 DEF Do, DragStart
  <1>5. CASE m.c = "end"
    <2>1. DragEnd
      BY <1>5 DEF Do
    <2> QED
      BY <2>1 DEF DragEnd
  <1>6. CASE m.c = "reset"
    BY <1>6 DEF Do, ResetMiniBarDock
  <1> QED
    BY <1>1, <1>2, <1>3, <1>4, <1>5, <1>6 DEF Commands

\* The main process takes up a command.
LEMMA ReceiveDrags ==
  ASSUME BarTypes, PageTypes, DragInv, Receive, page' = page, part' = part
  PROVE  DragInv'
  <1> DEFINE m == Head(toMain)
  <1>1. toMain \in Seq(Commands) /\ toMain # <<>> /\ toMain' = Tail(toMain) /\ Do(m)
    BY DEF Receive, BarTypes, TalkTypes
  <1>2. m \in Commands
    BY <1>1, Heads
  <1>3. /\ m.c = "start" => grab'.on = TRUE
        /\ m.c = "end" => grab'.on = FALSE
        /\ m.c \notin {"start", "end"} => grab' = grab
    BY <1>1, <1>2, CommandDone
  <1>4. /\ NoneOf(toMain, {"start", "end"}) <=> NoneOf(toMain', {"start", "end"}) /\ m.c \notin {"start", "end"}
        /\ NoTab(toMain) => NoTab(toMain') /\ m # Command("mode", "edge-tab")
        /\ EndLast(toMain) => EndLast(toMain') /\ (m.c = "end" => NoneOf(toMain', {"start", "end"}))
    BY <1>1, TakenUp
  <1>5. NoneOf(toMain, {"end"}) => NoneOf(toMain', {"end"})
    BY <1>1, TakenUp
  <1> HIDE DEF m
  <1>6. DragIsFull'
    <2>1. ASSUME grab'.on \/ page.held \/ ~NoneOf(toMain', {"start", "end"})
          PROVE  currentDisplayMode' = "full" /\ NoTab(toMain')
      <3>1. grab.on \/ page.held \/ ~NoneOf(toMain, {"start", "end"})
        BY <1>3, <1>4, <2>1
      <3>2. currentDisplayMode = "full" /\ NoTab(toMain)
        BY <3>1 DEF DragInv, DragIsFull
      <3> QED
        BY <1>1, <1>2, <1>4, <3>2, FullStays
    <2> QED
      BY <2>1 DEF DragIsFull
  <1>7. EndHasStart'
    <2>1. ASSUME NEW j \in DOMAIN toMain', toMain'[j].c = "end"
          PROVE  grab'.on \/ \E i \in DOMAIN toMain' : i < j /\ toMain'[i].c = "start"
      <3>0. /\ \A i \in DOMAIN Tail(toMain) : i + 1 \in DOMAIN toMain /\ Tail(toMain)[i] = toMain[i + 1]
                                              /\ i \in Nat /\ i + 1 > 1
            /\ \A i \in DOMAIN toMain : i = 1 \/ (i - 1 \in DOMAIN Tail(toMain)
                                                  /\ Tail(toMain)[i - 1] = toMain[i] /\ i \in Nat)
            /\ toMain[1] = Head(toMain)
        BY <1>1, Heads
      <3>1. m.c # "end"
        BY <1>4, <2>1 DEF DragInv, NoneOf
      <3>2. j + 1 \in DOMAIN toMain /\ toMain[j + 1].c = "end" /\ j \in Nat
        BY <1>1, <2>1, <3>0
      <3>3. grab.on \/ \E i \in DOMAIN toMain : i < j + 1 /\ toMain[i].c = "start"
        BY <3>2 DEF DragInv, EndHasStart
      <3>4. CASE grab.on
        BY <1>3, <3>1, <3>4
      <3>5. ASSUME NEW i \in DOMAIN toMain, i < j + 1, toMain[i].c = "start"
            PROVE  grab'.on \/ \E k \in DOMAIN toMain' : k < j /\ toMain'[k].c = "start"
        <4>1. CASE i = 1
          BY <1>3, <3>0, <3>5, <4>1 DEF m
        <4>2. CASE i # 1
          <5>1. i - 1 \in DOMAIN toMain' /\ toMain'[i - 1].c = "start" /\ i - 1 < j
            BY <1>1, <3>0, <3>2, <3>5, <4>2
          <5> QED
            BY <5>1
        <4> QED
          BY <4>1, <4>2
      <3> QED
        BY <3>3, <3>4, <3>5
    <2> QED
      BY <2>1 DEF EndHasStart
  <1> QED
    BY <1>4, <1>5, <1>6, <1>7 DEF DragInv

\* The page drags.
LEMMA PageDrags ==
  ASSUME BarTypes, PageTypes, CardFollowsTarget, SeenIsState, Button, DragInv, PageStep,
         part = "bar", part' = part
  PROVE  DragInv'
  <1>0. toMain \in Seq(Commands) /\ page \in PageRecs
    BY DEF BarTypes, TalkTypes, PageTypes
  <1>1. currentDisplayMode' = currentDisplayMode /\ grab' = grab
    BY DEF PageStep, pageFrame, placeVars
  <1>2. \E p : Kept(p) /\ Render(p) /\ Orderly(p)
    <2>1. CASE (UserStep \/ TimerStep) /\ UNCHANGED toBar
      BY <2>1, Handled
    <2>2. CASE HearState
      <3> DEFINE r == [page EXCEPT !.seen = Head(toBar)]
      <3>1. toBar # <<>> /\ Render(r) /\ toBar \in Seq(States)
        BY <2>2 DEF HearState, BarTypes, TalkTypes
      <3>2. Head(toBar) \in States
        BY <3>1, Heads
      <3>3. r \in PageRecs /\ r.sent = page.sent /\ r.held = page.held /\ r.shown = page.shown
        BY <1>0, <3>2 DEF PageRecs
      <3> HIDE DEF r
      <3>4. Plain(page)
        BY HidingHandlers
      <3>5. Kept(r) /\ Orderly(r)
        BY <3>3, <3>4 DEF Plain, Kept, HeldSaid, Orderly, Calm
      <3> QED
        BY <3>1, <3>5
    <2> QED
      BY <2>1, <2>2 DEF PageStep
  <1>3. PICK p : Kept(p) /\ Render(p) /\ Orderly(p)
    BY <1>2
  <1>4. PICK s \in Seq(Commands) : toMain' = toMain \o s /\ OrderSaid(s)
    BY <1>3, Rendered
  <1>5. /\ NoTab(toMain) /\ NoTab(s) => NoTab(toMain')
        /\ NoneOf(toMain, {"end"}) /\ EndLast(s) => EndLast(toMain')
        /\ EndLast(toMain) /\ NoneOf(s, {"start", "end"}) => EndLast(toMain')
        /\ NoneOf(toMain, {"start", "end"}) /\ NoneOf(s, {"start", "end"}) => NoneOf(toMain', {"start", "end"})
        /\ \A i \in DOMAIN toMain : i \in DOMAIN toMain' /\ toMain'[i] = toMain[i]
        /\ \A i \in DOMAIN toMain' : i \notin DOMAIN toMain =>
             (\A j \in DOMAIN toMain : j < i) /\ \E j \in DOMAIN s : toMain'[i] = s[j]
    <2> DEFINE K == {"start", "end"}
    <2>1. /\ NoTab(toMain) /\ NoTab(s) => NoTab(toMain \o s)
          /\ NoneOf(toMain, {"end"}) /\ EndLast(s) => EndLast(toMain \o s)
          /\ EndLast(toMain) /\ NoneOf(s, {"start", "end"}) => EndLast(toMain \o s)
          /\ NoneOf(toMain, K) /\ NoneOf(s, K) => NoneOf(toMain \o s, K)
          /\ \A i \in DOMAIN toMain : i \in DOMAIN (toMain \o s) /\ (toMain \o s)[i] = toMain[i]
          /\ \A i \in DOMAIN (toMain \o s) : i \notin DOMAIN toMain =>
               (\A j \in DOMAIN toMain : j < i) /\ \E j \in DOMAIN s : (toMain \o s)[i] = s[j]
      <3>1. NoTab(toMain) /\ NoTab(s) => NoTab(toMain \o s)
        BY <1>0, SentBehind
      <3>2. NoneOf(toMain, {"end"}) /\ EndLast(s) => EndLast(toMain \o s)
        BY <1>0, SentBehind
      <3>3. EndLast(toMain) /\ NoneOf(s, {"start", "end"}) => EndLast(toMain \o s)
        BY <1>0, SentBehind
      <3>4. NoneOf(toMain, K) /\ NoneOf(s, K) => NoneOf(toMain \o s, K)
        BY <1>0, SentBehind
      <3>5. \A i \in DOMAIN toMain : i \in DOMAIN (toMain \o s) /\ (toMain \o s)[i] = toMain[i]
        BY <1>0, SentBehind
      <3>6. \A i \in DOMAIN (toMain \o s) : i \notin DOMAIN toMain =>
               (\A j \in DOMAIN toMain : j < i) /\ \E j \in DOMAIN s : (toMain \o s)[i] = s[j]
        BY <1>0, SentBehind
      <3> QED
        BY <3>1, <3>2, <3>3, <3>4, <3>5, <3>6
    <2> QED
      BY <1>4, <2>1
  <1>6. NoneOf(toMain, {"end"}) /\ NoneOf(s, {"end"}) => NoneOf(toMain', {"end"})
    BY <1>0, <1>4, SentBehind
  <1>7. page'.held \in BOOLEAN
    BY <1>3, Rendered DEF PageRecs
  \* Nothing of a drag is said, and none is begun.
  <1>8. ASSUME NoneOf(s, {"start", "end"}), page'.held => page.held,
               NoTab(s) \/ (~page.held /\ ~grab.on /\ NoneOf(toMain, {"start", "end"}))
        PROVE  DragInv'
    <2>1. DragIsFull'
      BY <1>1, <1>5, <1>8 DEF DragInv, DragIsFull
    <2>2. EndHasStart'
      <3>1. ASSUME NEW j \in DOMAIN toMain', toMain'[j].c = "end"
            PROVE  grab.on \/ \E i \in DOMAIN toMain' : i < j /\ toMain'[i].c = "start"
        <4>1. j \in DOMAIN toMain /\ toMain[j].c = "end"
          BY <1>5, <1>8, <3>1 DEF NoneOf
        <4> QED
          BY <1>5, <4>1 DEF DragInv, EndHasStart
      <3> QED
        BY <1>1, <3>1 DEF EndHasStart
    <2>3. NoneOf(s, {"end"})
      BY <1>8 DEF NoneOf
    <2> QED
      BY <1>5, <1>6, <1>8, <2>1, <2>2, <2>3 DEF DragInv
  <1>9. CASE /\ NoTab(s) /\ EndLast(s) /\ (page'.held => page.held /\ NoneOf(s, {"end"}))
             /\ ~page.held => NoneOf(s, {"start", "end"})
    <2>1. CASE ~page.held
      BY <1>8, <1>9, <2>1
    <2>2. CASE page.held
      <3>1. currentDisplayMode = "full" /\ NoTab(toMain) /\ NoneOf(toMain, {"end"})
        BY <2>2 DEF DragInv, DragIsFull
      <3>2. EndHasStart'
        <4>1. ASSUME NEW j \in DOMAIN toMain', toMain'[j].c = "end"
              PROVE  grab.on \/ \E i \in DOMAIN toMain' : i < j /\ toMain'[i].c = "start"
          <5>1. j \notin DOMAIN toMain
            BY <1>5, <3>1, <4>1 DEF NoneOf
          <5>2. CASE NoneOf(toMain, {"start", "end"}) /\ grab.on = page.held
            BY <2>2, <5>2
          <5>3. CASE LastIs(toMain, {"start", "end"}, Command("start", TRUE))
            <6>1. PICK i \in DOMAIN toMain : toMain[i] = Command("start", TRUE)
              BY <5>3 DEF LastIs
            <6>2. i \in DOMAIN toMain' /\ i < j /\ toMain'[i].c = "start"
              BY <1>5, <4>1, <5>1, <6>1 DEF Command
            <6> QED
              BY <6>2
          <5> QED
            BY <2>2, <5>2, <5>3 DEF Button
        <4> QED
          BY <1>1, <4>1 DEF EndHasStart
      <3>3. part = "bar"
        OBVIOUS
      <3> QED
        BY <1>1, <1>5, <1>6, <1>9, <3>1, <3>2, <3>3 DEF DragInv, DragIsFull
    <2> QED
      BY <2>1, <2>2
  <1>10. CASE UserActs /\ (\/ ~Tab(page) /\ NoTab(s) /\ NoneOf(s, {"end"})
                           \/ ~page'.held /\ NoneOf(s, {"start", "end"}))
    <2>1. toMain = <<>> /\ toBar = <<>> /\ ~page.held
      BY <1>10 DEF UserActs, Heard
    <2>2. NoneOf(toMain, {"start", "end"}) /\ NoTab(toMain) /\ NoneOf(toMain, {"end"})
      BY <2>1 DEF NoneOf, NoTab
    <2>3. ~grab.on
      <3>1. ~LastIs(toMain, {"start", "end"}, Command(IF page.held THEN "start" ELSE "end", TRUE))
        BY <2>1 DEF LastIs
      <3> QED
        BY <2>1, <3>1 DEF Button
    <2>4. CASE ~page'.held /\ NoneOf(s, {"start", "end"})
      BY <1>8, <2>1, <2>2, <2>3, <2>4
    <2>5. CASE ~Tab(page) /\ NoTab(s) /\ NoneOf(s, {"end"})
      <3>1. currentDisplayMode = "full"
        <4>1. page.seen = BarState
          BY <2>1 DEF SeenIsState, LastSaid
        <4>2. currentDisplayMode # "edge-tab" /\ currentDisplayMode \in Modes
          BY <2>5, <4>1 DEF Tab, BarState, BarTypes, BoundsTypes
        <4> QED
          BY <4>2 DEF Modes
      <3>2. NoneOf(toMain', {"end"}) /\ NoTab(toMain')
        BY <1>5, <1>6, <2>2, <2>5
      <3>3. EndLast(toMain') /\ EndHasStart'
        BY <3>2 DEF NoneOf, EndLast, EndHasStart
      <3> QED
        BY <1>1, <3>1, <3>2, <3>3 DEF DragInv, DragIsFull
    <2> QED
      BY <1>10, <2>4, <2>5
  <1> QED
    BY <1>4, <1>9, <1>10 DEF OrderSaid

\* Any other step of the window, and any page of it.
LEMMA WindowDrags ==
  ASSUME BarTypes, PageTypes, DragInv, page' = page, part' = part,
         \/ WindowStep /\ (Restart => part = "window")
         \/ AnyPage /\ part = "window"
  PROVE  DragInv'
  <1>1. ASSUME grab' = grab, toMain' = toMain,
               currentDisplayMode' = "full" \/ currentDisplayMode' = currentDisplayMode
        PROVE  DragInv'
    BY <1>1 DEF DragInv, DragIsFull, EndHasStart
  <1>2. ASSUME NEW b, SetVisible(b)
        PROVE  grab' = grab /\ currentDisplayMode' = currentDisplayMode
    BY <1>2 DEF SetVisible, Reveal, EnsureOnScreen, placeVars
  <1>3. CASE Receive
    BY <1>3, ReceiveDrags
  <1>4. CASE Elsewhere
    <2>1. toMain' = toMain
      BY <1>4 DEF Elsewhere
    <2>2. CASE SetVisible(~visible)
      BY <1>1, <1>2, <2>1, <2>2
    <2>3. CASE ResetMiniBarDock
      BY <1>1, <2>1, <2>3 DEF ResetMiniBarDock
    <2>4. CASE SetDisplayMode("full")
      BY <1>1, <2>1, <2>4 DEF SetDisplayMode, placeVars
    <2> QED
      BY <1>4, <2>2, <2>3, <2>4 DEF Elsewhere
  <1>5. CASE UseSwitch
    BY <1>1, <1>2, <1>5 DEF UseSwitch
  <1>6. CASE Follow
    BY <1>1, <1>6 DEF Follow
  <1>7. CASE CloseWindow
    BY <1>1, <1>7 DEF CloseWindow, placeVars
  <1>8. CASE SetDockPreference
    BY <1>1, <1>8 DEF SetDockPreference, placeVars
  <1>9. CASE MoveCursor \/ PlugDisplays \/ HearVisibility
    BY <1>1, <1>9 DEF MoveCursor, PlugDisplays, HearVisibility, worldUnchanged, placeVars
  <1>10. CASE Restart
    <2>1. toMain' = <<>> /\ grab'.on = FALSE /\ ~page'.held
      BY <1>10 DEF Restart, Start, NotDragged, DragInv
    <2>2. NoneOf(toMain', {"start", "end"})
      BY <2>1 DEF NoneOf
    <2> QED
      BY <2>1, <2>2 DEF DragInv, DragIsFull, EndLast, EndHasStart
  <1>11. CASE AnyPage /\ part = "window"
    <2>1. UNCHANGED <<placeVars, grab>> /\ toMain = <<>> /\ ~page'.held
      BY <1>11 DEF AnyPage, DragInv
    <2>2. currentDisplayMode' = currentDisplayMode /\ grab' = grab
      BY <2>1 DEF placeVars
    <2>3. CASE grab.on /\ toMain' = <<Command("end", TRUE)>>
      <3>1. currentDisplayMode = "full"
        BY <2>3 DEF DragInv, DragIsFull
      <3>2. NoTab(toMain') /\ EndLast(toMain') /\ EndHasStart'
        BY <2>2, <2>3 DEF NoTab, EndLast, EndHasStart, Command
      <3> QED
        BY <2>1, <2>2, <3>1, <3>2 DEF DragInv, DragIsFull
    <2>4. CASE ~grab.on /\ toMain' \in {<<m>> : m \in AnyCommand}
      <3>1. PICK m \in AnyCommand : toMain' = <<m>>
        BY <2>4
      <3>2. m.c \notin {"start", "end"}
        BY <3>1 DEF AnyCommand, Command
      <3>3. NoneOf(toMain', {"start", "end"}) /\ EndLast(toMain') /\ EndHasStart'
        BY <3>1, <3>2 DEF NoneOf, EndLast, EndHasStart
      <3> QED
        BY <2>1, <2>2, <2>4, <3>3 DEF DragInv, DragIsFull
    <2>5. CASE currentDisplayMode = "full" /\ toMain' = <<Command("start", TRUE)>>
      <3>1. NoTab(toMain') /\ EndLast(toMain') /\ EndHasStart'
        BY <2>5 DEF NoTab, EndLast, EndHasStart, Command
      <3> QED
        BY <2>1, <2>2, <2>5, <3>1 DEF DragInv, DragIsFull
    <2> QED
      BY <1>11, <2>3, <2>4, <2>5 DEF AnyPage
  <1> QED
    BY <1>3, <1>4, <1>5, <1>6, <1>7, <1>8, <1>9, <1>10, <1>11 DEF WindowStep

-----------------------------------------------------------------------------
(***************************************************************************)
(* The place of the bar                                                    *)
(***************************************************************************)
\* The corner of the collapsed bar whose bounds are b on the edge d.
CornerAt(b, d) ==
  LET full == FullSize(d, FALSE) IN
  Place(CASE d = "right" -> Right(b) - 80
          [] d = "left" -> b.x
          [] OTHER -> (b.x + b.width \div 2) - 170,
        CASE d = "top" -> b.y
          [] d = "bottom" -> Bottom(b) - 56
          [] OTHER -> (b.y + b.height \div 2) - full.height \div 2)
SizeOf(b) == [width |-> b.width, height |-> b.height]

\* The corner that the code computes from the bounds is what is seen.
LEMMA CornersAgree ==
  ASSUME NEW b \in Rects, NEW d \in Docks, NEW e \in BOOLEAN
  PROVE  /\ SizeOf(b) = FullSize(d, e) => CornerAt(b, d) = CollapsedAnchor(b, e, d)
         /\ SizeOf(b) = TabSize(d) => CornerAt(b, d) = AnchorOfTab(b, d)
  <1>1. b.x \in Int /\ b.y \in Int /\ b.width \in Nat /\ b.height \in Nat
    BY DEF Rects
  <1>2. SizeOf(b).width = b.width /\ SizeOf(b).height = b.height
    BY DEF SizeOf
  <1>3. CASE d = "left"
    BY <1>1, <1>2, <1>3 DEF CornerAt, CollapsedAnchor, AnchorOfTab, TabShift, Place, FullSize, TabSize,
                           Horizontal, Right, Bottom
  <1>4. CASE d = "right"
    BY <1>1, <1>2, <1>4 DEF CornerAt, CollapsedAnchor, AnchorOfTab, TabShift, Place, FullSize, TabSize,
                           Horizontal, Right, Bottom
  <1>5. CASE d = "top"
    BY <1>1, <1>2, <1>5 DEF CornerAt, CollapsedAnchor, AnchorOfTab, TabShift, Place, FullSize, TabSize,
                           Horizontal, Right, Bottom
  <1>6. CASE d = "bottom"
    BY <1>1, <1>2, <1>6 DEF CornerAt, CollapsedAnchor, AnchorOfTab, TabShift, Place, FullSize, TabSize,
                           Horizontal, Right, Bottom
  <1> QED
    BY <1>3, <1>4, <1>5, <1>6 DEF Docks

\* The bounds that are computed from a corner have that corner, and the size.
LEMMA BoundsHaveCorner ==
  ASSUME NEW p \in Spots, NEW d \in Docks, NEW e \in BOOLEAN
  PROVE  /\ CornerAt(BoundsForState(p, e, d), d) = p /\ SizeOf(BoundsForState(p, e, d)) = FullSize(d, e)
         /\ CornerAt(At(p, FullSize(d, FALSE)), d) = p
         /\ SizeOf(At(p, FullSize(d, e))) = FullSize(d, e)
         /\ CornerAt(TabBounds(p, d), d) = p /\ SizeOf(TabBounds(p, d)) = TabSize(d)
  <1>1. p.x \in Int /\ p.y \in Int /\ p = [x |-> p.x, y |-> p.y]
    BY DEF Spots
  <1>2. FullSize(d, e) = [width |-> FullSize(d, e).width, height |-> FullSize(d, e).height]
        /\ TabSize(d) = [width |-> TabSize(d).width, height |-> TabSize(d).height]
    BY DEF FullSize, TabSize
  <1>3. /\ SizeOf(BoundsForState(p, e, d)) = FullSize(d, e) /\ SizeOf(At(p, FullSize(d, e))) = FullSize(d, e)
        /\ SizeOf(TabBounds(p, d)) = TabSize(d)
    BY <1>2 DEF SizeOf, BoundsForState, TabBounds, At
  <1>4. CornerAt(BoundsForState(p, e, d), d) = p
    BY <1>1 DEF CornerAt, BoundsForState, At, Place, FullSize, Horizontal, Right, Bottom, Docks
  <1>5. CornerAt(At(p, FullSize(d, FALSE)), d) = p
    BY <1>1 DEF CornerAt, At, Place, FullSize, Horizontal, Right, Bottom, Docks
  <1>6. CornerAt(TabBounds(p, d), d) = p
    BY <1>1 DEF CornerAt, TabBounds, TabShift, At, Place, FullSize, TabSize, Horizontal, Right, Bottom, Docks
  <1> QED
    BY <1>3, <1>4, <1>5, <1>6

\* The bar is as large as its form.
Sized ==
  /\ SizeOf(win) = IF currentDisplayMode = "edge-tab" THEN TabSize(currentDockSide)
                   ELSE FullSize(currentDockSide, isExpanded)
  /\ currentDisplayMode = "edge-tab" => isExpanded = FALSE
OnOneDisplay == \E a \in displays : AtEdge(a) /\ OnlyOn(a)

\* What a step of the main process does to the place of the bar.
Drifts ==
  /\ isExpanded' # isExpanded \/ currentDisplayMode' # currentDisplayMode
  /\ currentDockSide' = currentDockSide /\ grab = NotDragged /\ OnOneDisplay
  /\ Corner' # Corner
Lost ==
  /\ ~grab'.on
  /\ Corner' # Corner \/ currentDockSide' # currentDockSide \/ currentDisplayMode' # currentDisplayMode
  /\ savedBounds' # [x |-> Corner'.x, y |-> Corner'.y,
                     dock |-> currentDockSide', mode |-> currentDisplayMode']
Unseen == ~visible /\ visible' /\ ~(\E a \in displays' : Overlaps(win', a))
Put == Sized' /\ ~Lost /\ ~Unseen

\* The corner as an operator of the bounds.
LEMMA CornerIs ==
  /\ Corner = CornerAt(win, currentDockSide)
  /\ Corner' = CornerAt(win', currentDockSide')
  BY DEF Corner, CornerAt

\* What the code takes for the corner is the corner.
LEMMA CornerOfSized ==
  ASSUME BoundsTypes, Sized
  PROVE  /\ Corner \in Spots
         /\ currentDisplayMode = "edge-tab" => Corner = AnchorOfTab(win, currentDockSide)
         /\ currentDisplayMode # "edge-tab" => Corner = CollapsedAnchor(win, isExpanded, currentDockSide)
  <1>0. [x |-> 0, y |-> 0] \in Spots
    BY DEF Spots
  <1>1. /\ currentDisplayMode = "edge-tab" => Corner = AnchorOfTab(win, currentDockSide)
        /\ currentDisplayMode # "edge-tab" => Corner = CollapsedAnchor(win, isExpanded, currentDockSide)
    BY CornerIs, CornersAgree DEF BoundsTypes, Sized
  <1>2. AnchorOfTab(win, currentDockSide) \in Spots /\ CollapsedAnchor(win, isExpanded, currentDockSide) \in Spots
    BY <1>0, BoundsAreBounds DEF BoundsTypes
  <1> QED
    BY <1>1, <1>2

\* What is saved is where the bar is.
LEMMA SavedIsCorner ==
  ASSUME SaveBounds, BoundsTypes', Sized'
  PROVE  ~Lost
  <1>1. PICK b, d, m, e : b = win' /\ d = currentDockSide' /\ m = currentDisplayMode' /\ e = isExpanded'
    OBVIOUS
  <1>2. b \in Rects /\ d \in Docks /\ e \in BOOLEAN
    BY <1>1 DEF BoundsTypes
  <1>3. SizeOf(b) = IF m = "edge-tab" THEN TabSize(d) ELSE FullSize(d, e)
    BY <1>1 DEF Sized, SizeOf
  <1>4. CornerAt(b, d) = IF m = "edge-tab" THEN AnchorOfTab(b, d) ELSE CollapsedAnchor(b, e, d)
    BY <1>2, <1>3, CornersAgree
  <1>5. Corner' = CornerAt(b, d)
    BY <1>1, CornerIs
  <1>6. savedBounds' = [x |-> Corner'.x, y |-> Corner'.y,
                        dock |-> currentDockSide', mode |-> currentDisplayMode']
    BY <1>1, <1>4, <1>5 DEF SaveBounds, AnchorOf
  <1> QED
    BY <1>6 DEF Lost

\* The card opens and closes.
LEMMA ExpandStays ==
  ASSUME BarTypes, Sized, NEW e \in BOOLEAN, SetWindowExpanded(e)
  PROVE  Put /\ ~Drifts
  <1>0. BoundsTypes /\ win \in Rects /\ currentDockSide \in Docks
    BY DEF BarTypes, BoundsTypes
  <1>1. UNCHANGED <<currentDockSide, currentDisplayMode, savedBounds, visible, grab>>
    BY DEF SetWindowExpanded
  <1>2. CASE UNCHANGED <<win, isExpanded, toBar>>
    <2>1. Corner' = Corner
      BY <1>1, <1>2, CornerIs
    <2> QED
      BY <1>1, <1>2, <2>1 DEF Put, Drifts, Lost, Unseen, Sized, SizeOf
  <1>3. CASE ~(isExpanded = e \/ currentDisplayMode = "edge-tab")
    <2>1. /\ isExpanded' = e
          /\ win' = BoundsForState(CollapsedAnchor(win, isExpanded, currentDockSide), e, currentDockSide)
      BY <1>3 DEF SetWindowExpanded
    <2>2. Corner = CollapsedAnchor(win, isExpanded, currentDockSide) /\ Corner \in Spots
      BY <1>0, <1>3, CornerOfSized
    <2>3. CornerAt(win', currentDockSide) = Corner /\ SizeOf(win') = FullSize(currentDockSide, e)
      BY <1>0, <2>1, <2>2, BoundsHaveCorner
    <2>4. Corner' = Corner
      BY <1>1, <2>3, CornerIs
    <2>5. Sized'
      BY <1>1, <1>3, <2>1, <2>3 DEF Sized, SizeOf
    <2> QED
      BY <1>1, <2>4, <2>5 DEF Put, Drifts, Lost, Unseen
  <1> QED
    BY <1>2, <1>3 DEF SetWindowExpanded

\* A bar that lies on one display is not moved when it is kept on the screen.
LEMMA FullBarFits ==
  ASSUME BarTypes, Sized, OnOneDisplay
  PROVE  ClampToVisibleArea(At(Corner, FullSize(currentDockSide, FALSE)), FALSE, currentDockSide) = Corner
  <1> DEFINE d == currentDockSide
             size == FullSize(d, FALSE)
             b == At(Corner, size)
  <1>0. d \in Docks /\ win \in Rects /\ displays \subseteq Rects
    BY MinibarAssumption DEF BarTypes, BoundsTypes, CursorTypes, Rects
  <1>1. Corner \in Spots
    BY CornerOfSized DEF BarTypes
  <1>2. PICK a \in displays : AtEdge(a) /\ OnlyOn(a)
    BY DEF OnOneDisplay
  <1>3. size \in [width : Nat, height : Nat] /\ size.width > 0 /\ size.height > 0
    BY <1>0 DEF FullSize, Horizontal, Docks
  <1>4. b \in Rects /\ b.x = Corner.x /\ b.y = Corner.y /\ b.width = size.width /\ b.height = size.height
    BY <1>1, <1>3 DEF At, Rects, Spots
  <1>5. /\ a.x <= b.x /\ Right(b) <= Right(a) /\ a.y <= b.y /\ Bottom(b) <= Bottom(a)
        /\ \A other \in displays : Overlaps(b, other) => other = a
    BY <1>2 DEF OnlyOn
  <1> HIDE DEF b
  <1>6. Overlaps(b, a)
    <2>1. a \in Rects
      BY <1>0
    <2> HIDE DEF size
    <2> QED
      BY <1>3, <1>4, <1>5, <2>1 DEF Overlaps, Right, Bottom, Rects
  <1>7. {x \in displays : Overlaps(b, x)} = {a}
    BY <1>2, <1>5, <1>6
  <1>8. ClampToVisibleArea(b, FALSE, d) = ClampToWorkArea(b, a, FALSE, d)
    BY <1>7 DEF ClampToVisibleArea
  <1>9. /\ d = "left" => b.x = a.x
        /\ d = "right" => b.x = Right(a) - 80
        /\ d = "top" => b.y = a.y
        /\ d = "bottom" => b.y = Bottom(a) - 56
    BY <1>0, <1>2, <1>4 DEF AtEdge, Corner, Place, Right, Bottom, Rects
  <1>10. /\ Clamp(b.x, a.x, Right(a) - size.width) = b.x
         /\ Clamp(b.y, a.y, Bottom(a) - size.height) = b.y
    <2>1. /\ b.x \in Int /\ a.x \in Int /\ Right(a) - size.width \in Int /\ b.x <= Right(a) - size.width
          /\ b.y \in Int /\ a.y \in Int /\ Bottom(a) - size.height \in Int /\ b.y <= Bottom(a) - size.height
      <3>1. a \in Rects
        BY <1>0
      <3> HIDE DEF size
      <3> QED
        BY <1>3, <1>4, <1>5, <3>1 DEF Right, Bottom, Rects
    <2>2. \A v, lo, hi \in Int : lo <= v /\ v <= hi => Clamp(v, lo, hi) = v
      BY Clamped
    <2>3. a.x <= b.x /\ a.y <= b.y
      BY <1>5
    <2> HIDE DEF size
    <2> QED
      BY <2>1, <2>2, <2>3
  <1>11. ClampToWorkArea(b, a, FALSE, d) = Place(b.x, b.y)
    <2>1. /\ d = "right" => size.width = 80
          /\ d = "bottom" => size.height = 56
      BY DEF FullSize, Horizontal
    <2> QED
      BY <1>9, <1>10, <2>1 DEF ClampToWorkArea
  <1>12. Place(b.x, b.y) = Corner
    BY <1>1, <1>4 DEF Place, Spots
  <1> QED
    BY <1>8, <1>11, <1>12 DEF b

\* The bar goes to the edge-tab and comes back.
LEMMA ModeStays ==
  ASSUME BarTypes, Sized, NEW m \in Modes, SetDisplayMode(m), BoundsTypes'
  PROVE  Put /\ ~Drifts
  <1>0. BoundsTypes /\ win \in Rects /\ currentDockSide \in Docks
    BY DEF BarTypes, BoundsTypes
  <1>1. UNCHANGED <<visible, grab>>
    BY DEF SetDisplayMode
  <1>2. CASE UNCHANGED placeVars
    <2>1. Corner' = Corner
      BY <1>2, CornerIs DEF placeVars
    <2> QED
      BY <1>1, <1>2, <2>1 DEF Put, Drifts, Lost, Unseen, Sized, SizeOf, placeVars
  <1>3. CASE currentDisplayMode # m
    <2>1. /\ currentDisplayMode' = m /\ isExpanded' = FALSE /\ currentDockSide' = currentDockSide
          /\ SaveBounds
      BY <1>3 DEF SetDisplayMode
    <2>2. CASE m = "edge-tab"
      <3>1. Corner = CollapsedAnchor(win, isExpanded, currentDockSide) /\ Corner \in Spots
        BY <1>0, <1>3, <2>2, CornerOfSized
      <3>2. win' = TabBounds(Corner, currentDockSide)
        BY <1>3, <2>2, <3>1 DEF SetDisplayMode
      <3>3. CornerAt(win', currentDockSide) = Corner /\ SizeOf(win') = TabSize(currentDockSide)
        BY <1>0, <3>1, <3>2, BoundsHaveCorner
      <3>4. Corner' = Corner
        BY <2>1, <3>3, CornerIs
      <3>5. Sized'
        BY <2>1, <2>2, <3>3 DEF Sized, SizeOf
      <3>6. ~Lost
        BY <2>1, <3>5, SavedIsCorner
      <3> QED
        BY <1>1, <3>4, <3>5, <3>6 DEF Put, Drifts, Unseen
    <2>3. CASE m # "edge-tab"
      <3>1. currentDisplayMode = "edge-tab" /\ m = "full"
        BY <1>0, <1>3, <2>3 DEF Modes, BoundsTypes
      <3>2. Corner = AnchorOfTab(win, currentDockSide) /\ Corner \in Spots
        BY <1>0, <3>1, CornerOfSized
      <3> DEFINE size == FullSize(currentDockSide, FALSE)
                 q == ClampToVisibleArea(At(Corner, size), FALSE, currentDockSide)
      <3>3. win' = At(q, size)
        BY <1>3, <2>3, <3>2 DEF SetDisplayMode
      <3>4. q \in Spots
        <4>1. At(Corner, size) \in Rects
          BY <1>0, <3>2, BoundsAreBounds
        <4> QED
          BY <1>0, <4>1, VisibleSpot DEF BarTypes
      <3>5. OnOneDisplay => q = Corner
        BY FullBarFits
      <3> HIDE DEF q
      <3>6. CornerAt(win', currentDockSide) = q /\ SizeOf(win') = FullSize(currentDockSide, FALSE)
        BY <1>0, <3>3, <3>4, BoundsHaveCorner
      <3>7. Corner' = q
        BY <2>1, <3>6, CornerIs
      <3>8. Sized'
        BY <2>1, <2>3, <3>6 DEF Sized, SizeOf
      <3>9. ~Lost
        BY <2>1, <3>8, SavedIsCorner
      <3> QED
        BY <1>1, <3>5, <3>7, <3>8, <3>9 DEF Put, Drifts, Unseen
    <2> QED
      BY <2>2, <2>3
  <1> QED
    BY <1>2, <1>3 DEF SetDisplayMode, placeVars

\* A bar that is kept on a screen is seen there: it overlaps the work area.
LEMMA ClampedIsSeen ==
  ASSUME NEW a \in Displays, NEW b \in Rects, NEW d \in Docks, NEW e \in BOOLEAN,
         SizeOf(b) = FullSize(d, e) \/ (SizeOf(b) = TabSize(d) /\ e = FALSE),
         NEW r \in Rects, r.x = ClampToWorkArea(b, a, e, d).x, r.y = ClampToWorkArea(b, a, e, d).y,
         SizeOf(r) = SizeOf(b)
  PROVE  Overlaps(r, a)
  <1> DEFINE size == FullSize(d, e)
  <1>1. a \in Rects /\ a.width >= 370 /\ a.height >= 370
    BY MinibarAssumption DEF Rects
  <1>2. size \in [width : Nat, height : Nat]
    BY SizesAreSizes
  <1>3. /\ size.width <= 370 /\ size.height <= 370 /\ size.width > 0 /\ size.height > 0
        /\ r.width > 0 /\ r.height > 0
        /\ r.width <= size.width /\ r.height <= size.height
        /\ r.width \in Nat /\ r.height \in Nat
    <2>1. r.width = b.width /\ r.height = b.height
      <3>1. SizeOf(r).width = SizeOf(b).width /\ SizeOf(r).height = SizeOf(b).height
        OBVIOUS
      <3> QED
        BY <3>1 DEF SizeOf
    <2>2. CASE SizeOf(b) = FullSize(d, e)
      <3>1. b.width = size.width /\ b.height = size.height
        BY <2>2 DEF SizeOf
      <3> QED
        BY <2>1, <3>1 DEF FullSize, Horizontal
    <2>3. CASE SizeOf(b) = TabSize(d) /\ e = FALSE
      <3>1. b.width = TabSize(d).width /\ b.height = TabSize(d).height
        BY <2>3 DEF SizeOf
      <3> QED
        BY <2>1, <2>3, <3>1 DEF FullSize, TabSize, Horizontal
    <2> QED
      BY <2>2, <2>3
  <1> HIDE DEF size
  <1> DEFINE rt == Right(a) - size.width
             bt == Bottom(a) - size.height
  <1>4. /\ a.x \in Int /\ a.y \in Int /\ rt \in Int /\ bt \in Int /\ b.x \in Int /\ b.y \in Int
        /\ a.x <= rt /\ a.y <= bt /\ rt + size.width = Right(a) /\ bt + size.height = Bottom(a)
    BY <1>1, <1>2, <1>3 DEF Right, Bottom, Rects
  <1> HIDE DEF rt, bt
  <1>5. /\ Clamp(b.x, a.x, rt) \in Int /\ a.x <= Clamp(b.x, a.x, rt) /\ Clamp(b.x, a.x, rt) <= rt
        /\ Clamp(b.y, a.y, bt) \in Int /\ a.y <= Clamp(b.y, a.y, bt) /\ Clamp(b.y, a.y, bt) <= bt
    BY <1>4, Clamped
  <1>6. /\ r.x = CASE d = "left" -> a.x [] d = "right" -> rt [] OTHER -> Clamp(b.x, a.x, rt)
        /\ r.y = CASE d = "top" -> a.y [] d = "bottom" -> bt [] OTHER -> Clamp(b.y, a.y, bt)
    BY DEF ClampToWorkArea, Place, size, rt, bt
  <1>7. a.x <= r.x /\ r.x <= rt /\ a.y <= r.y /\ r.y <= bt /\ r.x \in Int /\ r.y \in Int
    BY <1>4, <1>5, <1>6
  <1>8. a.x < r.x + r.width /\ r.x < Right(a) /\ a.y < r.y + r.height /\ r.y < Bottom(a)
    BY <1>2, <1>3, <1>4, <1>7 DEF Right, Bottom
  <1> QED
    BY <1>8 DEF Overlaps, Right, Bottom

\* The bar appears, or goes.
LEMMA ShowStays ==
  ASSUME BarTypes, Sized, NEW v \in BOOLEAN, SetVisible(v), BoundsTypes', displays' = displays
  PROVE  Put /\ ~Drifts
  <1>0. BoundsTypes /\ win \in Rects /\ currentDockSide \in Docks /\ isExpanded \in BOOLEAN
    BY DEF BarTypes, BoundsTypes
  <1>1. visible' = v /\ grab' = grab
    BY DEF SetVisible
  <1>2. CASE ~v
    <2>1. UNCHANGED placeVars
      BY <1>2 DEF SetVisible
    <2>2. Corner' = Corner
      BY <2>1, CornerIs DEF placeVars
    <2> QED
      BY <1>1, <1>2, <2>1, <2>2 DEF Put, Drifts, Lost, Unseen, Sized, SizeOf, placeVars
  <1>3. CASE v
    <2> DEFINE near == {a \in displays : Overlaps(win, a)}
               a == IF near = {} THEN Primary ELSE CHOOSE a \in near : TRUE
               q == ClampToWorkArea(win, a, isExpanded, currentDockSide)
    <2>1. /\ win' = [win EXCEPT !.x = q.x, !.y = q.y]
          /\ UNCHANGED <<isExpanded, currentDockSide, currentDisplayMode>>
          /\ (win' # win /\ SaveBounds) \/ (win' = win /\ savedBounds' = savedBounds)
      BY <1>3 DEF SetVisible, Reveal, EnsureOnScreen, ClampToVisibleArea
    <2>2. a \in displays /\ a \in Displays
      BY DEF BarTypes, CursorTypes
    <2> HIDE DEF a
    <2>3. PICK w : w = win'
      OBVIOUS
    <2>4. w \in Rects /\ w.x = q.x /\ w.y = q.y /\ SizeOf(w) = SizeOf(win)
      <3>1. w \in Rects
        BY <2>3 DEF BoundsTypes
      <3>2. w.x = q.x /\ w.y = q.y /\ w.width = win.width /\ w.height = win.height
        <4> HIDE DEF q
        <4> QED
          BY <1>0, <2>1, <2>3 DEF Rects
      <3> QED
        BY <3>1, <3>2 DEF SizeOf
    <2>5. SizeOf(win) = FullSize(currentDockSide, isExpanded)
          \/ (SizeOf(win) = TabSize(currentDockSide) /\ isExpanded = FALSE)
      BY DEF Sized
    <2>6. Overlaps(w, a)
      BY <1>0, <2>2, <2>4, <2>5, ClampedIsSeen
    <2>7. ~Unseen
      BY <2>2, <2>3, <2>6 DEF Unseen
    <2>8. Sized'
      BY <2>1, <2>3, <2>4 DEF Sized, SizeOf
    <2>9. ~Lost
      <3>1. CASE SaveBounds
        BY <2>8, <3>1, SavedIsCorner
      <3>2. CASE win' = win
        <4>1. Corner' = Corner
          BY <2>1, <3>2, CornerIs
        <4> QED
          BY <2>1, <4>1 DEF Lost
      <3> QED
        BY <2>1, <3>1, <3>2
    <2> QED
      BY <2>1, <2>7, <2>8, <2>9 DEF Put, Drifts
  <1> QED
    BY <1>2, <1>3

\* A drag begins, and ends.
LEMMA DragStays ==
  ASSUME BarTypes, Sized, BoundsTypes', DragStart \/ (DragEnd /\ grab.on /\ currentDisplayMode = "full")
  PROVE  Put /\ ~Drifts
  <1>0. BoundsTypes /\ win \in Rects /\ currentDockSide \in Docks /\ isExpanded \in BOOLEAN
    BY DEF BarTypes, BoundsTypes
  <1>1. CASE DragStart
    <2>1. /\ isExpanded' = FALSE /\ grab'.on = TRUE
          /\ UNCHANGED <<currentDockSide, currentDisplayMode, savedBounds, visible>>
      BY <1>1 DEF DragStart
    <2>2. Sized' /\ Corner' = Corner
      <3>1. CASE isExpanded = TRUE
        <4>1. currentDisplayMode # "edge-tab"
          BY <3>1 DEF Sized
        <4>2. Corner = CollapsedAnchor(win, TRUE, currentDockSide) /\ Corner \in Spots
          BY <1>0, <3>1, <4>1, CornerOfSized
        <4>3. win' = BoundsForState(Corner, FALSE, currentDockSide)
          BY <1>1, <3>1, <4>2 DEF DragStart
        <4>4. CornerAt(win', currentDockSide) = Corner /\ SizeOf(win') = FullSize(currentDockSide, FALSE)
          BY <1>0, <4>2, <4>3, BoundsHaveCorner
        <4> QED
          BY <2>1, <4>1, <4>4, CornerIs DEF Sized, SizeOf
      <3>2. CASE isExpanded = FALSE
        <4>1. win' = win
          BY <1>1, <3>2 DEF DragStart
        <4> QED
          BY <2>1, <3>2, <4>1, CornerIs DEF Sized, SizeOf
      <3> QED
        BY <1>0, <3>1, <3>2
    <2> QED
      BY <2>1, <2>2 DEF Put, Drifts, Lost, Unseen
  <1>2. CASE DragEnd /\ grab.on /\ currentDisplayMode = "full"
    <2> DEFINE a == CHOOSE a \in displays : Within(a, cursor)
               t == ResolveDockTarget(cursor, a)
    <2>1. /\ currentDockSide' = t.dock /\ isExpanded' = FALSE
          /\ currentDisplayMode' = currentDisplayMode /\ win' = At(t, FullSize(t.dock, FALSE))
          /\ SaveBounds /\ visible' = visible
      BY <1>2 DEF DragEnd
    <2> HIDE DEF t
    <2>2. SizeOf(win') = FullSize(t.dock, FALSE)
      BY <2>1 DEF SizeOf, At, FullSize
    <2>3. Sized'
      BY <1>2, <2>1, <2>2 DEF Sized, SizeOf
    <2>4. grab # NotDragged
      BY <1>2 DEF NotDragged
    <2> QED
      BY <2>1, <2>3, <2>4, SavedIsCorner DEF Put, Drifts, Unseen
  <1> QED
    BY <1>1, <1>2

\* The bar goes back to where it was at first.
LEMMA ResetStays ==
  ASSUME BarTypes, BoundsTypes', ResetMiniBarDock
  PROVE  Put
  <1>1. /\ currentDockSide' = "right" /\ currentDisplayMode' = "full" /\ isExpanded' = FALSE
        /\ SaveBounds /\ visible' = visible
    BY DEF ResetMiniBarDock
  <1>2. SizeOf(win') = FullSize("right", FALSE)
    BY DEF ResetMiniBarDock, SizeOf, At, FullSize, Place
  <1>3. Sized'
    BY <1>1, <1>2 DEF Sized, SizeOf
  <1> QED
    BY <1>1, <1>3, SavedIsCorner DEF Put, Unseen

\* The bar starts with the size of its form, on a display that is there.
LEMMA StartIsSeen ==
  ASSUME CursorTypes, NEW pr \in {"remember", "left", "right"},
         NEW saved \in [x : Int, y : Int, dock : Docks, mode : Modes]
  PROVE  /\ SizeOf(StartupPosition(pr, saved)) =
              IF saved.mode = "edge-tab" THEN TabSize(StartupDock(pr, saved))
              ELSE FullSize(StartupDock(pr, saved), FALSE)
         /\ \E a \in displays : Overlaps(StartupPosition(pr, saved), a)
  <1> DEFINE near == {x \in displays : Overlaps(At(saved, FullSize("right", FALSE)), x)}
             a == StartupArea(pr, saved)
             dock == StartupDock(pr, saved)
             y == Clamp(saved.y, a.y, Bottom(a) - 340)
             anchor == Place(IF dock = "left" THEN a.x ELSE Right(a) - 80, y)
             r == StartupPosition(pr, saved)
  <1>1. dock \in {"left", "right"}
    BY DEF StartupDock
  <1>2. a \in displays
    <2>1. a = IF pr = "remember" /\ near # {} THEN CHOOSE x \in near : TRUE ELSE Primary
      BY DEF StartupArea
    <2> QED
      BY <2>1 DEF CursorTypes
  <1>3. a \in Rects /\ a.width >= 370 /\ a.height >= 370
    BY <1>2, MinibarAssumption DEF CursorTypes, Rects
  <1>4. r = IF saved.mode = "edge-tab" THEN TabBounds(anchor, dock) ELSE At(anchor, FullSize(dock, FALSE))
    BY DEF StartupPosition
  <1> HIDE DEF a, dock, r
  <1>5. y \in Int /\ a.y <= y /\ y <= Bottom(a) - 340
    <2> DEFINE hi == Bottom(a) - 340
               lo == a.y
    <2>1. saved.y \in Int /\ lo \in Int /\ hi \in Int /\ lo <= hi
      BY <1>3 DEF Rects, Bottom
    <2>2. y = Clamp(saved.y, lo, hi)
      OBVIOUS
    <2> HIDE DEF lo, hi, y
    <2>3. y \in Int /\ lo <= y /\ y <= hi
      BY <2>1, <2>2, Clamped
    <2> QED
      BY <2>3 DEF lo, hi
  <1> HIDE DEF y
  <1>6. anchor \in Spots
    BY <1>3, <1>5 DEF Place, Spots, Right, Rects
  <1>7. SizeOf(r) = IF saved.mode = "edge-tab" THEN TabSize(dock) ELSE FullSize(dock, FALSE)
    <2> HIDE DEF anchor
    <2>1. dock \in Docks
      BY <1>1 DEF Docks
    <2>2. SizeOf(TabBounds(anchor, dock)) = TabSize(dock)
      BY <1>6, <2>1, BoundsHaveCorner
    <2>3. SizeOf(At(anchor, FullSize(dock, FALSE))) = FullSize(dock, FALSE)
      BY <1>6, <2>1, BoundsHaveCorner
    <2> QED
      BY <1>4, <2>2, <2>3
  <1>8. Overlaps(r, a)
    <2>1. CASE saved.mode = "edge-tab"
      BY <1>1, <1>3, <1>4, <1>5, <2>1
         DEF TabBounds, TabShift, TabSize, Horizontal, At, Place, Overlaps, Right, Bottom, Rects
    <2>2. CASE saved.mode # "edge-tab"
      BY <1>1, <1>3, <1>4, <1>5, <2>2
         DEF FullSize, Horizontal, At, Place, Overlaps, Right, Bottom, Rects
    <2> QED
      BY <2>1, <2>2
  <1> QED
    BY <1>2, <1>7, <1>8 DEF r, dock

\* Every step of the window alone.
LEMMA WindowStays ==
  ASSUME BarTypes, PageTypes, SwitchHears, Sized, DragInv, WindowStep \/ AnyPage
  PROVE  Sized' /\ ~Unseen /\ (Lost => Restart) /\ (Drifts => ResetMiniBarDock \/ Restart)
  <1>0. BoundsTypes'
    BY WindowKeeps DEF BarTypes
  <1>1. ASSUME UNCHANGED <<placeVars>>, visible' = visible \/ visible' = FALSE
        PROVE  Put /\ ~Drifts
    <2>1. Corner' = Corner
      BY <1>1, CornerIs DEF placeVars
    <2> QED
      BY <1>1, <2>1 DEF Put, Drifts, Lost, Unseen, Sized, SizeOf, placeVars
  <1>2. CASE Receive
    <2> DEFINE m == Head(toMain)
    <2>1. /\ toMain \in Seq(Commands) /\ toMain # <<>> /\ Do(m) /\ displays' = displays
      BY <1>2 DEF Receive, BarTypes, TalkTypes, worldVars
    <2>2. m \in Commands /\ 1 \in DOMAIN toMain /\ toMain[1] = m
      BY <2>1, Heads
    <2> HIDE DEF m
    <2>3. CASE m.c = "expand"
      <3>1. m.v \in BOOLEAN /\ SetWindowExpanded(m.v)
        BY <2>1, <2>2, <2>3 DEF Commands, Do
      <3> QED
        BY <3>1, ExpandStays DEF Put
    <2>4. CASE m.c = "mode"
      <3>1. m.v \in Modes /\ SetDisplayMode(m.v)
        BY <2>1, <2>2, <2>4 DEF Commands, Do
      <3> QED
        BY <1>0, <3>1, ModeStays DEF Put
    <2>5. CASE m.c = "show"
      <3>1. m.v \in BOOLEAN /\ SetVisible(m.v)
        BY <2>1, <2>2, <2>5 DEF Commands, Do
      <3> QED
        BY <1>0, <2>1, <3>1, ShowStays DEF Put
    <2>6. CASE m.c = "start"
      BY <1>0, <2>1, <2>6, DragStays DEF Do, Put
    <2>7. CASE m.c = "end"
      <3>1. grab.on
        <4>1. ~\E i \in DOMAIN toMain : i < 1 /\ toMain[i].c = "start"
          <5>1. \A i \in DOMAIN toMain : ~(i < 1)
            BY <2>1
          <5> QED
            BY <5>1
        <4> QED
          BY <2>2, <2>7, <4>1 DEF DragInv, EndHasStart
      <3>2. currentDisplayMode = "full"
        BY <3>1 DEF DragInv, DragIsFull
      <3>3. DragEnd
        BY <2>1, <2>7 DEF Do
      <3> QED
        BY <1>0, <3>1, <3>2, <3>3, DragStays DEF Put
    <2>8. CASE m.c = "reset"
      <3>1. ResetMiniBarDock
        BY <2>1, <2>8 DEF Do
      <3> QED
        BY <1>0, <3>1, ResetStays DEF Put
    <2> QED
      BY <2>2, <2>3, <2>4, <2>5, <2>6, <2>7, <2>8 DEF Commands
  <1>3. CASE Elsewhere
    <2>1. displays' = displays
      BY <1>3 DEF Elsewhere, worldVars
    <2>2. CASE SetVisible(~visible)
      BY <1>0, <2>1, <2>2, ShowStays DEF Put, BarTypes, TalkTypes
    <2>3. CASE ResetMiniBarDock
      BY <1>0, <2>3, ResetStays DEF Put
    <2>4. CASE SetDisplayMode("full")
      BY <1>0, <2>4, ModeStays DEF Put, Modes
    <2> QED
      BY <1>3, <2>2, <2>3, <2>4 DEF Elsewhere
  <1>4. CASE UseSwitch
    <2>1. displays' = displays /\ SetVisible(~switch)
      BY <1>4 DEF UseSwitch, worldVars
    <2>2. (~switch) \in BOOLEAN
      BY DEF BarTypes, TalkTypes
    <2> QED
      BY <1>0, <2>1, <2>2, ShowStays DEF Put
  <1>5. CASE Follow
    <2>1. /\ win' = [win EXCEPT !.x = cursor.x - grab.dx, !.y = cursor.y - grab.dy] /\ grab.on /\ grab' = grab
          /\ UNCHANGED <<visible, isExpanded, currentDockSide, currentDisplayMode>>
      BY <1>5 DEF Follow
    <2>2. SizeOf(win') = SizeOf(win)
      <3>1. win'.width = win.width /\ win'.height = win.height
        BY <2>1 DEF BarTypes, BoundsTypes, Rects
      <3> QED
        BY <3>1 DEF SizeOf
    <2>3. Sized'
      BY <2>1, <2>2 DEF Sized, SizeOf
    <2> QED
      BY <2>1, <2>3 DEF Lost, Drifts, Unseen
  <1>6. CASE CloseWindow
    BY <1>1, <1>6 DEF CloseWindow, Put
  <1>7. CASE SetDockPreference
    BY <1>1, <1>7 DEF SetDockPreference, Put
  <1>8. CASE MoveCursor \/ PlugDisplays \/ HearVisibility
    BY <1>1, <1>8 DEF MoveCursor, PlugDisplays, HearVisibility, worldUnchanged, Put
  <1>9. CASE AnyPage
    BY <1>1, <1>9 DEF AnyPage, Put
  <1>10. CASE Restart
    <2>1. /\ currentDockSide' = StartupDock(preferences.dock, savedBounds)
          /\ currentDisplayMode' = savedBounds.mode /\ isExpanded' = FALSE
          /\ win' = StartupPosition(preferences.dock, savedBounds)
          /\ displays' = displays
      BY <1>10 DEF Restart, Start, worldVars
    <2>2. preferences.dock \in {"remember", "left", "right"}
      BY DEF BarTypes, TalkTypes
    <2>3. /\ SizeOf(win') = IF currentDisplayMode' = "edge-tab" THEN TabSize(currentDockSide')
                            ELSE FullSize(currentDockSide', FALSE)
          /\ \E a \in displays : Overlaps(win', a)
      BY <2>1, <2>2, StartIsSeen DEF BarTypes, BoundsTypes
    <2>4. Sized'
      BY <2>1, <2>3 DEF Sized, SizeOf
    <2> QED
      BY <1>10, <2>1, <2>3, <2>4 DEF Unseen
  <1> QED
    BY <1>2, <1>3, <1>4, <1>5, <1>6, <1>7, <1>8, <1>9, <1>10 DEF WindowStep

\* The invariant of the place, with that of the talk.
PlaceInv == BarInv /\ Sized /\ DragInv

\* The first states.
LEMMA PlaceInitially ==
  ASSUME PagesInit
  PROVE  PlaceInv
  <1>1. BarInv
    BY BarInitially
  <1>2. WindowInit /\ PageInit
    BY DEF PagesInit, MinibarInit
  <1>3. Sized
    <2>1. win = StartupPosition("remember", SavedAtFirst) /\ isExpanded = FALSE
          /\ currentDockSide = "right" /\ currentDisplayMode = "full"
      BY <1>2 DEF WindowInit
    <2>2. SavedAtFirst \in [x : Int, y : Int, dock : Docks, mode : Modes]
      <3>1. savedBounds = SavedAtFirst
        BY <1>2 DEF WindowInit
      <3> QED
        BY <1>1, <3>1 DEF BarInv, BarTypes, BoundsTypes
    <2>3. SavedAtFirst.mode = "full" /\ StartupDock("remember", SavedAtFirst) = "right"
      BY DEF SavedAtFirst, StartupDock
    <2>4. SizeOf(win) = FullSize("right", FALSE)
      BY <1>1, <2>1, <2>2, <2>3, StartIsSeen DEF BarInv, BarTypes
    <2> QED
      BY <2>1, <2>4 DEF Sized
  <1>4. DragInv
    <2>1. toMain = <<>> /\ page.held = FALSE /\ grab.on = FALSE
      BY <1>2 DEF WindowInit, PageInit, FreshPage, NotDragged
    <2>2. NoneOf(toMain, {"start", "end"})
      BY <2>1 DEF NoneOf
    <2> QED
      BY <2>1, <2>2 DEF DragInv, DragIsFull, EndLast, EndHasStart
  <1> QED
    BY <1>1, <1>3, <1>4 DEF PlaceInv

\* Every step keeps the invariant, and leaves the bar where it was put.
LEMMA PlaceKept ==
  ASSUME PlaceInv, [PagesNext]_vars
  PROVE  /\ PlaceInv' /\ ~Unseen /\ (Lost => Restart) /\ (Drifts => ResetMiniBarDock \/ Restart)
  <1>0. BarInv' /\ BarTypes /\ PageTypes /\ SwitchHears /\ CardFollowsTarget /\ Sized /\ DragInv /\ BarInv
    BY BarKept DEF PlaceInv, BarInv
  <1>1. ASSUME UNCHANGED placeVars, visible' = visible
        PROVE  Sized' /\ ~Unseen /\ ~Lost /\ ~Drifts
    <2>1. Corner' = Corner
      BY <1>1, CornerIs DEF placeVars
    <2> QED
      BY <1>0, <1>1, <2>1 DEF Drifts, Lost, Unseen, Sized, SizeOf, placeVars
  <1>2. CASE part = "bar" /\ BarNext /\ Only("bar")
    <2>1. part' = part
      BY <1>2 DEF Only
    <2>2. CASE PageStep
      <3>1. DragInv'
        BY <1>0, <1>2, <2>1, <2>2, PageDrags DEF BarInv
      <3>2. UNCHANGED placeVars /\ visible' = visible
        BY <2>2 DEF PageStep, pageFrame
      <3> QED
        BY <1>0, <1>1, <3>1, <3>2 DEF PlaceInv
    <2>3. CASE (BarMain /\ UNCHANGED pageVars) \/ HearSwitch
      <3>1. page' = page /\ (Receive \/ Elsewhere \/ HearVisibility)
        BY <2>3 DEF BarMain, HearSwitch, pageVars
      <3>2. DragInv'
        <4>1. CASE Receive
          BY <1>0, <2>1, <3>1, <4>1, ReceiveDrags
        <4>2. CASE Elsewhere \/ HearVisibility
          <5>1. toMain' = toMain /\ grab' = grab
            BY <1>0, <4>2, ElsewhereDone DEF HearVisibility, worldUnchanged
          <5>2. currentDisplayMode' = "full" \/ currentDisplayMode' = currentDisplayMode
            BY <4>2 DEF Elsewhere, SetVisible, Reveal, EnsureOnScreen, ResetMiniBarDock, SetDisplayMode,
                        HearVisibility, worldUnchanged, placeVars
          <5> QED
            BY <1>0, <2>1, <3>1, <5>1, <5>2 DEF DragInv, DragIsFull, EndHasStart
        <4> QED
          BY <3>1, <4>1, <4>2
      <3>3. Sized' /\ ~Unseen /\ (Lost => Restart) /\ (Drifts => ResetMiniBarDock \/ Restart)
        BY <1>0, <3>1, WindowStays DEF WindowStep
      <3> QED
        BY <1>0, <3>2, <3>3 DEF PlaceInv
    <2> QED
      BY <1>2, <2>2, <2>3 DEF BarNext
  <1>3. CASE part = "window" /\ WindowNext /\ Only("window")
    <2>1. page' = page /\ part' = part /\ (AnyPage \/ WindowStep)
      BY <1>3 DEF WindowNext, pageVars, Only
    <2>2. DragInv'
      BY <1>0, <1>3, <2>1, WindowDrags
    <2>3. Sized' /\ ~Unseen /\ (Lost => Restart) /\ (Drifts => ResetMiniBarDock \/ Restart)
      BY <1>0, <2>1, WindowStays
    <2> QED
      BY <1>0, <2>2, <2>3 DEF PlaceInv
  <1>4. ASSUME UNCHANGED minibarVars, UNCHANGED part
        PROVE  PlaceInv' /\ ~Unseen /\ ~Lost /\ ~Drifts
    <2>1. UNCHANGED windowVars /\ page' = page
      BY <1>4 DEF minibarVars, pageVars
    <2>2. DragInv'
      BY <1>0, <1>4, <2>1 DEF DragInv, DragIsFull, EndHasStart, windowVars
    <2>3. UNCHANGED placeVars /\ visible' = visible
      BY <2>1 DEF windowVars, placeVars
    <2> QED
      BY <1>0, <1>1, <2>2, <2>3 DEF PlaceInv
  <1>5. CASE UNCHANGED vars
    BY <1>4, <1>5 DEF vars
  <1>6. CASE part = "config" /\ ConfigNext /\ Only("config")
    BY <1>4, <1>6 DEF Only
  <1>7. CASE part = "setup" /\ SetupNext /\ Only("setup")
    BY <1>4, <1>7 DEF Only
  <1> QED
    BY <1>2, <1>3, <1>5, <1>6, <1>7 DEF PagesNext

\* The bar is where the user put it, and on a screen.
THEOREM BarIsPut == PagesSpec => BarStaysPut
  <1>1. PagesSpec => []PlaceInv
    BY PlaceInitially, PlaceKept, PTL DEF PagesSpec
  <1>2. ASSUME PlaceInv, [PagesNext]_vars
        PROVE  [/\ isExpanded' # isExpanded \/ currentDisplayMode' # currentDisplayMode
                /\ currentDockSide' = currentDockSide /\ grab = NotDragged
                /\ \E a \in displays : AtEdge(a) /\ OnlyOn(a)
                => Corner' = Corner \/ ResetMiniBarDock \/ Restart]_windowVars
    BY <1>2, PlaceKept DEF Drifts, OnOneDisplay
  <1>3. ASSUME PlaceInv, [PagesNext]_vars
        PROVE  [~Restart /\ ~grab.on' /\ (Corner' # Corner \/ currentDockSide' # currentDockSide
                                         \/ currentDisplayMode' # currentDisplayMode)
                => savedBounds' = [x |-> Corner'.x, y |-> Corner'.y,
                                   dock |-> currentDockSide', mode |-> currentDisplayMode']]_windowVars
    BY <1>3, PlaceKept DEF Lost
  <1>4. ASSUME PlaceInv, [PagesNext]_vars
        PROVE  [~visible /\ visible' => \E a \in displays' : Overlaps(win', a)]_windowVars
    BY <1>4, PlaceKept DEF Unseen
  <1> QED
    BY <1>1, <1>2, <1>3, <1>4, PTL DEF PagesSpec, BarStaysPut, BarDoesNotDrift, MovesAreSaved, ShownOnScreen

=============================================================================
