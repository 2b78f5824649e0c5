-------------------------- MODULE WatchfacePreviews --------------------------
(***************************************************************************)
(* The pictures of the watchfaces: WatchfacePreviewStore, an index and one *)
(* file per watchface, and WatchfacePreviewService, which fills it from    *)
(* the pictures the user chooses, the .bin files of the seed directories,  *)
(* and the .bin files that are installed, and reads it for the page.       *)
(*                                                                         *)
(* The store's calls are synchronous, so each is one step; every await of  *)
(* the service is a place where the steps of the other calls come in.      *)
(* A picture is named by the hash of the .bin it comes from, or Manual; an *)
(* mtime by the number of the write.  Not modelled: limits on sizes, and   *)
(* pictures nativeImage cannot decode (the call then changes nothing).     *)
(***************************************************************************)
EXTENDS Naturals, FiniteSets

CONSTANTS
  Ids,        \* identifiers of watchfaces
  Faces,      \* those the band gives its own
  Zero,       \* the placeholder 000000000 of a .bin without one
  Names,
  Bins,       \* .bin files: [id |-> embedded, name, hash]
  SeedSets,   \* what the seed directories may hold
  Devices,    \* the names the band may give its watchfaces
  MaxWrites,  \* bound: files written to the store
  MaxStarts   \* bound: starts of the application

ASSUME WatchfacePreviewsAssumption ==
  /\ Faces \subseteq Ids /\ Zero \in Ids \ Faces
  /\ Bins \subseteq [id : Ids, name : Names, hash : Nat \ {0}]
  /\ SeedSets \subseteq SUBSET Bins /\ Devices \subseteq [Faces -> Names \cup {"none"}]
  /\ MaxWrites \in Nat /\ MaxStarts \in Nat

VARIABLES
  seeds,    \* the .bin files in the seed directories
  device,   \* the names of the watchfaces on the band
  index,    \* index.json
  files,    \* the .png files: [pic, at]
  writes,   \* files written so far
  urls,     \* dataUrlCache
  pending,  \* pendingZeroCandidates
  unscanned,  \* what runBackgroundPreparation has still to look at
  calls,    \* the calls of toView for list and setFromFile
  preparing,  \* prepareFromBin, while it reads its file
  aligning,   \* reconcileInstalledWatchfaces, while it waits for the scan
  starts,
  \* Read by properties only:
  torn      \* a crash came between the picture and the index

previewVars == <<seeds, device, index, files, writes, urls, pending, unscanned, calls,
                 preparing, aligning, starts, torn>>
disk == <<index, files, writes>>
outside == <<seeds, device, starts>>

Manual == 0
NoName == "none"
NoEntry == [source |-> "none", hash |-> 0, name |-> NoName]
NoFile == [pic |-> 0, at |-> 0]
Quiet == [at |-> "idle", todo |-> {}, id |-> Zero, mtime |-> 0, pic |-> 0]
NotPreparing == [id |-> Zero, bin |-> 0, seen |-> NoEntry]

PreviewsInit ==
  /\ seeds \in SeedSets
  /\ device \in Devices
  /\ index = [i \in Ids |-> NoEntry] /\ files = [i \in Ids |-> NoFile]
  /\ writes = 0 /\ urls = [i \in Ids |-> NoFile]
  /\ pending = {} /\ unscanned = seeds
  /\ calls = [c \in {"list", "set"} |-> Quiet]
  /\ preparing = NotPreparing /\ aligning = FALSE
  /\ starts = 1 /\ torn = {}

-----------------------------------------------------------------------------
(* WatchfacePreviewStore *)

GetEntry(id) == IF files[id] = NoFile THEN NoEntry ELSE index[id]
Listed == {i \in Ids : GetEntry(i) # NoEntry}

\* The picture first, then the index.
Set(id, pic, entry) ==
  /\ writes < MaxWrites
  /\ writes' = writes + 1
  /\ files' = [files EXCEPT ![id] = [pic |-> pic, at |-> writes + 1]]
  /\ index' = [index EXCEPT ![id] = entry]
  /\ torn' = torn \ {id}

AutoEntry(bin) == [source |-> "auto", hash |-> bin.hash, name |-> bin.name]

\* The process ends between the two.
DiesWriting(id, pic) ==
  /\ writes < MaxWrites
  /\ writes' = writes + 1
  /\ files' = [files EXCEPT ![id] = [pic |-> pic, at |-> writes + 1]]
  /\ torn' = torn \cup {id}
  /\ UNCHANGED index

-----------------------------------------------------------------------------
(* toView, for list and for setFromFile *)

\* Look the watchface up and ask for the mtime of its file; its entry may be gone.
Cached(id, mtime) == urls[id] # NoFile /\ urls[id].at = mtime

\* list: after the scan and the alignment, one watchface after the other.
List ==
  /\ calls["list"].at = "idle" /\ unscanned = {} /\ ~aligning
  /\ Listed # {}
  /\ calls' = [calls EXCEPT !["list"] = [Quiet EXCEPT !.at = "next", !.todo = Listed]]
  /\ UNCHANGED <<disk, urls, pending, unscanned, preparing, aligning, outside, torn>>

ToView ==
  /\ calls["list"].at = "next"
  /\ LET id == CHOOSE i \in calls["list"].todo : TRUE
         rest == calls["list"].todo \ {id}
     IN IF GetEntry(id) = NoEntry
          THEN /\ urls' = [urls EXCEPT ![id] = NoFile]
               /\ calls' = [calls EXCEPT !["list"] =
                    IF rest = {} THEN Quiet ELSE [@ EXCEPT !.todo = rest]]
          ELSE /\ calls' = [calls EXCEPT !["list"] =
                    [@ EXCEPT !.at = "stat", !.todo = rest, !.id = id]]
               /\ UNCHANGED urls
  /\ UNCHANGED <<disk, pending, unscanned, preparing, aligning, outside, torn>>

Stat(c) ==
  /\ calls[c].at = "stat"
  /\ calls' = [calls EXCEPT ![c] =
       [@ EXCEPT !.at = "read", !.mtime = files[calls[c].id].at]]
  /\ UNCHANGED <<disk, urls, pending, unscanned, preparing, aligning, outside, torn>>

Viewed(c) ==
  IF calls[c].todo = {} THEN Quiet ELSE [Quiet EXCEPT !.at = "next", !.todo = calls[c].todo]

\* No file: null at the stat; an error of the whole call at the read.
ReadPicture(c) ==
  /\ calls[c].at = "read"
  /\ LET id == calls[c].id
         mtime == calls[c].mtime
     IN IF mtime = 0
        THEN urls' = [urls EXCEPT ![id] = NoFile] /\ calls' = [calls EXCEPT ![c] = Viewed(c)]
        ELSE /\ calls' = [calls EXCEPT ![c] =
                  IF Cached(id, mtime) THEN Viewed(c)
                  ELSE IF files[id] = NoFile THEN Quiet
                  ELSE [@ EXCEPT !.at = "keep", !.pic = files[id].pic]]
             /\ UNCHANGED urls
  /\ UNCHANGED <<disk, pending, unscanned, preparing, aligning, outside, torn>>

\* Mutant: kept under the mtime the file has by now.
KeepUrl_Now(c) ==
  /\ calls[c].at = "keep"
  /\ urls' = [urls EXCEPT ![calls[c].id] =
       [pic |-> calls[c].pic, at |-> files[calls[c].id].at]]
  /\ calls' = [calls EXCEPT ![c] = Viewed(c)]
  /\ UNCHANGED <<disk, pending, unscanned, preparing, aligning, outside, torn>>
KeepUrl(c) ==
  /\ calls[c].at = "keep"
  /\ urls' = [urls EXCEPT ![calls[c].id] = [pic |-> calls[c].pic, at |-> calls[c].mtime]]
  /\ calls' = [calls EXCEPT ![c] = Viewed(c)]
  /\ UNCHANGED <<disk, pending, unscanned, preparing, aligning, outside, torn>>

-----------------------------------------------------------------------------
(* The user's calls *)

SetFromFile(id) ==
  /\ calls["set"].at = "idle"
  /\ Set(id, Manual, [source |-> "manual", hash |-> 0, name |-> NoName])
  /\ urls' = [urls EXCEPT ![id] = NoFile]
  /\ calls' = [calls EXCEPT !["set"] = [Quiet EXCEPT !.at = "stat", !.id = id]]
  /\ UNCHANGED <<pending, unscanned, preparing, aligning, outside>>

Clear(id) ==
  /\ index[id] # NoEntry
  /\ urls' = [urls EXCEPT ![id] = NoFile]
  /\ index' = [index EXCEPT ![id] = NoEntry]
  /\ files' = [files EXCEPT ![id] = NoFile]
  /\ torn' = torn \ {id}
  /\ UNCHANGED <<writes, pending, unscanned, calls, preparing, aligning, outside>>

-----------------------------------------------------------------------------
(* Pictures taken from .bin files *)

ShouldPrepareAutoPreview(entry, hash) ==
  entry.source # "manual" /\ (entry = NoEntry \/ entry.hash # hash)

AlreadyCached(hash) ==
  \E i \in Listed : index[i].source = "auto" /\ index[i].hash = hash

\* runBackgroundPreparation, one .bin.
ScanZero(bin) ==
  /\ bin.id = Zero
  /\ pending' = IF AlreadyCached(bin.hash) THEN pending ELSE pending \cup {bin}
  /\ UNCHANGED <<disk, urls, torn>>

ScanNamed(bin) ==
  /\ bin.id # Zero
  /\ LET old == GetEntry(bin.id)
     IN IF ShouldPrepareAutoPreview(old, bin.hash)
        THEN /\ Set(bin.id, bin.hash, AutoEntry(bin))
             /\ urls' = [urls EXCEPT ![bin.id] = NoFile]
        ELSE /\ index' = IF old.name = NoName
                         THEN [index EXCEPT ![bin.id].name = bin.name] ELSE index
             /\ UNCHANGED <<files, writes, urls, torn>>
  /\ UNCHANGED pending

RunBackgroundPreparation ==
  /\ \E bin \in unscanned :
       /\ unscanned' = unscanned \ {bin}
       /\ ScanZero(bin) \/ ScanNamed(bin)
  /\ UNCHANGED <<calls, preparing, aligning, outside>>

\* install has put the .bin on the band, which names it `id`.
PrepareFromBin(id, bin) ==
  /\ preparing = NotPreparing
  /\ bin.id \in {id, Zero} /\ device[id] \in {bin.name, NoName}
  /\ device' = [device EXCEPT ![id] = bin.name]
  /\ preparing' = IF ShouldPrepareAutoPreview(GetEntry(id), bin.hash)
                  THEN [id |-> id, bin |-> bin.hash, seen |-> GetEntry(id)] ELSE preparing
  /\ UNCHANGED <<seeds, starts, disk, urls, pending, unscanned, calls, aligning, torn>>

\* The file is read: what was there before the reading decides.
Prepared ==
  /\ preparing # NotPreparing
  /\ preparing' = NotPreparing
  /\ \E bin \in Bins :
       /\ bin.hash = preparing.bin
       /\ IF ShouldPrepareAutoPreview(preparing.seen, bin.hash)
          THEN /\ Set(preparing.id, bin.hash, AutoEntry(bin))
               /\ urls' = [urls EXCEPT ![preparing.id] = NoFile]
          ELSE UNCHANGED <<disk, urls, torn>>
  /\ UNCHANGED <<pending, unscanned, calls, aligning, outside>>

\* The file cannot be read or decoded.
PrepareFails ==
  /\ preparing # NotPreparing
  /\ preparing' = NotPreparing
  /\ UNCHANGED <<disk, urls, pending, unscanned, calls, aligning, outside, torn>>

-----------------------------------------------------------------------------
(* reconcileInstalledWatchfaces: pictures by a name that is unique on both *)
(* sides.                                                                  *)

ReconcileInstalledWatchfaces ==
  /\ ~aligning /\ aligning' = TRUE
  /\ UNCHANGED <<disk, urls, pending, unscanned, calls, preparing, outside, torn>>

StoredCandidates(name) ==
  {i \in Listed \ {Zero} : index[i].source = "auto" /\ index[i].name = name}
PendingCandidates(name) == {bin \in pending : bin.name = name /\ ~AlreadyCached(bin.hash)}

Matched ==
  {d \in Faces :
     /\ device[d] # NoName
     /\ GetEntry(d) = NoEntry
     /\ \A other \in Faces \ {d} : device[other] # device[d]
     /\ Cardinality(StoredCandidates(device[d])) + Cardinality(PendingCandidates(device[d])) = 1}

\* The hash and the picture of the one candidate.
HashFor(name) ==
  IF StoredCandidates(name) # {} THEN index[CHOOSE i \in StoredCandidates(name) : TRUE].hash
  ELSE (CHOOSE bin \in PendingCandidates(name) : TRUE).hash
PictureFor(name) ==
  IF StoredCandidates(name) # {} THEN files[CHOOSE i \in StoredCandidates(name) : TRUE].pic
  ELSE HashFor(name)

TornFor(name) == StoredCandidates(name) \cap torn # {}

Align ==
  /\ aligning /\ unscanned = {}
  /\ aligning' = FALSE
  /\ writes + (IF Matched = {} THEN 0 ELSE 1) <= MaxWrites
  /\ writes' = writes + (IF Matched = {} THEN 0 ELSE 1)
  /\ index' = [i \in Ids |->
       IF i \in Matched
       THEN [source |-> "auto", hash |-> HashFor(device[i]), name |-> device[i]] ELSE index[i]]
  /\ files' = [i \in Ids |->
       IF i \in Matched THEN [pic |-> PictureFor(device[i]), at |-> writes + 1] ELSE files[i]]
  /\ urls' = [i \in Ids |-> IF i \in Matched THEN NoFile ELSE urls[i]]
  /\ torn' = (torn \ Matched) \cup {i \in Matched : TornFor(device[i])}
  /\ UNCHANGED <<pending, unscanned, calls, preparing, outside>>

-----------------------------------------------------------------------------
\* The application ends, in the middle of a write or not, and starts again; the
\* .bin files may be others by then.
Restart ==
  /\ starts < MaxStarts
  /\ starts' = starts + 1
  /\ \/ UNCHANGED <<disk, torn>>
     \/ \E id \in Faces : calls["set"].at = "idle" /\ DiesWriting(id, Manual)
     \/ \E bin \in unscanned :
          /\ bin.id # Zero /\ ShouldPrepareAutoPreview(GetEntry(bin.id), bin.hash)
          /\ DiesWriting(bin.id, bin.hash)
  /\ seeds' \in SeedSets
  /\ unscanned' = seeds'
  /\ urls' = [i \in Ids |-> NoFile] /\ pending' = {}
  /\ calls' = [c \in {"list", "set"} |-> Quiet]
  /\ preparing' = NotPreparing /\ aligning' = FALSE
  /\ UNCHANGED device

ViewStep == ToView \/ \E c \in {"list", "set"} : Stat(c) \/ ReadPicture(c) \/ KeepUrl(c)

PreviewsNext ==
  \/ List \/ ViewStep
  \/ \E id \in Faces : SetFromFile(id) \/ Clear(id)
  \/ RunBackgroundPreparation
  \/ \E id \in Faces, bin \in Bins : PrepareFromBin(id, bin)
  \/ Prepared \/ PrepareFails
  \/ ReconcileInstalledWatchfaces \/ Align
  \/ Restart

-----------------------------------------------------------------------------
\* The cached address that the next list would use is the picture in the file,
\* whichever call read it and whatever was stored between its stat and its read
\* (watchface-preview-service.ts:96-134).
CacheIsCurrent ==
  \A i \in Ids :
    (urls[i] # NoFile /\ urls[i].at = files[i].at) => urls[i].pic = files[i].pic

\* What the index says of a picture is true of it, unless a crash came between the
\* two writes: from where it is decides whether it may be replaced.
IndexIsTrue ==
  \A i \in Listed \ torn :
    files[i].pic = (IF index[i].source = "manual" THEN Manual ELSE index[i].hash)

\* After the scan a watchface that a .bin names has a picture of such a .bin as it
\* is now, of the one that was installed, or the user's
\* (watchface-preview-service.ts:384-413, restarts and changed files included).
ScanIsFresh ==
  (unscanned = {} /\ preparing = NotPreparing) =>
    \A bin \in seeds :
      (bin.id \notin Faces \cup {Zero}) =>
        \E now \in seeds : now.id = bin.id /\ GetEntry(bin.id).hash = now.hash

PreviewsAreRight == CacheIsCurrent /\ IndexIsTrue /\ ScanIsFresh

\* A picture from a .bin never takes the place of the user's
\* (watchface-preview-service.ts:8-9).
ManualIsKept ==
  [][\A i \in Ids : index[i].source = "manual" => index'[i].source # "auto"]_index
=============================================================================
