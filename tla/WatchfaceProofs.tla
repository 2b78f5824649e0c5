--------------------------- MODULE WatchfaceProofs ---------------------------
(***************************************************************************)
(* Proofs about the watchfaces: the store of pictures, for any watchfaces, *)
(* .bin files and seed directories and any number of writes, crashes and   *)
(* starts; the page, for any number of calls, mounts and answers in any    *)
(* order; and the decoder of a picture, for packets of any number, counts  *)
(* and pixels.  The specification is that of the run: each step is of one  *)
(* part.                                                                   *)
(***************************************************************************)
EXTENDS MCWatchface, WellFoundedInduction, FiniteSetTheorems, SequenceTheorems, TLAPS

(***************************************************************************)
(* The pictures                                                            *)
(***************************************************************************)
Entries == [source : {"none", "auto", "manual"}, hash : Nat, name : Names \cup {NoName}]
Pictures == [pic : Nat, at : Nat]
ViewCalls ==
  [at : {"idle", "next", "stat", "read", "keep"}, todo : SUBSET Ids, id : Ids,
   mtime : Nat, pic : Nat]

PreviewTypes ==
  /\ seeds \subseteq Bins /\ unscanned \subseteq seeds /\ pending \subseteq Bins
  /\ device \in [Faces -> Names \cup {NoName}]
  /\ index \in [Ids -> Entries]
  /\ files \in [Ids -> Pictures] /\ urls \in [Ids -> Pictures]
  /\ writes \in Nat
  /\ calls \in [{"list", "set"} -> ViewCalls]
  /\ preparing \in [id : Faces \cup {Zero}, bin : Nat, seen : Entries]
  /\ (preparing # NotPreparing => preparing.id \in Faces)

\* Times are those of writes that were made.
TimesArePast ==
  /\ \A i \in Ids : files[i].at <= writes /\ urls[i].at <= writes
  /\ \A c \in {"list", "set"} : calls[c].mtime <= writes

\* An address that is kept was read from a file, not from a missing one.
AddressesAreOfFiles ==
  /\ \A i \in Ids : urls[i].at = 0 => urls[i] = NoFile
  /\ \A c \in {"list", "set"} : calls[c].at = "keep" => calls[c].mtime # 0

\* What a call is about to keep under the time it was told is the picture of that
\* time, if the file still is.
KeptIsCurrent ==
  \A c \in {"list", "set"} :
    calls[c].at = "keep" /\ calls[c].mtime = files[calls[c].id].at =>
      calls[c].pic = files[calls[c].id].pic

TodoIsLeft == \A c \in {"list", "set"} : calls[c].at = "next" => calls[c].todo # {}

CacheInv == TimesArePast /\ AddressesAreOfFiles /\ KeptIsCurrent /\ TodoIsLeft /\ CacheIsCurrent

\* A picture of the user's is of a watchface the band names.
ManualIsOfFace == \A i \in Ids : index[i].source = "manual" => i \in Faces

\* A .bin the scan has looked at left a picture of a .bin of its name.
ScannedIsFresh ==
  \A bin \in seeds \ unscanned :
    bin.id \notin Faces \cup {Zero} =>
      \E now \in seeds : now.id = bin.id /\ GetEntry(bin.id).hash = now.hash

PreviewInv ==
  /\ PreviewTypes /\ CacheInv
  /\ ManualIsOfFace /\ ScannedIsFresh
  /\ IndexIsTrue

(***************************************************************************)
(* The page                                                                *)
(***************************************************************************)
Changes == {"set", "install"}
Operations == {"list"} \cup Changes
Shows == PageFaces \cup {"none"}
CallRecords ==
  [op : Operations, face : Shows, why : {"busy", "after"}, mount : Nat, given : BOOLEAN]
AnswerRecords ==
  [op : Operations, face : Shows, why : {"busy", "after"}, mount : Nat, ok : BOOLEAN,
   has : SUBSET PageFaces, cur : Shows]

PageTypes ==
  /\ onBand \in [has : SUBSET PageFaces, cur : Shows]
  /\ page \in [mount : Nat, open : BOOLEAN, connected : BOOLEAN, busy : BOOLEAN,
               items : [has : SUBSET PageFaces, cur : Shows], error : BOOLEAN]
  /\ wire \in Seq(CallRecords)
  /\ answers \subseteq AnswerRecords
  /\ excused \in BOOLEAN /\ linked \in BOOLEAN

\* Only an install is followed by a list that does not hold the flag, and no call is
\* of a mount to come.
CallFits(c) ==
  /\ (c.why = "after" => c.op = "list") /\ c.mount <= page.mount
  /\ (c.op \in Changes => c.face \in PageFaces)
CallsFit == (\A i \in DOMAIN wire : CallFits(wire[i])) /\ (\A a \in answers : CallFits(a))

\* What holds the flag: a call, or its answer.
WireHolds(i) == i \in DOMAIN wire /\ ~wire[i].given /\ Holding(wire[i])
AnswerHolds(a) == a \in answers /\ Holding(a)

OneHolds ==
  page.open =>
    /\ \A i, j \in DOMAIN wire : WireHolds(i) /\ WireHolds(j) => i = j
    /\ \A a, b \in answers : AnswerHolds(a) /\ AnswerHolds(b) => a = b
    /\ \A i \in DOMAIN wire, a \in answers : ~(WireHolds(i) /\ AnswerHolds(a))
    /\ page.busy <=> (\E i \in DOMAIN wire : WireHolds(i)) \/ (\E a \in answers : AnswerHolds(a))

\* A list of this page that was answered is of the band as it is.
ListsAreCurrent ==
  \A a \in answers : Ours(a) /\ a.ok /\ a.op = "list" => onBand = [has |-> a.has, cur |-> a.cur]

\* No set and no install is out beside the list that follows an install.
ChangeIsOut ==
  \/ \E i \in DOMAIN wire : WireHolds(i) /\ wire[i].op \in Changes
  \/ \E a \in answers : AnswerHolds(a) /\ a.op \in Changes
AfterIsOut ==
  \/ \E i \in DOMAIN wire : Ours(wire[i]) /\ wire[i].why = "after"
  \/ \E a \in answers : Ours(a) /\ a.why = "after"

\* The page shows the band, or is told of it by what is out.
ListIsOut ==
  \/ \E i \in DOMAIN wire : ~wire[i].given /\ Ours(wire[i]) /\ wire[i].op = "list"
  \/ \E a \in answers : Ours(a) /\ a.op = "list"
Tells(a) ==
  /\ Ours(a) /\ a.ok
  /\ \/ a.op = "install"
     \/ /\ a.op = "set" /\ a.face \in page.items.has
        /\ onBand = [has |-> page.items.has, cur |-> a.face]
Done(a) == Ours(a) /\ a.ok /\ a.op \in Changes
IsTold ==
  \/ ListIsOut
  \/ \E a \in answers : Tells(a)
  \/ page.items = onBand /\ \A a \in answers : ~Done(a)

PageWillShow ==
  page.open /\ ~excused =>
    /\ ListsAreCurrent
    /\ ~(ChangeIsOut /\ AfterIsOut)
    /\ ~page.error /\ (page.connected \/ page.busy) => IsTold

PageInv == PageTypes /\ CallsFit /\ OneHolds /\ PageWillShow

-----------------------------------------------------------------------------
(***************************************************************************)
(* Steps of the store                                                      *)
(***************************************************************************)
\* The fixed records are of their types.
LEMMA FixedRecords ==
  /\ NoEntry \in Entries /\ NoFile \in Pictures /\ Quiet \in ViewCalls
  /\ NoFile.at = 0 /\ NoFile.pic = 0
  /\ Quiet.at = "idle" /\ Quiet.mtime = 0 /\ Quiet.todo = {}
  /\ NotPreparing \in [id : Faces \cup {Zero}, bin : Nat, seen : Entries]
  BY WatchfacePreviewsAssumption
  DEF NoEntry, Entries, NoFile, Pictures, Quiet, ViewCalls, NotPreparing

\* What the store and the addresses may become in a step that writes: the address of
\* a picture that changes is dropped, and its time is new.
Written(i) ==
  /\ urls'[i] = NoFile
  /\ files'[i].at = 0 \/ (files'[i].at = writes' /\ writes' > writes)
Kept(i) == files'[i] = files[i] /\ (urls'[i] = urls[i] \/ urls'[i] = NoFile)
CallIsKept(c) ==
  calls'[c] = calls[c] \/ (calls'[c].at \in {"idle", "stat"} /\ calls'[c].mtime = 0)

\* Such a step keeps what is said of the addresses.
LEMMA WritesKeepCache ==
  ASSUME PreviewInv, writes' \in Nat, writes <= writes',
         \A i \in Ids : Written(i) \/ Kept(i),
         \A c \in {"list", "set"} : CallIsKept(c)
  PROVE  CacheInv'
  <1> USE FixedRecords DEF PreviewInv, CacheInv, PreviewTypes, ViewCalls, Pictures
  <1>1. TimesArePast'
    <2>1. ASSUME NEW i \in Ids
          PROVE  files'[i].at <= writes' /\ urls'[i].at <= writes'
      <3>1. files[i].at \in Nat /\ urls[i].at \in Nat /\ files[i].at <= writes /\ urls[i].at <= writes
        BY DEF TimesArePast
      <3> QED
        BY <3>1 DEF Written, Kept
    <2>2. ASSUME NEW c \in {"list", "set"}
          PROVE  calls'[c].mtime <= writes'
      <3>1. calls[c].mtime \in Nat /\ calls[c].mtime <= writes
        BY DEF TimesArePast
      <3> QED
        BY <3>1 DEF CallIsKept
    <2> QED
      BY <2>1, <2>2 DEF TimesArePast
  <1>2. AddressesAreOfFiles'
    BY DEF AddressesAreOfFiles, Written, Kept, CallIsKept
  <1>3. KeptIsCurrent'
    <2> SUFFICES ASSUME NEW c \in {"list", "set"}, calls'[c].at = "keep",
                        calls'[c].mtime = files'[calls'[c].id].at
                 PROVE  calls'[c].pic = files'[calls'[c].id].pic
      BY DEF KeptIsCurrent
    <2>1. calls'[c] = calls[c] /\ calls[c].id \in Ids /\ calls[c].mtime \in Nat
      BY DEF CallIsKept
    <2>2. calls[c].mtime # 0 /\ calls[c].mtime <= writes
      BY <2>1 DEF AddressesAreOfFiles, TimesArePast
    <2>3. files'[calls[c].id] = files[calls[c].id]
      BY <2>1, <2>2 DEF Written, Kept
    <2> QED
      BY <2>1, <2>3 DEF KeptIsCurrent
  <1>4. TodoIsLeft'
    BY DEF TodoIsLeft, CallIsKept
  <1>5. CacheIsCurrent'
    <2> SUFFICES ASSUME NEW i \in Ids, urls'[i] # NoFile, urls'[i].at = files'[i].at
                 PROVE  urls'[i].pic = files'[i].pic
      BY DEF CacheIsCurrent
    <2> QED
      BY DEF CacheIsCurrent, Written, Kept
  <1> QED
    BY <1>1, <1>2, <1>3, <1>4, <1>5

\* The index is true of one watchface.
EntryIsTrue(i) ==
  GetEntry(i) # NoEntry /\ i \notin torn =>
    files[i].pic = (IF index[i].source = "manual" THEN Manual ELSE index[i].hash)

\* The index is true when it is of each.
LEMMA IndexOneByOne == IndexIsTrue <=> \A i \in Ids : EntryIsTrue(i)
  BY DEF IndexIsTrue, EntryIsTrue, Listed

\* Where nothing is written, and no mark of a crash is taken back, it stays true.
LEMMA EntryStaysTrue ==
  ASSUME NEW i \in Ids, EntryIsTrue(i), index'[i] = index[i], files'[i] = files[i],
         i \in torn => i \in torn'
  PROVE  EntryIsTrue(i)'
  BY DEF EntryIsTrue, GetEntry

\* What a scanned .bin left stays while the watchfaces the band does not name keep
\* their pictures.
LEMMA ScanStaysFresh ==
  ASSUME ScannedIsFresh, seeds' = seeds, seeds' \ unscanned' \subseteq seeds \ unscanned,
         seeds \subseteq Bins,
         \A i \in Ids \ (Faces \cup {Zero}) : index'[i] = index[i] /\ files'[i] = files[i]
  PROVE  ScannedIsFresh'
  BY WatchfacePreviewsAssumption DEF ScannedIsFresh, GetEntry

\* A write of a picture with its entry, whose address is dropped.
LEMMA SetKeeps ==
  ASSUME PreviewInv, NEW id \in Ids, NEW pic \in Nat, NEW entry \in Entries, Set(id, pic, entry),
         pic = (IF entry.source = "manual" THEN Manual ELSE entry.hash),
         urls' = [urls EXCEPT ![id] = NoFile],
         \A c \in {"list", "set"} : CallIsKept(c)
  PROVE  /\ CacheInv' /\ IndexIsTrue'
         /\ index' = [index EXCEPT ![id] = entry] /\ index' \in [Ids -> Entries]
         /\ files' \in [Ids -> Pictures] /\ urls' \in [Ids -> Pictures] /\ writes' \in Nat
         /\ GetEntry(id)' = entry
         /\ \A i \in Ids \ {id} : index'[i] = index[i] /\ files'[i] = files[i]
  <1>0. PreviewTypes /\ IndexIsTrue
    BY DEF PreviewInv
  <1>1. /\ writes' = writes + 1 /\ writes \in Nat
        /\ files' = [files EXCEPT ![id] = [pic |-> pic, at |-> writes + 1]]
        /\ index' = [index EXCEPT ![id] = entry] /\ torn' = torn \ {id}
    BY <1>0 DEF Set, PreviewTypes
  <1>2. /\ index' \in [Ids -> Entries] /\ files' \in [Ids -> Pictures]
        /\ urls' \in [Ids -> Pictures] /\ writes' \in Nat
    BY <1>0, <1>1, FixedRecords DEF PreviewTypes, Pictures
  <1>3. \A i \in Ids : Written(i) \/ Kept(i)
    BY <1>0, <1>1 DEF PreviewTypes, Written, Kept
  <1>4. CacheInv'
    BY <1>1, <1>3, WritesKeepCache
  <1>5. files'[id].pic = pic /\ files'[id].at # 0 /\ index'[id] = entry
    BY <1>0, <1>1 DEF PreviewTypes
  <1>6. GetEntry(id)' = entry
    BY <1>5, FixedRecords DEF GetEntry
  <1>7. \A i \in Ids \ {id} : index'[i] = index[i] /\ files'[i] = files[i] /\ (i \in torn => i \in torn')
    BY <1>0, <1>1 DEF PreviewTypes
  <1>8. EntryIsTrue(id)'
    BY <1>5 DEF EntryIsTrue
  <1>9. IndexIsTrue'
    BY <1>0, <1>7, <1>8, IndexOneByOne, EntryStaysTrue DEF EntryIsTrue, IndexIsTrue, Listed
  <1> QED
    BY <1>1, <1>2, <1>4, <1>6, <1>7, <1>9

-----------------------------------------------------------------------------
(***************************************************************************)
(* Steps of the views                                                      *)
(***************************************************************************)
\* What a view leaves alone.
Stands == UNCHANGED <<disk, pending, unscanned, preparing, aligning, outside, torn>>

\* A view changes addresses and its own call only; what is said of the rest stays.
LEMMA ViewKeeps ==
  ASSUME PreviewInv, Stands, urls' \in [Ids -> Pictures],
         calls' \in [{"list", "set"} -> ViewCalls], CacheInv'
  PROVE  PreviewInv'
  <1>1. PreviewTypes'
    BY DEF PreviewInv, PreviewTypes, Stands, disk, outside
  <1>2. ScannedIsFresh'
    BY ScanStaysFresh DEF PreviewInv, PreviewTypes, Stands, disk, outside
  <1>3. ManualIsOfFace' /\ IndexIsTrue'
    BY DEF PreviewInv, ManualIsOfFace, IndexIsTrue, Listed, GetEntry, Stands, disk, outside
  <1> QED
    BY <1>1, <1>2, <1>3 DEF PreviewInv

\* One call moves on to a place where it holds nothing of a file yet.
LEMMA CallGoesOn ==
  ASSUME PreviewInv, Stands, NEW c \in {"list", "set"}, NEW r \in ViewCalls,
         calls' = [calls EXCEPT ![c] = r], r.at # "keep", r.mtime <= writes,
         r.at = "next" => r.todo # {},
         NEW i \in Ids, urls' = urls \/ urls' = [urls EXCEPT ![i] = NoFile]
  PROVE  PreviewInv'
  <1>1. urls' \in [Ids -> Pictures] /\ calls' \in [{"list", "set"} -> ViewCalls]
    BY FixedRecords DEF PreviewInv, PreviewTypes
  <1>2. CacheInv'
    <2> USE FixedRecords DEF PreviewInv, PreviewTypes, Stands, disk, CacheInv
    <2>1. TimesArePast'
      <3>1. \A j \in Ids : files'[j].at <= writes' /\ urls'[j].at <= writes'
        BY DEF TimesArePast
      <3>2. \A d \in {"list", "set"} : calls'[d].mtime <= writes'
        BY DEF TimesArePast
      <3> QED
        BY <3>1, <3>2 DEF TimesArePast
    <2>2. AddressesAreOfFiles' /\ TodoIsLeft'
      BY DEF AddressesAreOfFiles, TodoIsLeft
    <2>3. KeptIsCurrent'
      BY DEF KeptIsCurrent
    <2>4. CacheIsCurrent'
      BY DEF CacheIsCurrent
    <2> QED
      BY <2>1, <2>2, <2>3, <2>4
  <1> QED
    BY <1>1, <1>2, ViewKeeps

\* list begins.
LEMMA ListStep ==
  ASSUME PreviewInv, List
  PROVE  PreviewInv'
  <1> DEFINE r == [Quiet EXCEPT !.at = "next", !.todo = Listed]
  <1>1. Stands /\ calls' = [calls EXCEPT !["list"] = r] /\ urls' = urls /\ Listed # {}
    BY DEF List, Stands
  <1>2. r \in ViewCalls /\ r.at = "next" /\ r.todo = Listed /\ r.mtime = 0
    BY FixedRecords DEF ViewCalls, Listed
  <1>3. Zero \in Ids /\ writes \in Nat
    BY WatchfacePreviewsAssumption DEF PreviewInv, PreviewTypes
  <1> HIDE DEF r
  <1>4. r.at # "keep" /\ r.mtime <= writes /\ r.todo # {} /\ "list" \in {"list", "set"}
    BY <1>1, <1>2, <1>3
  <1> QED
    BY <1>1, <1>2, <1>3, <1>4, CallGoesOn

\* The next watchface of the list.
LEMMA ToViewStep ==
  ASSUME PreviewInv, ToView
  PROVE  PreviewInv'
  <1> DEFINE id == CHOOSE i \in calls["list"].todo : TRUE
             rest == calls["list"].todo \ {id}
  <1>0. calls["list"] \in ViewCalls /\ calls["list"].at = "next" /\ calls["list"].todo # {}
        /\ writes \in Nat /\ calls["list"].mtime <= writes
    BY DEF PreviewInv, PreviewTypes, CacheInv, TodoIsLeft, TimesArePast, ToView
  <1>1. id \in Ids /\ rest \subseteq Ids
    BY <1>0 DEF ViewCalls
  <1>2. Stands
    BY DEF ToView, Stands
  <1>3. CASE GetEntry(id) = NoEntry
    <2> DEFINE r == IF rest = {} THEN Quiet ELSE [calls["list"] EXCEPT !.todo = rest]
    <2>1. urls' = [urls EXCEPT ![id] = NoFile] /\ calls' = [calls EXCEPT !["list"] = r]
      BY <1>3 DEF ToView
    <2>2. r \in ViewCalls /\ r.at # "keep" /\ r.mtime <= writes /\ (r.at = "next" => r.todo # {})
      BY <1>0, <1>1, FixedRecords DEF ViewCalls
    <2> HIDE DEF r, id
    <2> QED
      BY <1>1, <1>2, <2>1, <2>2, CallGoesOn
  <1>4. CASE GetEntry(id) # NoEntry
    <2> DEFINE r == [calls["list"] EXCEPT !.at = "stat", !.todo = rest, !.id = id]
    <2>1. urls' = urls /\ calls' = [calls EXCEPT !["list"] = r]
      BY <1>4 DEF ToView
    <2> HIDE DEF id
    <2>2. r \in ViewCalls /\ r.at = "stat" /\ r.mtime <= writes
      BY <1>0, <1>1 DEF ViewCalls
    <2> HIDE DEF r
    <2> QED
      BY <1>1, <1>2, <2>1, <2>2, CallGoesOn
  <1> QED
    BY <1>3, <1>4

\* A call hears the time of its file.
LEMMA StatStep ==
  ASSUME PreviewInv, NEW c \in {"list", "set"}, Stat(c)
  PROVE  PreviewInv'
  <1> DEFINE r == [calls[c] EXCEPT !.at = "read", !.mtime = files[calls[c].id].at]
  <1>1. Stands /\ urls' = urls /\ calls' = [calls EXCEPT ![c] = r]
    BY DEF Stat, Stands
  <1>2. calls[c] \in ViewCalls /\ calls[c].id \in Ids
    BY DEF PreviewInv, PreviewTypes, ViewCalls
  <1>3. files[calls[c].id].at \in Nat /\ files[calls[c].id].at <= writes
    BY <1>2 DEF PreviewInv, PreviewTypes, Pictures, CacheInv, TimesArePast
  <1>4. r \in ViewCalls /\ r.at = "read" /\ r.mtime <= writes
    BY <1>2, <1>3 DEF ViewCalls
  <1> HIDE DEF r
  <1> QED
    BY <1>1, <1>2, <1>4, CallGoesOn

\* Where a view goes when it is done with one watchface.
LEMMA ViewedFits ==
  ASSUME PreviewInv, NEW c \in {"list", "set"}
  PROVE  /\ Viewed(c) \in ViewCalls /\ Viewed(c).at # "keep" /\ Viewed(c).mtime <= writes
         /\ (Viewed(c).at = "next" => Viewed(c).todo # {})
  <1>1. calls[c] \in ViewCalls /\ calls[c].todo \subseteq Ids /\ writes \in Nat
    BY DEF PreviewInv, PreviewTypes, ViewCalls
  <1>2. CASE calls[c].todo = {}
    BY <1>1, <1>2, FixedRecords DEF Viewed
  <1>3. CASE calls[c].todo # {}
    <2> DEFINE r == [Quiet EXCEPT !.at = "next", !.todo = calls[c].todo]
    <2>1. r \in ViewCalls /\ r.at = "next" /\ r.todo = calls[c].todo /\ r.mtime = 0
      BY <1>1, FixedRecords DEF ViewCalls
    <2>2. Viewed(c) = r
      BY <1>3 DEF Viewed
    <2> HIDE DEF r
    <2> QED
      BY <1>1, <1>3, <2>1, <2>2
  <1> QED
    BY <1>2, <1>3

\* A call reads its file.
LEMMA ReadStep ==
  ASSUME PreviewInv, NEW c \in {"list", "set"}, ReadPicture(c)
  PROVE  PreviewInv'
  <1> DEFINE id == calls[c].id
             mtime == calls[c].mtime
  <1>0. /\ calls[c] \in ViewCalls /\ calls[c].at = "read" /\ id \in Ids /\ mtime \in Nat
        /\ mtime <= writes /\ writes \in Nat /\ files[id] \in Pictures
    BY DEF PreviewInv, PreviewTypes, ViewCalls, CacheInv, TimesArePast, ReadPicture
  <1>1. Stands
    BY DEF ReadPicture, Stands
  <1>2. CASE mtime = 0
    BY <1>0, <1>1, <1>2, ViewedFits, CallGoesOn DEF ReadPicture
  <1>3. CASE mtime # 0 /\ Cached(id, mtime)
    BY <1>0, <1>1, <1>3, ViewedFits, CallGoesOn DEF ReadPicture
  <1>4. CASE mtime # 0 /\ ~Cached(id, mtime) /\ files[id] = NoFile
    BY <1>0, <1>1, <1>4, FixedRecords, CallGoesOn DEF ReadPicture
  <1>5. CASE mtime # 0 /\ ~Cached(id, mtime) /\ files[id] # NoFile
    <2> DEFINE r == [calls[c] EXCEPT !.at = "keep", !.pic = files[id].pic]
    <2>1. urls' = urls /\ calls' = [calls EXCEPT ![c] = r]
      BY <1>5 DEF ReadPicture
    <2>2. r \in ViewCalls /\ r.at = "keep" /\ r.id = id /\ r.mtime = mtime /\ r.pic = files[id].pic
      BY <1>0 DEF ViewCalls, Pictures
    <2> HIDE DEF r
    <2>3. urls' \in [Ids -> Pictures] /\ calls' \in [{"list", "set"} -> ViewCalls]
      BY <2>1, <2>2 DEF PreviewInv, PreviewTypes
    <2>4. CacheInv'
      <3> USE DEF PreviewInv, PreviewTypes, Stands, disk, CacheInv
      <3>1. TimesArePast' /\ AddressesAreOfFiles' /\ TodoIsLeft' /\ CacheIsCurrent'
        BY <1>0, <1>1, <1>5, <2>1, <2>2 DEF TimesArePast, AddressesAreOfFiles, TodoIsLeft, CacheIsCurrent
      <3>2. KeptIsCurrent'
        BY <1>0, <1>1, <2>1, <2>2 DEF KeptIsCurrent
      <3> QED
        BY <3>1, <3>2
    <2> QED
      BY <1>1, <2>3, <2>4, ViewKeeps
  <1> QED
    BY <1>2, <1>3, <1>4, <1>5

\* A call keeps the address under the time it was told.
LEMMA KeepStep ==
  ASSUME PreviewInv, NEW c \in {"list", "set"}, KeepUrl(c)
  PROVE  PreviewInv'
  <1> DEFINE id == calls[c].id
             url == [pic |-> calls[c].pic, at |-> calls[c].mtime]
  <1>0. /\ calls[c] \in ViewCalls /\ calls[c].at = "keep" /\ id \in Ids /\ writes \in Nat
        /\ calls[c].mtime <= writes /\ calls[c].mtime # 0
    BY DEF PreviewInv, PreviewTypes, ViewCalls, CacheInv, TimesArePast, AddressesAreOfFiles, KeepUrl
  <1>1. Stands /\ urls' = [urls EXCEPT ![id] = url] /\ calls' = [calls EXCEPT ![c] = Viewed(c)]
    BY DEF KeepUrl, Stands
  <1>2. url \in Pictures /\ url.at = calls[c].mtime /\ url.pic = calls[c].pic
    BY <1>0 DEF ViewCalls, Pictures
  <1>3. url.at = files[id].at => url.pic = files[id].pic
    BY <1>0, <1>2 DEF PreviewInv, CacheInv, KeptIsCurrent
  <1> HIDE DEF url, id
  <1>4. urls' \in [Ids -> Pictures] /\ calls' \in [{"list", "set"} -> ViewCalls]
    BY <1>1, <1>2, ViewedFits DEF PreviewInv, PreviewTypes
  <1>5. CacheInv'
    <2> USE ViewedFits DEF PreviewInv, PreviewTypes, Stands, disk, CacheInv
    <2>1. TimesArePast'
      <3>1. \A j \in Ids : files'[j].at <= writes' /\ urls'[j].at <= writes'
        BY <1>0, <1>1, <1>2 DEF TimesArePast
      <3>2. \A d \in {"list", "set"} : calls'[d].mtime <= writes'
        BY <1>1 DEF TimesArePast
      <3> QED
        BY <3>1, <3>2 DEF TimesArePast
    <2>2. AddressesAreOfFiles'
      BY <1>0, <1>1, <1>2 DEF AddressesAreOfFiles
    <2>3. TodoIsLeft' /\ KeptIsCurrent'
      BY <1>1 DEF TodoIsLeft, KeptIsCurrent
    <2>4. CacheIsCurrent'
      BY <1>0, <1>1, <1>2, <1>3 DEF CacheIsCurrent
    <2> QED
      BY <2>1, <2>2, <2>3, <2>4
  <1> QED
    BY <1>1, <1>4, <1>5, ViewKeeps

-----------------------------------------------------------------------------
(***************************************************************************)
(* Steps of the user's calls and of .bin files                             *)
(***************************************************************************)
\* What the user or an install puts in place of a picture of the band's watchfaces.
LEMMA FaceSetKeeps ==
  ASSUME PreviewInv, NEW id \in Faces, NEW pic \in Nat, NEW entry \in Entries,
         Set(id, pic, entry),
         pic = (IF entry.source = "manual" THEN Manual ELSE entry.hash),
         urls' = [urls EXCEPT ![id] = NoFile],
         \A c \in {"list", "set"} : CallIsKept(c),
         UNCHANGED <<seeds, device, pending, unscanned>>,
         calls' \in [{"list", "set"} -> ViewCalls],
         preparing' \in [id : Faces \cup {Zero}, bin : Nat, seen : Entries],
         preparing' # NotPreparing => preparing'.id \in Faces
  PROVE  PreviewInv'
  <1>0. id \in Ids /\ PreviewTypes
    BY WatchfacePreviewsAssumption DEF PreviewInv
  <1>1. /\ CacheInv' /\ IndexIsTrue'
        /\ index' = [index EXCEPT ![id] = entry] /\ index' \in [Ids -> Entries]
        /\ files' \in [Ids -> Pictures] /\ urls' \in [Ids -> Pictures] /\ writes' \in Nat
        /\ \A i \in Ids \ {id} : index'[i] = index[i] /\ files'[i] = files[i]
    BY <1>0, SetKeeps
  <1>2. PreviewTypes'
    BY <1>0, <1>1 DEF PreviewTypes
  <1>3. ManualIsOfFace'
    BY <1>0, <1>1 DEF PreviewInv, PreviewTypes, ManualIsOfFace
  <1>4. ScannedIsFresh'
    <2>1. \A i \in Ids \ (Faces \cup {Zero}) : index'[i] = index[i] /\ files'[i] = files[i]
      BY <1>1
    <2> QED
      BY <1>0, <2>1, ScanStaysFresh DEF PreviewInv, PreviewTypes
  <1> QED
    BY <1>1, <1>2, <1>3, <1>4 DEF PreviewInv

\* The user chooses a picture.
LEMMA SetFromFileStep ==
  ASSUME PreviewInv, NEW id \in Faces, SetFromFile(id)
  PROVE  PreviewInv'
  <1> DEFINE entry == [source |-> "manual", hash |-> 0, name |-> NoName]
             r == [Quiet EXCEPT !.at = "stat", !.id = id]
  <1>0. PreviewTypes /\ id \in Ids
    BY WatchfacePreviewsAssumption DEF PreviewInv
  <1>1. entry \in Entries /\ entry.source = "manual" /\ Manual \in Nat
    BY DEF Entries, Manual
  <1>2. r \in ViewCalls /\ r.at = "stat" /\ r.mtime = 0
    BY <1>0, FixedRecords DEF ViewCalls
  <1>3. /\ Set(id, Manual, entry) /\ urls' = [urls EXCEPT ![id] = NoFile]
        /\ calls' = [calls EXCEPT !["set"] = r]
        /\ UNCHANGED <<seeds, device, pending, unscanned, preparing>>
    BY DEF SetFromFile, outside
  <1> HIDE DEF entry, r
  <1>4. calls' \in [{"list", "set"} -> ViewCalls] /\ \A c \in {"list", "set"} : CallIsKept(c)
    BY <1>0, <1>2, <1>3 DEF PreviewTypes, CallIsKept
  <1> QED
    BY <1>0, <1>1, <1>3, <1>4, FaceSetKeeps DEF PreviewTypes

\* The user takes a picture away.
LEMMA ClearStep ==
  ASSUME PreviewInv, NEW id \in Faces, Clear(id)
  PROVE  PreviewInv'
  <1>0. PreviewTypes /\ id \in Ids
    BY WatchfacePreviewsAssumption DEF PreviewInv
  <1>1. /\ urls' = [urls EXCEPT ![id] = NoFile] /\ index' = [index EXCEPT ![id] = NoEntry]
        /\ files' = [files EXCEPT ![id] = NoFile] /\ torn' = torn \ {id}
        /\ UNCHANGED <<writes, pending, unscanned, calls, preparing, seeds, device>>
    BY DEF Clear, outside
  <1>2. PreviewTypes'
    BY <1>0, <1>1, FixedRecords DEF PreviewTypes
  <1>3. CacheInv'
    <2>1. \A i \in Ids : Written(i) \/ Kept(i)
      BY <1>0, <1>1, FixedRecords DEF Written, Kept, PreviewTypes
    <2>2. \A c \in {"list", "set"} : CallIsKept(c)
      BY <1>1 DEF CallIsKept
    <2>3. writes' \in Nat /\ writes <= writes'
      BY <1>0, <1>1 DEF PreviewTypes
    <2> QED
      BY <2>1, <2>2, <2>3, WritesKeepCache
  <1>4. \A i \in Ids \ {id} : index'[i] = index[i] /\ files'[i] = files[i] /\ (i \in torn => i \in torn')
    BY <1>0, <1>1 DEF PreviewTypes
  <1>5. IndexIsTrue'
    <2>1. EntryIsTrue(id)'
      BY <1>0, <1>1 DEF EntryIsTrue, GetEntry, PreviewTypes
    <2>2. \A i \in Ids \ {id} : EntryIsTrue(i)'
      BY <1>4, IndexOneByOne, EntryStaysTrue DEF PreviewInv
    <2> QED
      BY <2>1, <2>2 DEF EntryIsTrue, IndexIsTrue, Listed
  <1>6. ManualIsOfFace'
    BY <1>0, <1>1 DEF PreviewInv, ManualIsOfFace, PreviewTypes
  <1>7. ScannedIsFresh'
    BY <1>0, <1>1, <1>4, ScanStaysFresh DEF PreviewInv, PreviewTypes
  <1> QED
    BY <1>2, <1>3, <1>5, <1>6, <1>7 DEF PreviewInv

\* A .bin is looked at that has no name of its own, or whose picture is there: the
\* entry's hash and source stay.
LEMMA LookedAt ==
  ASSUME PreviewInv, NEW bin \in unscanned, unscanned' = unscanned \ {bin},
         bin.id # Zero => ~ShouldPrepareAutoPreview(GetEntry(bin.id), bin.hash),
         UNCHANGED <<files, writes, urls, torn, seeds, device, calls, preparing>>,
         pending' \subseteq Bins,
         \/ index' = index
         \/ bin.id # Zero /\ index' = [index EXCEPT ![bin.id].name = bin.name]
  PROVE  PreviewInv'
  <1>0. /\ PreviewTypes /\ bin \in Bins /\ bin.id \in Ids /\ bin.name \in Names /\ bin \in seeds
        /\ IndexIsTrue /\ ScannedIsFresh /\ ManualIsOfFace
    BY WatchfacePreviewsAssumption DEF PreviewInv, PreviewTypes
  <1>1. /\ index' \in [Ids -> Entries]
        /\ \A i \in Ids : index'[i].source = index[i].source /\ index'[i].hash = index[i].hash
        /\ \A i \in Ids \ {bin.id} : index'[i] = index[i]
        /\ bin.id = Zero => index' = index
    <2>1. CASE index' = index
      BY <1>0, <2>1 DEF PreviewTypes
    <2>2. CASE bin.id # Zero /\ index' = [index EXCEPT ![bin.id].name = bin.name]
      <3>1. index \in [Ids -> Entries] /\ index[bin.id] \in Entries
        BY <1>0 DEF PreviewTypes
      <3>2. PICK e \in Entries : /\ index' = [index EXCEPT ![bin.id] = e]
                                 /\ e.source = index[bin.id].source /\ e.hash = index[bin.id].hash
        <4>1. [index[bin.id] EXCEPT !.name = bin.name] \in Entries
          BY <1>0, <3>1 DEF Entries
        <4> QED
          BY <2>2, <3>1, <4>1 DEF Entries
      <3> QED
        BY <1>0, <2>2, <3>1, <3>2
    <2> QED
      BY <2>1, <2>2
  <1>2. PreviewTypes'
    BY <1>0, <1>1 DEF PreviewTypes
  <1>3. CacheInv'
    <2>1. \A i \in Ids : Kept(i)
      BY DEF Kept
    <2>2. \A c \in {"list", "set"} : CallIsKept(c)
      BY DEF CallIsKept
    <2>3. writes' \in Nat /\ writes <= writes'
      BY <1>0 DEF PreviewTypes
    <2> QED
      BY <2>1, <2>2, <2>3, WritesKeepCache
  <1>4. bin.id # Zero => GetEntry(bin.id) # NoEntry /\ GetEntry(bin.id) = index[bin.id]
                         /\ files[bin.id] # NoFile
                         /\ (index[bin.id].source = "manual" \/ index[bin.id].hash = bin.hash)
    BY DEF ShouldPrepareAutoPreview, GetEntry, NoEntry
  <1>5. IndexIsTrue'
    <2>1. ASSUME NEW i \in Ids
          PROVE  EntryIsTrue(i)'
      <3>0. EntryIsTrue(i)
        BY <1>0, IndexOneByOne
      <3>1. CASE i # bin.id \/ bin.id = Zero
        BY <1>1, <3>0, <3>1, EntryStaysTrue
      <3>2. CASE i = bin.id /\ bin.id # Zero
        BY <1>1, <1>4, <3>0, <3>2 DEF EntryIsTrue
      <3> QED
        BY <3>1, <3>2
    <2> QED
      BY <2>1 DEF EntryIsTrue, IndexIsTrue, Listed
  <1>6. ManualIsOfFace'
    BY <1>0, <1>1 DEF ManualIsOfFace
  <1>7. ScannedIsFresh'
    <2> SUFFICES ASSUME NEW b \in seeds \ unscanned', b.id \notin Faces \cup {Zero}
                 PROVE  \E now \in seeds : now.id = b.id /\ GetEntry(b.id)'.hash = now.hash
      BY DEF ScannedIsFresh
    <2>0. b.id \in Ids
      BY <1>0, WatchfacePreviewsAssumption DEF PreviewTypes
    <2>1. CASE b.id = bin.id
      <3>1. index'[bin.id].hash = bin.hash /\ GetEntry(bin.id)' = index'[bin.id]
        BY <1>0, <1>1, <1>4, <2>1 DEF ManualIsOfFace, GetEntry
      <3> QED
        BY <1>0, <2>1, <3>1
    <2>2. CASE b.id # bin.id
      <3>1. b \in seeds \ unscanned /\ GetEntry(b.id)' = GetEntry(b.id)
        BY <1>1, <2>0, <2>2 DEF GetEntry
      <3> QED
        BY <1>0, <3>1 DEF ScannedIsFresh
    <2> QED
      BY <2>1, <2>2
  <1> QED
    BY <1>2, <1>3, <1>5, <1>6, <1>7 DEF PreviewInv

\* The scan looks at a .bin.
LEMMA ScanStep ==
  ASSUME PreviewInv, RunBackgroundPreparation
  PROVE  PreviewInv'
  <1>0. PICK bin \in unscanned :
           unscanned' = unscanned \ {bin} /\ (ScanZero(bin) \/ ScanNamed(bin))
    BY DEF RunBackgroundPreparation
  <1>1. UNCHANGED <<calls, preparing, aligning, seeds, device, starts>>
    BY DEF RunBackgroundPreparation, outside
  <1>2. /\ PreviewTypes /\ bin \in Bins /\ bin.id \in Ids /\ bin.name \in Names /\ bin.hash \in Nat
        /\ bin.hash # 0 /\ bin \in seeds /\ pending \subseteq Bins
        /\ IndexIsTrue /\ ScannedIsFresh /\ ManualIsOfFace
    BY WatchfacePreviewsAssumption DEF PreviewInv, PreviewTypes
  <1>3. CASE ScanZero(bin)
    <2>1. bin.id = Zero /\ pending' \subseteq Bins
          /\ UNCHANGED <<files, writes, urls, torn, index>>
      BY <1>2, <1>3 DEF ScanZero, disk
    <2> QED
      BY <1>0, <1>1, <2>1, LookedAt
  <1>4. CASE ScanNamed(bin) /\ ~ShouldPrepareAutoPreview(GetEntry(bin.id), bin.hash)
    <2>1. /\ UNCHANGED <<files, writes, urls, torn, pending>> /\ bin.id # Zero
          /\ index' = index \/ index' = [index EXCEPT ![bin.id].name = bin.name]
      BY <1>4 DEF ScanNamed
    <2>2. pending' \subseteq Bins
      BY <1>2, <2>1
    <2> QED
      BY <1>0, <1>1, <1>4, <2>1, <2>2, LookedAt
  <1>5. CASE ScanNamed(bin) /\ ShouldPrepareAutoPreview(GetEntry(bin.id), bin.hash)
    <2>1. /\ Set(bin.id, bin.hash, AutoEntry(bin)) /\ urls' = [urls EXCEPT ![bin.id] = NoFile]
          /\ pending' = pending /\ bin.id # Zero
      BY <1>5 DEF ScanNamed
    <2>2. /\ AutoEntry(bin) \in Entries /\ AutoEntry(bin).source = "auto" /\ AutoEntry(bin).hash = bin.hash
      BY <1>2 DEF AutoEntry, Entries
    <2>3. \A c \in {"list", "set"} : CallIsKept(c)
      BY <1>1 DEF CallIsKept
    <2>4. /\ CacheInv' /\ IndexIsTrue'
          /\ index' = [index EXCEPT ![bin.id] = AutoEntry(bin)] /\ index' \in [Ids -> Entries]
          /\ files' \in [Ids -> Pictures] /\ urls' \in [Ids -> Pictures] /\ writes' \in Nat
          /\ GetEntry(bin.id)' = AutoEntry(bin)
          /\ \A i \in Ids \ {bin.id} : index'[i] = index[i] /\ files'[i] = files[i]
      BY <1>2, <2>1, <2>2, <2>3, SetKeeps
    <2>5. PreviewTypes'
      BY <1>0, <1>1, <1>2, <2>1, <2>4 DEF PreviewTypes
    <2>6. ManualIsOfFace'
      BY <1>2, <2>2, <2>4 DEF ManualIsOfFace, PreviewTypes
    <2>7. ScannedIsFresh'
      <3> SUFFICES ASSUME NEW b \in seeds \ unscanned', b.id \notin Faces \cup {Zero}
                   PROVE  \E now \in seeds : now.id = b.id /\ GetEntry(b.id)'.hash = now.hash
        BY <1>1 DEF ScannedIsFresh
      <3>0. b.id \in Ids
        BY <1>2, WatchfacePreviewsAssumption DEF PreviewTypes
      <3>1. CASE b.id = bin.id
        BY <1>2, <2>2, <2>4, <3>1
      <3>2. CASE b.id # bin.id
        <4>1. b \in seeds \ unscanned /\ GetEntry(b.id)' = GetEntry(b.id)
          BY <1>0, <2>4, <3>0, <3>2 DEF GetEntry
        <4> QED
          BY <1>2, <4>1 DEF ScannedIsFresh
      <3> QED
        BY <3>1, <3>2
    <2> QED
      BY <2>4, <2>5, <2>6, <2>7 DEF PreviewInv
  <1> QED
    BY <1>0, <1>3, <1>4, <1>5

\* What a step that writes nothing leaves.
LEMMA NothingWritten ==
  ASSUME PreviewInv, UNCHANGED <<disk, urls, pending, unscanned, calls, torn, seeds>>,
         device' \in [Faces -> Names \cup {NoName}],
         preparing' \in [id : Faces \cup {Zero}, bin : Nat, seen : Entries],
         preparing' # NotPreparing => preparing'.id \in Faces
  PROVE  PreviewInv'
  BY DEF PreviewInv, PreviewTypes, CacheInv, TimesArePast, AddressesAreOfFiles, KeptIsCurrent,
         TodoIsLeft, CacheIsCurrent, ManualIsOfFace, ScannedIsFresh, IndexIsTrue, Listed, GetEntry,
         disk

\* An install has put a .bin on the band.
LEMMA PrepareStep ==
  ASSUME PreviewInv, NEW id \in Faces, NEW bin \in Bins, PrepareFromBin(id, bin)
  PROVE  PreviewInv'
  <1>0. /\ PreviewTypes /\ id \in Ids /\ bin.name \in Names /\ bin.hash \in Nat
        /\ GetEntry(id) \in Entries
    BY WatchfacePreviewsAssumption, FixedRecords DEF PreviewInv, PreviewTypes, GetEntry
  <1>1. /\ device' = [device EXCEPT ![id] = bin.name]
        /\ preparing' \in {[id |-> id, bin |-> bin.hash, seen |-> GetEntry(id)], NotPreparing}
        /\ UNCHANGED <<disk, urls, pending, unscanned, calls, torn, seeds>>
    BY DEF PrepareFromBin
  <1>2. device' \in [Faces -> Names \cup {NoName}]
    BY <1>0, <1>1 DEF PreviewTypes
  <1>3. /\ preparing' \in [id : Faces \cup {Zero}, bin : Nat, seen : Entries]
        /\ preparing' # NotPreparing => preparing'.id \in Faces
    BY <1>0, <1>1, FixedRecords
  <1> QED
    BY <1>1, <1>2, <1>3, NothingWritten

\* The .bin that was installed was read.
LEMMA PreparedStep ==
  ASSUME PreviewInv, Prepared
  PROVE  PreviewInv'
  <1>0. PICK bin \in Bins :
           /\ bin.hash = preparing.bin
           /\ IF ShouldPrepareAutoPreview(preparing.seen, bin.hash)
              THEN /\ Set(preparing.id, bin.hash, AutoEntry(bin))
                   /\ urls' = [urls EXCEPT ![preparing.id] = NoFile]
              ELSE UNCHANGED <<disk, urls, torn>>
    BY DEF Prepared
  <1>1. /\ preparing # NotPreparing /\ preparing' = NotPreparing
        /\ UNCHANGED <<pending, unscanned, calls, seeds, device>>
    BY DEF Prepared, outside
  <1>2. PreviewTypes /\ preparing.id \in Faces /\ bin.name \in Names /\ bin.hash \in Nat
    BY <1>1, WatchfacePreviewsAssumption DEF PreviewInv, PreviewTypes
  <1>3. /\ AutoEntry(bin) \in Entries /\ AutoEntry(bin).source = "auto" /\ AutoEntry(bin).hash = bin.hash
    BY <1>2 DEF AutoEntry, Entries
  <1>4. /\ calls' \in [{"list", "set"} -> ViewCalls] /\ device' \in [Faces -> Names \cup {NoName}]
        /\ \A c \in {"list", "set"} : CallIsKept(c)
    BY <1>1, <1>2 DEF CallIsKept, PreviewTypes
  <1>5. CASE ShouldPrepareAutoPreview(preparing.seen, bin.hash)
    BY <1>0, <1>1, <1>2, <1>3, <1>4, <1>5, FixedRecords, FaceSetKeeps
  <1>6. CASE ~ShouldPrepareAutoPreview(preparing.seen, bin.hash)
    BY <1>0, <1>1, <1>4, <1>6, FixedRecords, NothingWritten
  <1> QED
    BY <1>5, <1>6

-----------------------------------------------------------------------------
(***************************************************************************)
(* Alignment, restarts and the theorem                                     *)
(***************************************************************************)
\* The one candidate for a name, and what it brings.
LEMMA CandidateIsTrue ==
  ASSUME PreviewInv, NEW d \in Matched
  PROVE  /\ HashFor(device[d]) \in Nat /\ PictureFor(device[d]) \in Nat
         /\ ~TornFor(device[d]) => PictureFor(device[d]) = HashFor(device[d])
  <1> DEFINE name == device[d]
             stored == StoredCandidates(name)
             waiting == PendingCandidates(name)
  <1>0. PreviewTypes /\ IndexIsTrue
    BY DEF PreviewInv
  <1>1. Cardinality(stored) + Cardinality(waiting) = 1
    BY DEF Matched
  <1>2. CASE stored # {}
    <2> DEFINE c == CHOOSE i \in stored : TRUE
    <2>1. c \in stored
      BY <1>2
    <2>2. c \in Ids /\ GetEntry(c) # NoEntry /\ index[c].source = "auto"
      BY <2>1 DEF StoredCandidates, Listed
    <2>3. HashFor(name) = index[c].hash /\ PictureFor(name) = files[c].pic
      BY <1>2 DEF HashFor, PictureFor
    <2> HIDE DEF c
    <2>4. index[c] \in Entries /\ files[c] \in Pictures
      BY <1>0, <2>2 DEF PreviewTypes
    <2>5. ~TornFor(name) => c \notin torn
      BY <2>1 DEF TornFor
    <2>6. c \notin torn => files[c].pic = index[c].hash
      BY <1>0, <2>2, IndexOneByOne DEF EntryIsTrue
    <2> QED
      BY <2>3, <2>4, <2>5, <2>6 DEF Entries, Pictures
  <1>3. CASE stored = {}
    <2>1. waiting # {}
      BY <1>1, <1>3, FS_EmptySet
    <2> DEFINE b == CHOOSE bin \in waiting : TRUE
    <2>2. b \in waiting
      BY <2>1
    <2>3. HashFor(name) = b.hash /\ PictureFor(name) = b.hash
      BY <1>3 DEF HashFor, PictureFor
    <2>4. b \in Bins
      BY <1>0, <2>2 DEF PendingCandidates, PreviewTypes
    <2> HIDE DEF b
    <2> QED
      BY <2>3, <2>4, WatchfacePreviewsAssumption
  <1> QED
    BY <1>2, <1>3

\* Pictures are aligned with the names on the band.
LEMMA AlignStep ==
  ASSUME PreviewInv, Align
  PROVE  PreviewInv'
  <1>0. PreviewTypes /\ IndexIsTrue /\ ManualIsOfFace /\ ScannedIsFresh /\ writes \in Nat
    BY DEF PreviewInv, PreviewTypes
  <1>1. Matched \subseteq Faces /\ Faces \subseteq Ids /\ Zero \notin Faces
    BY WatchfacePreviewsAssumption DEF Matched
  <1>2. UNCHANGED <<pending, unscanned, calls, preparing, seeds, device>>
    BY DEF Align, outside
  <1>3. ASSUME NEW i \in Matched
        PROVE  /\ index'[i] \in Entries /\ index'[i].source = "auto"
               /\ index'[i].hash = HashFor(device[i])
               /\ files'[i] \in Pictures /\ files'[i].pic = PictureFor(device[i])
               /\ files'[i].at = writes + 1 /\ writes' = writes + 1 /\ urls'[i] = NoFile
               /\ ~TornFor(device[i]) \/ i \in torn'
    <2>1. HashFor(device[i]) \in Nat /\ PictureFor(device[i]) \in Nat /\ i \in Ids /\ i \in Faces
      BY <1>1, CandidateIsTrue
    <2>2. /\ index'[i] = [source |-> "auto", hash |-> HashFor(device[i]), name |-> device[i]]
          /\ files'[i] = [pic |-> PictureFor(device[i]), at |-> writes + 1]
          /\ urls'[i] = NoFile /\ writes' = writes + 1
      BY <2>1 DEF Align
    <2>3. ~TornFor(device[i]) \/ i \in torn'
      BY DEF Align
    <2>4. device[i] \in Names \cup {NoName}
      BY <1>0, <2>1 DEF PreviewTypes
    <2> QED
      BY <1>0, <2>1, <2>2, <2>3, <2>4 DEF Entries, Pictures
  <1>4. \A i \in Ids \ Matched :
          /\ index'[i] = index[i] /\ files'[i] = files[i] /\ urls'[i] = urls[i]
          /\ (i \in torn => i \in torn')
    BY DEF Align
  <1>5. writes' \in Nat /\ writes <= writes'
    BY <1>0 DEF Align
  <1>6. /\ index' \in [Ids -> Entries] /\ files' \in [Ids -> Pictures] /\ urls' \in [Ids -> Pictures]
    <2>1. \A i \in Ids : index'[i] \in Entries /\ files'[i] \in Pictures /\ urls'[i] \in Pictures
      BY <1>0, <1>3, <1>4, FixedRecords DEF PreviewTypes
    <2>2. /\ index' = [i \in Ids |-> index'[i]] /\ files' = [i \in Ids |-> files'[i]]
          /\ urls' = [i \in Ids |-> urls'[i]]
      BY DEF Align
    <2> QED
      BY <2>1, <2>2
  <1>7. PreviewTypes'
    BY <1>0, <1>2, <1>5, <1>6 DEF PreviewTypes
  <1>8. CacheInv'
    <2>1. \A i \in Ids : Written(i) \/ Kept(i)
      BY <1>0, <1>3, <1>4 DEF Written, Kept
    <2>2. \A c \in {"list", "set"} : CallIsKept(c)
      BY <1>2 DEF CallIsKept
    <2> QED
      BY <1>5, <2>1, <2>2, WritesKeepCache
  <1>9. IndexIsTrue'
    <2>1. ASSUME NEW i \in Matched
          PROVE  EntryIsTrue(i)'
      BY <1>2, <1>3, CandidateIsTrue DEF EntryIsTrue
    <2>2. ASSUME NEW i \in Ids \ Matched
          PROVE  EntryIsTrue(i)'
      BY <1>0, <1>4, IndexOneByOne, EntryStaysTrue
    <2>3. \A i \in Ids : EntryIsTrue(i)'
      BY <2>1, <2>2
    <2> QED
      BY <2>3 DEF EntryIsTrue, IndexIsTrue, Listed
  <1>10. ManualIsOfFace'
    BY <1>0, <1>1, <1>3, <1>4 DEF ManualIsOfFace
  <1>11. ScannedIsFresh'
    BY <1>0, <1>1, <1>2, <1>4, ScanStaysFresh DEF PreviewTypes
  <1> QED
    BY <1>7, <1>8, <1>9, <1>10, <1>11 DEF PreviewInv

\* A process that dies in the middle of a write leaves a picture, and its mark.
LEMMA DyingKeepsIndex ==
  ASSUME PreviewInv, NEW id \in Ids, NEW pic \in Nat, DiesWriting(id, pic)
  PROVE  /\ index' \in [Ids -> Entries] /\ files' \in [Ids -> Pictures]
         /\ writes' \in Nat /\ writes <= writes'
         /\ \A i \in Ids : files'[i] = files[i] \/ (files'[i].at = writes' /\ writes' > writes)
         /\ index' = index /\ IndexIsTrue'
  <1>0. PreviewTypes /\ IndexIsTrue
    BY DEF PreviewInv
  <1>1. /\ files' = [files EXCEPT ![id] = [pic |-> pic, at |-> writes + 1]]
        /\ writes' = writes + 1 /\ torn' = torn \cup {id} /\ index' = index /\ writes \in Nat
    BY <1>0 DEF DiesWriting, PreviewTypes
  <1>2. files' \in [Ids -> Pictures] /\ (\A i \in Ids \ {id} : files'[i] = files[i])
        /\ files'[id].at = writes + 1
    BY <1>0, <1>1 DEF PreviewTypes, Pictures
  <1>3. ASSUME NEW i \in Ids
        PROVE  EntryIsTrue(i)'
    <2>1. CASE i = id
      BY <1>1, <2>1 DEF EntryIsTrue
    <2>2. CASE i # id
      BY <1>0, <1>1, <1>2, <2>2, IndexOneByOne, EntryStaysTrue
    <2> QED
      BY <2>1, <2>2
  <1> QED
    BY <1>0, <1>1, <1>2, <1>3 DEF PreviewTypes, EntryIsTrue, IndexIsTrue, Listed

\* The application ends and starts again.
LEMMA RestartStep ==
  ASSUME PreviewInv, Restart
  PROVE  PreviewInv'
  <1>0. PreviewTypes /\ IndexIsTrue /\ ManualIsOfFace /\ writes \in Nat
    BY DEF PreviewInv, PreviewTypes
  <1>1. /\ seeds' \in SeedSets /\ unscanned' = seeds' /\ pending' = {}
        /\ urls' = [i \in Ids |-> NoFile] /\ calls' = [c \in {"list", "set"} |-> Quiet]
        /\ preparing' = NotPreparing /\ device' = device
    BY DEF Restart
  <1> DEFINE Survives ==
        /\ index' \in [Ids -> Entries] /\ files' \in [Ids -> Pictures]
        /\ writes' \in Nat /\ writes <= writes'
        /\ \A i \in Ids : files'[i] = files[i] \/ (files'[i].at = writes' /\ writes' > writes)
        /\ index' = index /\ IndexIsTrue'
  <1>2. Survives
    <2>1. CASE UNCHANGED <<disk, torn>>
      BY <1>0, <2>1 DEF disk, IndexIsTrue, Listed, GetEntry, PreviewTypes
    <2>2. ASSUME NEW id \in Faces, DiesWriting(id, Manual)
          PROVE  Survives
      BY <2>2, DyingKeepsIndex, WatchfacePreviewsAssumption DEF Manual
    <2>3. ASSUME NEW bin \in unscanned, DiesWriting(bin.id, bin.hash)
          PROVE  Survives
      <3>1. bin.id \in Ids /\ bin.hash \in Nat
        BY <1>0, WatchfacePreviewsAssumption DEF PreviewTypes
      <3> QED
        BY <2>3, <3>1, DyingKeepsIndex
    <2> QED
      BY <2>1, <2>2, <2>3 DEF Restart
  <1>3. PreviewTypes'
    BY <1>0, <1>1, <1>2, FixedRecords, WatchfacePreviewsAssumption DEF PreviewTypes
  <1>4. CacheInv'
    <2>1. \A i \in Ids : Written(i) \/ Kept(i)
      BY <1>1, <1>2 DEF Written, Kept
    <2>2. \A c \in {"list", "set"} : CallIsKept(c)
      BY <1>1, FixedRecords DEF CallIsKept
    <2> QED
      BY <1>2, <2>1, <2>2, WritesKeepCache
  <1>5. ManualIsOfFace' /\ ScannedIsFresh'
    BY <1>0, <1>1, <1>2 DEF ManualIsOfFace, ScannedIsFresh
  <1> QED
    BY <1>2, <1>3, <1>4, <1>5 DEF PreviewInv

\* Every step of the store keeps the invariant.
LEMMA PreviewStep ==
  ASSUME PreviewInv, PreviewsNext
  PROVE  PreviewInv'
  <1>1. CASE List \/ ViewStep
    BY <1>1, ListStep, ToViewStep, StatStep, ReadStep, KeepStep DEF ViewStep
  <1>2. ASSUME NEW id \in Faces, SetFromFile(id) \/ Clear(id)
        PROVE  PreviewInv'
    BY <1>2, SetFromFileStep, ClearStep
  <1>3. CASE RunBackgroundPreparation \/ Prepared \/ Align \/ Restart
    BY <1>3, ScanStep, PreparedStep, AlignStep, RestartStep
  <1>4. ASSUME NEW id \in Faces, NEW bin \in Bins, PrepareFromBin(id, bin)
        PROVE  PreviewInv'
    BY <1>4, PrepareStep
  <1>5. CASE PrepareFails \/ ReconcileInstalledWatchfaces
    <2>1. /\ UNCHANGED <<disk, urls, pending, unscanned, calls, torn, seeds, device>>
          /\ preparing' = preparing \/ preparing' = NotPreparing
      BY <1>5 DEF PrepareFails, ReconcileInstalledWatchfaces, outside
    <2>2. /\ device' \in [Faces -> Names \cup {NoName}]
          /\ preparing' \in [id : Faces \cup {Zero}, bin : Nat, seen : Entries]
          /\ preparing' # NotPreparing => preparing'.id \in Faces
      BY <2>1, FixedRecords DEF PreviewInv, PreviewTypes
    <2> QED
      BY <2>1, <2>2, NothingWritten
  <1> QED
    BY <1>1, <1>2, <1>3, <1>4, <1>5 DEF PreviewsNext

\* At the start there is nothing in the store.
LEMMA PreviewsStart == PreviewsInit => PreviewInv
  <1> SUFFICES ASSUME PreviewsInit PROVE PreviewInv
    OBVIOUS
  <1>1. /\ seeds \subseteq Bins /\ unscanned = seeds /\ pending = {} /\ writes = 0
        /\ device \in [Faces -> Names \cup {NoName}]
        /\ index = [i \in Ids |-> NoEntry] /\ files = [i \in Ids |-> NoFile]
        /\ urls = [i \in Ids |-> NoFile] /\ calls = [c \in {"list", "set"} |-> Quiet]
        /\ preparing = NotPreparing
    BY WatchfacePreviewsAssumption DEF PreviewsInit, NoName
  <1>2. PreviewTypes
    BY <1>1, FixedRecords DEF PreviewTypes
  <1>3. CacheInv
    BY <1>1, FixedRecords
    DEF CacheInv, TimesArePast, AddressesAreOfFiles, KeptIsCurrent, TodoIsLeft, CacheIsCurrent
  <1>4. ManualIsOfFace /\ ScannedIsFresh /\ IndexIsTrue
    BY <1>1 DEF ManualIsOfFace, ScannedIsFresh, IndexIsTrue, Listed, GetEntry, NoEntry
  <1> QED
    BY <1>2, <1>3, <1>4 DEF PreviewInv

\* The picture the page shows is the one in the file, the index says truly where it
\* is from but for a crash between the two writes, and after the scan it is of a .bin
\* as it is now: for any watchfaces, .bin files, writes, crashes and starts
\* (watchface-preview-service.ts, watchface-preview-store.ts).
THEOREM PicturesAreRight == Spec => []PreviewsAreRight
  <1>1. Init => PreviewInv
    BY PreviewsStart DEF Init, NoPreviews
  <1>2. ASSUME PreviewInv, [Next]_vars
        PROVE  PreviewInv'
    <2>1. CASE UNCHANGED previewVars
      <3>1. UNCHANGED <<disk, urls, pending, unscanned, calls, torn, seeds, device, preparing>>
        BY <2>1 DEF previewVars, disk
      <3> QED
        BY <1>2, <3>1, NothingWritten DEF PreviewInv, PreviewTypes
    <2> QED
      BY <1>2, <2>1, PreviewStep DEF Next, vars
  <1>3. PreviewInv => PreviewsAreRight
    <2> SUFFICES ASSUME PreviewInv PROVE ScanIsFresh
      BY DEF PreviewInv, CacheInv, PreviewsAreRight
    <2> QED
      BY DEF PreviewInv, ScannedIsFresh, ScanIsFresh
  <1> QED
    BY <1>1, <1>2, <1>3, PTL DEF Spec

-----------------------------------------------------------------------------
(***************************************************************************)
(* Calls and answers                                                       *)
(***************************************************************************)
\* A call is added at the end.
LEMMA AppendedCall ==
  ASSUME NEW w \in Seq(CallRecords), NEW c \in CallRecords, NEW v, v = Append(w, c)
  PROVE  /\ v \in Seq(CallRecords) /\ DOMAIN v = DOMAIN w \cup {Len(w) + 1}
         /\ Len(w) + 1 \notin DOMAIN w /\ v[Len(w) + 1] = c
         /\ \A i \in DOMAIN w : v[i] = w[i] /\ i \in DOMAIN v
  OBVIOUS

\* The first call is taken away.
LEMMA RemovedCall ==
  ASSUME NEW w \in Seq(CallRecords), w # <<>>, NEW v, v = Tail(w)
  PROVE  /\ v \in Seq(CallRecords) /\ 1 \in DOMAIN w /\ Head(w) = w[1] /\ w[1] \in CallRecords
         /\ \A i \in DOMAIN v : i + 1 \in DOMAIN w /\ v[i] = w[i + 1] /\ i + 1 # 1 /\ i \in Nat
         /\ \A i \in DOMAIN w : i # 1 => i - 1 \in DOMAIN v /\ v[i - 1] = w[i]
  OBVIOUS

\* A call of this page is well formed.
LEMMA CallIsRecord ==
  ASSUME PageTypes, NEW op \in Operations, NEW face \in Shows, NEW why \in {"busy", "after"}
  PROVE  /\ Call(op, face, why) \in CallRecords /\ Call(op, face, why).op = op
         /\ Call(op, face, why).why = why /\ Call(op, face, why).mount = page.mount
         /\ ~Call(op, face, why).given /\ Call(op, face, why).face = face
  BY DEF PageTypes, Call, CallRecords

\* A call that is no list holds the flag, while it is of this page.
LEMMA ChangesHold ==
  ASSUME PageTypes, CallsFit
  PROVE  /\ \A i \in DOMAIN wire :
              Ours(wire[i]) /\ ~wire[i].given /\ ~WireHolds(i) => wire[i].why = "after" /\ wire[i].op = "list"
         /\ \A a \in answers :
              Ours(a) /\ ~AnswerHolds(a) => a.why = "after" /\ a.op = "list"
  <1>1. \A i \in DOMAIN wire : wire[i] \in CallRecords
    BY DEF PageTypes
  <1> QED
    BY <1>1 DEF PageTypes, CallsFit, CallFits, WireHolds, AnswerHolds, Holding, CallRecords,
                AnswerRecords

\* When nothing holds the flag and no list is out, the page shows the band or has no
\* duty to.
LEMMA NothingOut ==
  ASSUME PageInv, page.open, ~excused, ~page.error, page.connected \/ page.busy,
         \A i \in DOMAIN wire : ~WireHolds(i), \A a \in answers : ~AnswerHolds(a), ~AfterIsOut
  PROVE  page.items = onBand
  <1>1. IsTold
    BY DEF PageInv, PageWillShow
  <1>2. ~ListIsOut
    BY ChangesHold DEF PageInv, ListIsOut, AfterIsOut
  <1>3. \A a \in answers : ~Tells(a)
    BY ChangesHold DEF PageInv, Tells, AfterIsOut
  <1> QED
    BY <1>1, <1>2, <1>3 DEF IsTold

\* The page asks for the list: it will be told.
LEMMA ListStarts ==
  ASSUME PageInv, PageTypes', page.open,
         wire' = Append(wire, Call("list", "none", "busy")),
         answers' \subseteq answers,
         \A i \in DOMAIN wire : ~WireHolds(i), \A a \in answers' : ~Holding(a),
         page'.mount = page.mount, page'.open = page.open, page'.busy, onBand' = onBand,
         excused' = (~(wire = <<>> /\ answers = {}) /\ excused)
  PROVE  PageInv'
  <1>0. PageTypes /\ CallsFit
    BY DEF PageInv
  <1>1. PICK c \in CallRecords :
           /\ wire' = Append(wire, c)
           /\ c.op = "list" /\ c.why = "busy" /\ c.mount = page.mount /\ ~c.given
           /\ c.op \notin Changes
    BY <1>0, CallIsRecord DEF Operations, Shows, Changes
  <1>2. PICK n \in Nat :
        /\ DOMAIN wire' = DOMAIN wire \cup {n} /\ n \notin DOMAIN wire /\ wire'[n] = c
        /\ \A i \in DOMAIN wire : wire'[i] = wire[i] /\ i \in DOMAIN wire'
    <2>1. Len(wire) + 1 \in Nat /\ wire \in Seq(CallRecords)
      BY <1>0 DEF PageTypes
    <2> QED
      BY <1>1, <2>1, AppendedCall
  <1>3. CallsFit'
    BY <1>0, <1>1, <1>2 DEF CallsFit, CallFits, PageTypes
  <1>4. /\ WireHolds(n)' /\ \A i \in DOMAIN wire' : WireHolds(i)' => i = n
        /\ \A a \in answers' : ~AnswerHolds(a)'
    BY <1>1, <1>2 DEF WireHolds, AnswerHolds, Holding, Ours
  <1>5. OneHolds'
    BY <1>2, <1>4 DEF OneHolds
  <1>6. PageWillShow'
    <2> SUFFICES ASSUME ~excused'
                 PROVE  ListsAreCurrent' /\ ~ChangeIsOut' /\ IsTold'
      BY DEF PageWillShow
    <2>1. ListsAreCurrent'
      <3>1. CASE wire = <<>> /\ answers = {}
        BY <3>1 DEF ListsAreCurrent
      <3>2. CASE ~excused
        BY <3>2 DEF PageInv, PageWillShow, ListsAreCurrent, Ours
      <3> QED
        BY <3>1, <3>2
    <2>2. ~ChangeIsOut'
      BY <1>1, <1>2, <1>4 DEF ChangeIsOut, Changes
    <2>3. IsTold'
      <3>1. n \in DOMAIN wire' /\ ~wire'[n].given /\ Ours(wire[n])' /\ wire'[n].op = "list"
        BY <1>1, <1>2, <1>4 DEF WireHolds, Holding
      <3> QED
        BY <3>1 DEF IsTold, ListIsOut
    <2> QED
      BY <2>1, <2>2, <2>3
  <1> QED
    BY <1>3, <1>5, <1>6 DEF PageInv

\* The page asks for a switch or an install.
LEMMA ChangeStarts ==
  ASSUME PageInv, PageTypes', page.open, page.connected, ~page.busy,
         NEW op \in Changes, NEW face \in PageFaces,
         wire' = Append(wire, Call(op, face, "busy")), answers' = answers,
         page'.mount = page.mount, page'.open = page.open, page'.busy, onBand' = onBand,
         page'.error = page.error, page'.items = page.items,
         ~excused' => ~excused /\ ~AfterIsOut
  PROVE  PageInv'
  <1>0. PageTypes /\ CallsFit /\ (\A i \in DOMAIN wire : ~WireHolds(i)) /\ (\A a \in answers : ~AnswerHolds(a))
    BY DEF PageInv, OneHolds
  <1>1. PICK c \in CallRecords :
           /\ wire' = Append(wire, c)
           /\ c.op = op /\ c.why = "busy" /\ c.mount = page.mount /\ ~c.given
           /\ c.face \in PageFaces
    BY <1>0, CallIsRecord DEF Operations, Changes, Shows
  <1>2. PICK n \in Nat :
        /\ DOMAIN wire' = DOMAIN wire \cup {n} /\ n \notin DOMAIN wire /\ wire'[n] = c
        /\ \A i \in DOMAIN wire : wire'[i] = wire[i] /\ i \in DOMAIN wire'
    <2>1. Len(wire) + 1 \in Nat /\ wire \in Seq(CallRecords)
      BY <1>0 DEF PageTypes
    <2> QED
      BY <1>1, <2>1, AppendedCall
  <1>3. CallsFit'
    BY <1>0, <1>1, <1>2 DEF CallsFit, CallFits, PageTypes
  <1>4. /\ WireHolds(n)' /\ \A i \in DOMAIN wire' : WireHolds(i)' => i = n
        /\ \A a \in answers' : ~AnswerHolds(a)'
    BY <1>0, <1>1, <1>2 DEF WireHolds, AnswerHolds, Holding, Ours
  <1>5. OneHolds'
    BY <1>2, <1>4 DEF OneHolds
  <1>6. PageWillShow'
    <2> SUFFICES ASSUME ~excused'
                 PROVE  ListsAreCurrent' /\ ~AfterIsOut' /\ (~page'.error => IsTold')
      BY DEF PageWillShow
    <2>1. ListsAreCurrent'
      BY DEF PageInv, PageWillShow, ListsAreCurrent, Ours
    <2>2. ~AfterIsOut'
      BY <1>1, <1>2 DEF AfterIsOut, Ours
    <2>3. ASSUME ~page'.error
          PROVE  IsTold'
      <3>1. page.items = onBand
        BY <1>0, <2>3, NothingOut
      <3>2. \A a \in answers' : ~Done(a)'
        BY <1>0, ChangesHold DEF Done, Ours, Changes
      <3> QED
        BY <3>1, <3>2 DEF IsTold
    <2> QED
      BY <2>1, <2>2, <2>3
  <1> QED
    BY <1>3, <1>5, <1>6 DEF PageInv

\* The page, as a record of its type.
PageRecords ==
  [mount : Nat, open : BOOLEAN, connected : BOOLEAN, busy : BOOLEAN,
   items : [has : SUBSET PageFaces, cur : Shows], error : BOOLEAN]

\* The records of the page.
LEMMA PageIsRecord ==
  PageTypes =>
    /\ page \in PageRecords /\ page.items \in [has : SUBSET PageFaces, cur : Shows]
    /\ onBand \in [has : SUBSET PageFaces, cur : Shows]
    /\ page.mount \in Nat /\ page.open \in BOOLEAN /\ page.connected \in BOOLEAN
    /\ page.busy \in BOOLEAN /\ page.error \in BOOLEAN
    /\ page.items.has \subseteq PageFaces
  BY DEF PageTypes, PageRecords

\* The page is opened.
LEMMA MountStep ==
  ASSUME PageInv, Mount
  PROVE  PageInv'
  <1>0. PageTypes /\ CallsFit
    BY DEF PageInv
  <1>1. /\ page' = Fresh(page.mount + 1) /\ excused' = (wire # <<>>)
        /\ UNCHANGED <<onBand, linked, wire, answers>>
    BY DEF Mount, world
  <1>2. /\ Fresh(page.mount + 1) \in PageRecords /\ page'.mount = page.mount + 1
        /\ ~page'.busy /\ ~page'.connected /\ page.mount \in Nat
    BY <1>0, <1>1, PageIsRecord DEF Fresh, PageRecords, Shows, Empty
  <1>3. PageTypes'
    BY <1>0, <1>1, <1>2 DEF PageTypes, PageRecords
  <1>4. \A i \in DOMAIN wire : wire[i].mount \in Nat /\ wire[i].mount <= page.mount
    <2>1. \A i \in DOMAIN wire : wire[i] \in CallRecords
      BY <1>0 DEF PageTypes
    <2> QED
      BY <1>0, <2>1 DEF CallRecords, CallsFit, CallFits
  <1>5. \A a \in answers : a.mount \in Nat /\ a.mount <= page.mount
    BY <1>0 DEF PageTypes, AnswerRecords, CallsFit, CallFits
  <1>6. CallsFit'
    BY <1>0, <1>1, <1>2, <1>4, <1>5 DEF CallsFit, CallFits
  <1>7. /\ \A i \in DOMAIN wire' : ~Ours(wire[i])'
        /\ \A a \in answers' : ~Ours(a)'
    BY <1>1, <1>2, <1>4, <1>5 DEF Ours
  <1>8. OneHolds'
    BY <1>2, <1>7 DEF OneHolds, WireHolds, AnswerHolds, Holding
  <1>9. PageWillShow'
    BY <1>2, <1>7 DEF PageWillShow, ListsAreCurrent, ChangeIsOut, WireHolds, AnswerHolds, Holding
  <1> QED
    BY <1>3, <1>6, <1>8, <1>9 DEF PageInv

\* The page is left.
LEMMA UnmountStep ==
  ASSUME PageInv, Unmount
  PROVE  PageInv'
  <1>0. PageTypes /\ CallsFit
    BY DEF PageInv
  <1>1. page' = [page EXCEPT !.open = FALSE] /\ UNCHANGED <<onBand, linked, wire, answers, excused>>
    BY DEF Unmount, world
  <1>2. page' \in PageRecords /\ ~page'.open /\ page'.mount = page.mount
    BY <1>0, <1>1, PageIsRecord DEF PageRecords
  <1>3. PageTypes' /\ CallsFit'
    BY <1>0, <1>1, <1>2 DEF PageTypes, PageRecords, CallsFit, CallFits
  <1> QED
    BY <1>2, <1>3 DEF PageInv, OneHolds, PageWillShow

\* The page takes the flag, and its call is well formed.
LEMMA StartTypes ==
  ASSUME PageTypes, NEW p \in PageRecords, NEW op \in Operations, NEW face \in Shows,
         Starts(p, op, face), excused' \in BOOLEAN, linked' = linked, onBand' = onBand,
         answers' \subseteq answers
  PROVE  /\ PageTypes' /\ wire' = Append(wire, Call(op, face, "busy"))
         /\ page'.mount = p.mount /\ page'.open = p.open /\ page'.busy
         /\ page'.connected = p.connected /\ page'.items = p.items
         /\ (op # "list" => page'.error = p.error)
  <1>1. /\ wire' = Append(wire, Call(op, face, "busy"))
        /\ page' = [p EXCEPT !.busy = TRUE, !.error = IF op = "list" THEN FALSE ELSE @]
    BY DEF Starts
  <1>2. wire' \in Seq(CallRecords)
    BY <1>1, CallIsRecord, AppendedCall DEF PageTypes
  <1>3. /\ page' \in PageRecords /\ page'.mount = p.mount /\ page'.open = p.open /\ page'.busy
        /\ page'.connected = p.connected /\ page'.items = p.items
        /\ (op # "list" => page'.error = p.error)
    BY <1>1 DEF PageRecords
  <1> QED
    BY <1>1, <1>2, <1>3 DEF PageTypes, PageRecords

\* The page hears of its connection.
LEMMA ConnectedStep ==
  ASSUME PageInv, Connected
  PROVE  PageInv'
  <1>0. PageTypes /\ page.open /\ page.connected # linked /\ UNCHANGED <<onBand, linked, answers>>
    BY DEF PageInv, Connected, world
  <1>1. CASE linked /\ ~page.busy
    <2> DEFINE p == [page EXCEPT !.connected = TRUE]
    <2>1. Starts(p, "list", "none") /\ ExcusedBy("list")
      BY <1>1 DEF Connected
    <2>2. p \in PageRecords /\ p.mount = page.mount /\ p.open = page.open
      BY <1>0, PageIsRecord DEF PageRecords
    <2> HIDE DEF p
    <2>3. excused' = (~(wire = <<>> /\ answers = {}) /\ excused) /\ excused' \in BOOLEAN
      BY <1>0, <2>1 DEF ExcusedBy, PageTypes
    <2>4. /\ PageTypes' /\ wire' = Append(wire, Call("list", "none", "busy"))
          /\ page'.mount = page.mount /\ page'.open = page.open /\ page'.busy
      BY <1>0, <2>1, <2>2, <2>3, StartTypes DEF Operations, Shows
    <2>5. (\A i \in DOMAIN wire : ~WireHolds(i)) /\ (\A a \in answers' : ~Holding(a))
      BY <1>0, <1>1 DEF PageInv, OneHolds, AnswerHolds
    <2> QED
      BY <1>0, <2>3, <2>4, <2>5, ListStarts
  <1>2. CASE ~(linked /\ ~page.busy)
    <2>1. page' = [page EXCEPT !.connected = linked] /\ UNCHANGED <<wire, excused>>
      BY <1>2 DEF Connected
    <2>2. /\ page' \in PageRecords /\ page'.mount = page.mount /\ page'.open = page.open
          /\ page'.busy = page.busy /\ page'.error = page.error /\ page'.items = page.items
          /\ page'.connected = linked
      BY <1>0, <2>1, PageIsRecord DEF PageRecords, PageTypes
    <2>3. PageTypes' /\ CallsFit'
      BY <1>0, <2>1, <2>2 DEF PageInv, PageTypes, PageRecords, CallsFit, CallFits
    <2>4. OneHolds'
      BY <1>0, <2>1, <2>2 DEF PageInv, OneHolds, WireHolds, AnswerHolds, Holding, Ours
    <2>5. PageWillShow'
      <3>1. page'.connected \/ page'.busy => page.connected \/ page.busy
        BY <1>0, <1>2, <2>2 DEF PageTypes
      <3> QED
        BY <1>0, <2>1, <2>2, <3>1
        DEF PageInv, PageWillShow, ListsAreCurrent, ChangeIsOut, AfterIsOut, IsTold, ListIsOut,
            Tells, Done, WireHolds, AnswerHolds, Holding, Ours
    <2> QED
      BY <2>3, <2>4, <2>5 DEF PageInv
  <1> QED
    BY <1>1, <1>2

\* The user asks for something.
LEMMA UserStep ==
  ASSUME PageInv, Refresh \/ SetWatchface \/ InstallWatchface
  PROVE  PageInv'
  <1>0. PageTypes /\ page \in PageRecords /\ page.items.has \subseteq PageFaces
    BY PageIsRecord DEF PageInv
  <1>1. page.open /\ page.connected /\ ~page.busy /\ UNCHANGED <<onBand, linked, answers>>
    BY DEF Refresh, SetWatchface, InstallWatchface, Usable, world
  <1>2. CASE Refresh
    <2>1. Starts(page, "list", "none") /\ excused' = (~(wire = <<>> /\ answers = {}) /\ excused)
      BY <1>2 DEF Refresh, ExcusedBy
    <2>2. excused' \in BOOLEAN
      BY <1>0, <2>1 DEF PageTypes
    <2>3. /\ PageTypes' /\ wire' = Append(wire, Call("list", "none", "busy"))
          /\ page'.mount = page.mount /\ page'.open = page.open /\ page'.busy
      BY <1>0, <1>1, <2>1, <2>2, StartTypes DEF Operations, Shows
    <2>4. (\A i \in DOMAIN wire : ~WireHolds(i)) /\ (\A a \in answers' : ~Holding(a))
      BY <1>1 DEF PageInv, OneHolds, AnswerHolds
    <2> QED
      BY <1>1, <2>1, <2>3, <2>4, ListStarts
  <1>3. CASE SetWatchface \/ InstallWatchface
    <2>1. PICK op \in Changes, face \in PageFaces : Starts(page, op, face) /\ ExcusedBy(op)
      BY <1>0, <1>3 DEF SetWatchface, InstallWatchface, Changes
    <2>2. op \in Operations /\ op # "list" /\ face \in Shows
      BY DEF Operations, Changes, Shows
    <2>3. excused' = (excused \/ \E a \in Range(wire) \cup answers : Ours(a) /\ a.why = "after")
      BY <2>1, <2>2 DEF ExcusedBy
    <2>4. excused' \in BOOLEAN
      BY <2>3
    <2>5. ~excused' => ~excused /\ ~AfterIsOut
      BY <2>3 DEF AfterIsOut, Range
    <2>6. /\ PageTypes' /\ wire' = Append(wire, Call(op, face, "busy"))
          /\ page'.mount = page.mount /\ page'.open = page.open /\ page'.busy
          /\ page'.error = page.error /\ page'.items = page.items
      BY <1>0, <1>1, <2>1, <2>2, <2>4, StartTypes
    <2> QED
      BY <1>1, <2>2, <2>5, <2>6, ChangeStarts
  <1> QED
    BY <1>2, <1>3

\* A call is given up.
LEMMA TimesOutStep ==
  ASSUME PageInv, TimesOut
  PROVE  PageInv'
  <1>0. PageTypes /\ CallsFit /\ OneHolds /\ PageWillShow
    BY DEF PageInv
  <1>1. PICK i \in DOMAIN wire :
           /\ ~wire[i].given
           /\ answers' = answers \cup {[op |-> wire[i].op, face |-> wire[i].face,
                why |-> wire[i].why, mount |-> wire[i].mount, ok |-> FALSE, has |-> {}, cur |-> "none"]}
           /\ wire' = [wire EXCEPT ![i].given = TRUE]
           /\ UNCHANGED <<onBand, linked, page, excused>>
    BY DEF TimesOut, world
  <1>2. wire[i] \in CallRecords /\ \A j \in DOMAIN wire : wire[j] \in CallRecords
    BY <1>0 DEF PageTypes
  <1>3. PICK t \in AnswerRecords :
           /\ answers' = answers \cup {t} /\ ~t.ok
           /\ t.op = wire[i].op /\ t.why = wire[i].why /\ t.mount = wire[i].mount
    <2> DEFINE r == [op |-> wire[i].op, face |-> wire[i].face, why |-> wire[i].why,
                     mount |-> wire[i].mount, ok |-> FALSE, has |-> {}, cur |-> "none"]
    <2>1. /\ r \in AnswerRecords /\ ~r.ok
          /\ r.op = wire[i].op /\ r.why = wire[i].why /\ r.mount = wire[i].mount
      BY <1>2 DEF CallRecords, AnswerRecords, Shows
    <2>2. answers' = answers \cup {r}
      BY <1>1
    <2> HIDE DEF r
    <2> QED
      BY <2>1, <2>2
  <1>4. /\ wire' \in Seq(CallRecords) /\ DOMAIN wire' = DOMAIN wire
        /\ wire'[i].given /\ wire'[i].op = wire[i].op /\ wire'[i].why = wire[i].why
        /\ wire'[i].mount = wire[i].mount
        /\ \A j \in DOMAIN wire \ {i} : wire'[j] = wire[j]
    <2> DEFINE r == [wire[i] EXCEPT !.given = TRUE]
    <2>1. /\ r \in CallRecords /\ r.given /\ r.op = wire[i].op /\ r.why = wire[i].why
          /\ r.mount = wire[i].mount
      BY <1>2 DEF CallRecords
    <2>2. wire \in Seq(CallRecords) /\ wire' = [wire EXCEPT ![i] = r]
      BY <1>0, <1>1 DEF PageTypes
    <2> HIDE DEF r
    <2>3. wire' \in Seq(CallRecords) /\ DOMAIN wire' = DOMAIN wire
      BY <2>1, <2>2
    <2>4. wire'[i] = r /\ \A j \in DOMAIN wire \ {i} : wire'[j] = wire[j]
      BY <2>2
    <2> QED
      BY <2>1, <2>3, <2>4
  <1>5. PageTypes'
    BY <1>0, <1>1, <1>3, <1>4 DEF PageTypes
  <1>6. CallsFit'
    BY <1>0, <1>1, <1>3, <1>4 DEF CallsFit, CallFits
  <1>7. OneHolds'
    <2> SUFFICES ASSUME page.open PROVE OneHolds'
      BY <1>1 DEF OneHolds
    <2>1. \A j \in DOMAIN wire' : WireHolds(j)' <=> WireHolds(j) /\ j # i
      BY <1>1, <1>4 DEF WireHolds, Holding, Ours
    <2>2. \A a \in answers' : AnswerHolds(a)' <=> AnswerHolds(a) \/ (a = t /\ WireHolds(i))
      BY <1>1, <1>3 DEF WireHolds, AnswerHolds, Holding, Ours
    <2>3. t \in answers' /\ answers \subseteq answers' /\ \A a \in answers' : a \in answers \/ a = t
      BY <1>3
    <2>4. CASE WireHolds(i)
      <3>1. page.busy /\ (\A j \in DOMAIN wire' : ~WireHolds(j)') /\ \A a \in answers' : AnswerHolds(a)' <=> a = t
        BY <1>0, <1>4, <2>1, <2>2, <2>3, <2>4 DEF OneHolds, AnswerHolds
      <3> QED
        BY <1>1, <2>3, <3>1 DEF OneHolds
    <2>5. CASE ~WireHolds(i)
      <3>1. /\ \A j \in DOMAIN wire' : WireHolds(j)' <=> WireHolds(j)
            /\ \A a \in answers' : AnswerHolds(a)' <=> AnswerHolds(a)
        BY <1>4, <2>1, <2>2, <2>5
      <3>2. \A a : AnswerHolds(a) => a \in answers
        BY DEF AnswerHolds
      <3> QED
        BY <1>0, <1>1, <1>4, <2>3, <3>1, <3>2 DEF OneHolds
    <2> QED
      BY <2>4, <2>5
  <1>8. PageWillShow'
    <2> SUFFICES ASSUME page.open, ~excused
                 PROVE  /\ ListsAreCurrent' /\ ~(ChangeIsOut' /\ AfterIsOut')
                        /\ ~page.error /\ (page.connected \/ page.busy) => IsTold'
      BY <1>1 DEF PageWillShow
    <2>1. ListsAreCurrent'
      BY <1>0, <1>1, <1>3 DEF PageWillShow, ListsAreCurrent, Ours
    <2>2. AfterIsOut' => AfterIsOut
      BY <1>1, <1>3, <1>4 DEF AfterIsOut, Ours
    <2>3. ChangeIsOut' => ChangeIsOut
      BY <1>1, <1>3, <1>4 DEF ChangeIsOut, WireHolds, AnswerHolds, Holding, Ours
    <2>4. ASSUME IsTold
          PROVE  IsTold'
      <3>1. CASE ListIsOut
        BY <1>1, <1>3, <1>4, <3>1 DEF ListIsOut, IsTold, Ours
      <3>2. ASSUME NEW a \in answers, Tells(a)
            PROVE  IsTold'
        BY <1>1, <1>3, <3>2 DEF IsTold, Tells, Ours
      <3>3. CASE page.items = onBand /\ \A a \in answers : ~Done(a)
        BY <1>1, <1>3, <3>3 DEF IsTold, Done, Ours
      <3> QED
        BY <2>4, <3>1, <3>2, <3>3 DEF IsTold
    <2> QED
      BY <1>0, <2>1, <2>2, <2>3, <2>4 DEF PageWillShow
  <1> QED
    BY <1>5, <1>6, <1>7, <1>8 DEF PageInv

\* What the core does with a call, and what it answers.
LEMMA CoreAnswers ==
  ASSUME PageTypes, CallsFit, RunCall
  PROVE  \E call \in CallRecords, r \in AnswerRecords :
           /\ wire # <<>> /\ call = wire[1]
           /\ r.op = call.op /\ r.why = call.why /\ r.mount = call.mount /\ r.face = call.face
           /\ answers' = (IF call.given THEN answers ELSE answers \cup {r})
           /\ onBand' \in [has : SUBSET PageFaces, cur : Shows]
           /\ onBand' = [has |-> r.has, cur |-> r.cur]
           /\ r.ok /\ r.op = "set" => r.face \in onBand.has /\ onBand' = [has |-> onBand.has, cur |-> r.face]
           /\ excused' \in BOOLEAN
           /\ ~excused' => /\ ~excused
                           /\ onBand' = onBand \/ (r.ok /\ ~call.given /\ Ours(call) /\ call.op \in Changes)
  <1> DEFINE call == Head(wire)
  <1>0. wire # <<>> /\ wire \in Seq(CallRecords)
    BY DEF RunCall, PageTypes
  <1>1. call \in CallRecords /\ call = wire[1] /\ 1 \in DOMAIN wire
    BY <1>0
  <1>2. PICK ok \in BOOLEAN, done \in BOOLEAN :
          /\ ok => linked /\ done
          /\ (ok /\ call.op = "set") => call.face \in onBand.has
          /\ onBand' = CASE done /\ call.op = "set" /\ call.face \in onBand.has ->
                              [onBand EXCEPT !.cur = call.face]
                         [] done /\ call.op = "install" ->
                              [has |-> onBand.has \cup {call.face}, cur |-> call.face]
                         [] OTHER -> onBand
          /\ answers' = IF call.given THEN answers ELSE answers \cup {Result(call, ok)}
          /\ excused' = (excused \/ (onBand' # onBand /\ (~ok \/ call.given \/ ~Ours(call))))
    BY DEF RunCall
  <1> HIDE DEF call
  <1>3. onBand \in [has : SUBSET PageFaces, cur : Shows] /\ excused \in BOOLEAN
    BY DEF PageTypes
  <1>4. call.op = "install" => call.face \in PageFaces
    <2>1. CallFits(call)
      BY <1>1 DEF CallsFit
    <2> QED
      BY <2>1 DEF CallFits, Changes
  <1>5. onBand' \in [has : SUBSET PageFaces, cur : Shows]
    <2>1. CASE done /\ call.op = "set" /\ call.face \in onBand.has
      BY <1>1, <1>2, <1>3, <2>1 DEF CallRecords
    <2>2. CASE done /\ call.op = "install"
      BY <1>1, <1>2, <1>3, <1>4, <2>2 DEF CallRecords
    <2>3. CASE ~(done /\ call.op = "set" /\ call.face \in onBand.has) /\ ~(done /\ call.op = "install")
      BY <1>2, <1>3, <2>3
    <2> QED
      BY <2>1, <2>2, <2>3
  <1>6. onBand' = onBand \/ call.op \in Changes
    BY <1>2 DEF Changes
  <1>7. ok /\ call.op = "set" => onBand' = [has |-> onBand.has, cur |-> call.face]
    BY <1>2, <1>3
  <1>8. PICK r \in AnswerRecords :
          /\ r = Result(call, ok) /\ r.op = call.op /\ r.why = call.why /\ r.mount = call.mount
          /\ r.ok = ok /\ r.face = call.face /\ r.has = onBand'.has /\ r.cur = onBand'.cur
    <2> DEFINE r == Result(call, ok)
    <2>1. onBand'.has \subseteq PageFaces /\ onBand'.cur \in Shows
      BY <1>5
    <2>2. /\ r \in AnswerRecords /\ r.op = call.op /\ r.why = call.why /\ r.mount = call.mount
          /\ r.ok = ok /\ r.face = call.face /\ r.has = onBand'.has /\ r.cur = onBand'.cur
      BY <1>1, <2>1 DEF Result, CallRecords, AnswerRecords
    <2>3. r = Result(call, ok)
      OBVIOUS
    <2> HIDE DEF r
    <2> QED
      BY <2>2, <2>3
  <1>9. onBand' = [has |-> r.has, cur |-> r.cur]
    BY <1>5, <1>8
  <1>10. excused' \in BOOLEAN /\ (~excused' => ~excused /\ (onBand' = onBand \/ (ok /\ ~call.given /\ Ours(call))))
    BY <1>2, <1>3
  <1> QED
    BY <1>0, <1>1, <1>2, <1>5, <1>6, <1>7, <1>8, <1>9, <1>10

\* The core runs a call.
LEMMA RunCallStep ==
  ASSUME PageInv, RunCall
  PROVE  PageInv'
  <1>0. PageTypes /\ CallsFit /\ OneHolds /\ PageWillShow
    BY DEF PageInv
  <1>1. PICK call \in CallRecords, r \in AnswerRecords :
           /\ wire # <<>> /\ call = wire[1]
           /\ r.op = call.op /\ r.why = call.why /\ r.mount = call.mount /\ r.face = call.face
           /\ answers' = (IF call.given THEN answers ELSE answers \cup {r})
           /\ onBand' \in [has : SUBSET PageFaces, cur : Shows]
           /\ onBand' = [has |-> r.has, cur |-> r.cur]
           /\ r.ok /\ r.op = "set" => r.face \in onBand.has /\ onBand' = [has |-> onBand.has, cur |-> r.face]
           /\ excused' \in BOOLEAN
           /\ ~excused' => /\ ~excused
                           /\ onBand' = onBand \/ (r.ok /\ ~call.given /\ Ours(call) /\ call.op \in Changes)
    BY <1>0, CoreAnswers
  <1>2. wire' = Tail(wire) /\ UNCHANGED <<linked, page>>
    BY DEF RunCall
  <1>3. /\ wire' \in Seq(CallRecords) /\ 1 \in DOMAIN wire
        /\ \A i \in DOMAIN wire' : i + 1 \in DOMAIN wire /\ wire'[i] = wire[i + 1] /\ i + 1 # 1 /\ i \in Nat
        /\ \A i \in DOMAIN wire : i # 1 => i - 1 \in DOMAIN wire' /\ wire'[i - 1] = wire[i]
    BY <1>0, <1>1, <1>2, RemovedCall DEF PageTypes
  <1>4. PageTypes'
    BY <1>0, <1>1, <1>2, <1>3 DEF PageTypes
  <1>5. CallsFit'
    BY <1>0, <1>1, <1>2, <1>3 DEF CallsFit, CallFits
  <1>6. /\ \A i \in DOMAIN wire' : WireHolds(i)' <=> WireHolds(i + 1)
        /\ \A a \in answers' : AnswerHolds(a)' <=> AnswerHolds(a) \/ (a = r /\ WireHolds(1))
    <2>1. \A i \in DOMAIN wire' : WireHolds(i)' <=> WireHolds(i + 1)
      BY <1>2, <1>3 DEF WireHolds, Holding, Ours
    <2>2. \A a \in answers' : AnswerHolds(a)' <=> AnswerHolds(a) \/ (a = r /\ WireHolds(1))
      BY <1>1, <1>2, <1>3 DEF WireHolds, AnswerHolds, Holding, Ours
    <2> QED
      BY <2>1, <2>2
  <1>7. OneHolds'
    <2> SUFFICES ASSUME page.open PROVE OneHolds'
      BY <1>2 DEF OneHolds
    <2>1. \A a : AnswerHolds(a) => a \in answers /\ a \in answers'
      BY <1>1 DEF AnswerHolds
    <2>2. CASE WireHolds(1)
      <3>1. page.busy /\ (\A i \in DOMAIN wire' : ~WireHolds(i)')
        BY <1>0, <1>3, <1>6, <2>2 DEF OneHolds
      <3>2. r \in answers'
        BY <1>1, <2>2 DEF WireHolds
      <3>3. \A a \in answers' : AnswerHolds(a)' <=> a = r
        BY <1>0, <1>3, <1>6, <2>1, <2>2 DEF OneHolds
      <3> QED
        BY <1>2, <3>1, <3>2, <3>3 DEF OneHolds
    <2>3. CASE ~WireHolds(1)
      <3>1. \A a \in answers' : AnswerHolds(a)' <=> AnswerHolds(a)
        BY <1>6, <2>3
      <3>2. \A i, j \in DOMAIN wire' : WireHolds(i)' /\ WireHolds(j)' => i = j
        <4> SUFFICES ASSUME NEW i \in DOMAIN wire', NEW j \in DOMAIN wire', WireHolds(i)', WireHolds(j)'
                     PROVE  i = j
          OBVIOUS
        <4>1. i + 1 = j + 1 /\ i \in Nat /\ j \in Nat
          BY <1>0, <1>3, <1>6 DEF OneHolds
        <4> QED
          BY <4>1
      <3>3. (\E i \in DOMAIN wire' : WireHolds(i)') <=> \E i \in DOMAIN wire : WireHolds(i)
        <4>1. ASSUME NEW i \in DOMAIN wire, WireHolds(i)
              PROVE  \E j \in DOMAIN wire' : WireHolds(j)'
          <5>1. i # 1 /\ i - 1 \in DOMAIN wire' /\ (i - 1) + 1 = i
            BY <1>0, <1>3, <2>3, <4>1 DEF PageTypes
          <5> QED
            BY <1>6, <4>1, <5>1
        <4> QED
          BY <1>3, <1>6, <4>1
      <3>4. \A i \in DOMAIN wire', a \in answers' : ~(WireHolds(i)' /\ AnswerHolds(a)')
        BY <1>0, <1>3, <1>6, <2>1, <3>1 DEF OneHolds
      <3> QED
        BY <1>0, <1>2, <2>1, <3>1, <3>2, <3>3, <3>4 DEF OneHolds
    <2> QED
      BY <2>2, <2>3
  <1>8. PageWillShow'
    <2> SUFFICES ASSUME page.open, ~excused'
                 PROVE  /\ ListsAreCurrent' /\ ~(ChangeIsOut' /\ AfterIsOut')
                        /\ ~page.error /\ (page.connected \/ page.busy) => IsTold'
      BY <1>2 DEF PageWillShow
    <2>1. ~excused /\ ListsAreCurrent /\ ~(ChangeIsOut /\ AfterIsOut)
      BY <1>0, <1>1 DEF PageWillShow
    <2>2. AfterIsOut' => AfterIsOut
      BY <1>1, <1>2, <1>3 DEF AfterIsOut, Ours
    <2>3. ChangeIsOut' => ChangeIsOut
      <3>1. ASSUME NEW i \in DOMAIN wire', WireHolds(i)', wire'[i].op \in Changes
            PROVE  ChangeIsOut
        BY <1>3, <1>6, <3>1 DEF ChangeIsOut
      <3>2. ASSUME NEW a \in answers', AnswerHolds(a)', a.op \in Changes
            PROVE  ChangeIsOut
        <4>1. CASE AnswerHolds(a)
          BY <3>2, <4>1 DEF ChangeIsOut, AnswerHolds
        <4>2. CASE a = r /\ WireHolds(1)
          BY <1>1, <1>3, <3>2, <4>2 DEF ChangeIsOut
        <4> QED
          BY <1>6, <3>2, <4>1, <4>2
      <3> QED
        BY <3>1, <3>2 DEF ChangeIsOut
    <2>4. CASE onBand' = onBand
      <3>1. ListsAreCurrent'
        BY <1>1, <1>2, <2>1, <2>4 DEF ListsAreCurrent, Ours
      <3>2. ASSUME IsTold
            PROVE  IsTold'
        <4>1. CASE ListIsOut
          <5>1. ASSUME NEW i \in DOMAIN wire, ~wire[i].given, Ours(wire[i]), wire[i].op = "list"
                PROVE  ListIsOut'
            <6>1. CASE i = 1
              BY <1>1, <1>2, <5>1, <6>1 DEF ListIsOut, Ours
            <6>2. CASE i # 1
              <7>1. PICK j \in DOMAIN wire' : wire'[j] = wire[i]
                BY <1>3, <6>2
              <7>2. ~wire'[j].given /\ Ours(wire[j])' /\ wire'[j].op = "list"
                BY <1>2, <5>1, <7>1 DEF Ours
              <7> QED
                BY <7>2 DEF ListIsOut
            <6> QED
              BY <6>1, <6>2
          <5>2. ASSUME NEW a \in answers, Ours(a), a.op = "list"
                PROVE  ListIsOut'
            BY <1>1, <1>2, <5>2 DEF ListIsOut, Ours
          <5> QED
            BY <4>1, <5>1, <5>2 DEF ListIsOut, IsTold
        <4>2. ASSUME NEW a \in answers, Tells(a)
              PROVE  IsTold'
          BY <1>1, <1>2, <2>4, <4>2 DEF IsTold, Tells, Ours
        <4>3. CASE page.items = onBand /\ \A a \in answers : ~Done(a)
          <5>1. CASE r \in answers' /\ Done(r)'
            <6>1. Tells(r)'
              <7>1. r.op = "set" \/ r.op = "install"
                BY <5>1 DEF Done, Changes
              <7>2. CASE r.op = "set"
                BY <1>1, <1>2, <2>4, <4>3, <5>1, <7>2 DEF Done, Tells, Ours
              <7>3. CASE r.op = "install"
                BY <1>2, <5>1, <7>3 DEF Done, Tells, Ours
              <7> QED
                BY <7>1, <7>2, <7>3
            <6> QED
              BY <5>1, <6>1 DEF IsTold
          <5>2. CASE ~(r \in answers' /\ Done(r)')
            BY <1>1, <1>2, <2>4, <4>3, <5>2 DEF IsTold, Done, Ours
          <5> QED
            BY <5>1, <5>2
        <4> QED
          BY <3>2, <4>1, <4>2, <4>3 DEF IsTold
      <3> QED
        BY <1>0, <2>1, <2>2, <2>3, <3>1, <3>2 DEF PageWillShow
    <2>5. CASE onBand' # onBand
      <3>1. r.ok /\ ~call.given /\ Ours(call) /\ call.op \in Changes
        BY <1>1, <2>5
      <3>2. WireHolds(1)
        BY <1>0, <1>1, <1>3, <3>1, ChangesHold DEF Changes
      <3>3. ~AfterIsOut
        BY <1>1, <1>3, <2>1, <3>1, <3>2 DEF ChangeIsOut
      <3>4. /\ page.busy /\ (\A i \in DOMAIN wire : WireHolds(i) => i = 1)
            /\ \A a \in answers : ~AnswerHolds(a)
        BY <1>0, <1>3, <3>2 DEF OneHolds
      <3>5. \A a \in answers : ~Ours(a)
        BY <1>0, <3>3, <3>4, ChangesHold DEF AfterIsOut
      <3>6. ListsAreCurrent'
        BY <1>1, <1>2, <3>1, <3>5 DEF ListsAreCurrent, Ours, Changes
      <3>7. ASSUME ~page.error
            PROVE  IsTold'
        <4>1. IsTold
          BY <1>0, <2>1, <3>4, <3>7 DEF PageWillShow
        <4>2. ~ListIsOut
          <5>1. \A i \in DOMAIN wire : Ours(wire[i]) /\ ~wire[i].given => wire[i].op # "list"
            BY <1>0, <1>1, <3>1, <3>3, <3>4, ChangesHold DEF AfterIsOut, Changes
          <5> QED
            BY <3>5, <5>1 DEF ListIsOut
        <4>3. page.items = onBand
          BY <3>5, <4>1, <4>2 DEF IsTold, Tells
        <4>4. Tells(r)' /\ r \in answers'
          <5>1. r.op = "set" \/ r.op = "install"
            BY <1>1, <3>1 DEF Changes
          <5>2. r \in answers' /\ Ours(r)'
            BY <1>1, <1>2, <3>1 DEF Ours
          <5>3. CASE r.op = "set"
            BY <1>1, <1>2, <3>1, <4>3, <5>2, <5>3 DEF Tells
          <5>4. CASE r.op = "install"
            BY <3>1, <5>2, <5>4 DEF Tells
          <5> QED
            BY <5>1, <5>2, <5>3, <5>4
        <4> QED
          BY <4>4 DEF IsTold
      <3> QED
        BY <2>2, <3>3, <3>6, <3>7
    <2> QED
      BY <2>4, <2>5
  <1> QED
    BY <1>4, <1>5, <1>7, <1>8 DEF PageInv

\* An answer is heard that is not of this page.
LEMMA HearOther ==
  ASSUME PageInv, NEW a \in answers, ~Ours(a), answers' = answers \ {a},
         UNCHANGED <<onBand, linked, page, wire, excused>>
  PROVE  PageInv'
  <1>1. PageTypes' /\ CallsFit'
    BY DEF PageInv, PageTypes, CallsFit, CallFits
  <1>2. OneHolds'
    BY DEF PageInv, OneHolds, WireHolds, AnswerHolds, Holding, Ours
  <1>3. PageWillShow'
    <2> SUFFICES ASSUME page.open, ~excused
                 PROVE  /\ ListsAreCurrent' /\ (ChangeIsOut' => ChangeIsOut) /\ (AfterIsOut' => AfterIsOut)
                        /\ (IsTold => IsTold')
      BY DEF PageInv, PageWillShow
    <2>1. ListsAreCurrent'
      BY DEF PageInv, PageWillShow, ListsAreCurrent, Ours
    <2>2. (ChangeIsOut' => ChangeIsOut) /\ (AfterIsOut' => AfterIsOut)
      BY DEF ChangeIsOut, AfterIsOut, WireHolds, AnswerHolds, Holding, Ours
    <2>3. ListIsOut => ListIsOut'
      BY DEF ListIsOut, Ours
    <2>4. ASSUME NEW b \in answers, Tells(b)
          PROVE  IsTold'
      BY <2>4 DEF IsTold, Tells, Ours
    <2>5. ASSUME page.items = onBand, \A b \in answers : ~Done(b)
          PROVE  IsTold'
      BY <2>5 DEF IsTold, Done, Ours
    <2> QED
      BY <2>1, <2>2, <2>3, <2>4, <2>5 DEF IsTold
  <1> QED
    BY <1>1, <1>2, <1>3 DEF PageInv

\* An answer is heard that is of this page: nothing else holds the flag.
LEMMA HeldByAnswer ==
  ASSUME PageInv, NEW a \in answers, Ours(a), a.why = "busy"
  PROVE  /\ page.busy /\ (\A i \in DOMAIN wire : ~WireHolds(i))
         /\ \A b \in answers : AnswerHolds(b) => b = a
         /\ \A b \in answers \ {a} : ~Holding(b)
  <1>1. AnswerHolds(a) /\ page.open
    BY DEF AnswerHolds, Holding, Ours
  <1> QED
    BY <1>1 DEF PageInv, OneHolds, AnswerHolds

\* The list that follows an install is heard.
LEMMA HearAfter ==
  ASSUME PageInv, NEW a \in answers, Ours(a), a.why = "after", LoadedAfter(a),
         answers' = answers \ {a}, UNCHANGED <<onBand, linked>>
  PROVE  PageInv'
  <1>0. /\ PageTypes /\ CallsFit /\ OneHolds /\ PageWillShow
        /\ a \in AnswerRecords /\ a.op = "list" /\ page.open
    BY DEF PageInv, PageTypes, CallsFit, CallFits, Ours
  <1>1. /\ page' = [page EXCEPT !.items = IF a.ok THEN [has |-> a.has, cur |-> a.cur] ELSE @]
        /\ excused' = (excused \/ ~a.ok) /\ wire' = wire
    BY DEF LoadedAfter
  <1>2. /\ page' \in PageRecords /\ page'.mount = page.mount /\ page'.open = page.open
        /\ page'.busy = page.busy /\ page'.error = page.error /\ page'.connected = page.connected
        /\ (a.ok => page'.items = [has |-> a.has, cur |-> a.cur])
    BY <1>0, <1>1, PageIsRecord DEF PageRecords, AnswerRecords
  <1>3. PageTypes' /\ CallsFit'
    <2>1. excused' \in BOOLEAN
      BY <1>1
    <2> QED
      BY <1>0, <1>1, <1>2, <2>1 DEF PageTypes, PageRecords, CallsFit, CallFits
  <1>4. OneHolds'
    BY <1>0, <1>1, <1>2 DEF OneHolds, WireHolds, AnswerHolds, Holding, Ours
  <1>5. PageWillShow'
    <2> SUFFICES ASSUME ~excused'
                 PROVE  ListsAreCurrent' /\ ~ChangeIsOut' /\ IsTold'
      BY DEF PageWillShow
    <2>1. ~excused /\ a.ok /\ ListsAreCurrent /\ ~ChangeIsOut
      BY <1>0, <1>1 DEF PageWillShow, AfterIsOut
    <2>2. ListsAreCurrent'
      BY <1>2, <2>1 DEF ListsAreCurrent, Ours
    <2>3. ~ChangeIsOut'
      BY <1>1, <1>2, <2>1 DEF ChangeIsOut, WireHolds, AnswerHolds, Holding, Ours
    <2>4. page'.items = onBand'
      BY <1>0, <1>2, <2>1 DEF ListsAreCurrent
    <2>5. \A b \in answers : ~Done(b)
      BY <1>0, <2>1, ChangesHold DEF Done, ChangeIsOut, Changes
    <2> QED
      BY <1>2, <2>2, <2>3, <2>4, <2>5 DEF IsTold, Done, Ours
  <1> QED
    BY <1>3, <1>4, <1>5 DEF PageInv

\* The page's own list is heard.
LEMMA HearList ==
  ASSUME PageInv, NEW a \in answers, Ours(a), a.why = "busy", a.op = "list", Loaded(a),
         answers' = answers \ {a}, UNCHANGED <<onBand, linked>>
  PROVE  PageInv'
  <1>0. /\ PageTypes /\ CallsFit /\ OneHolds /\ PageWillShow /\ a \in AnswerRecords /\ page.open
    BY DEF PageInv, PageTypes, Ours
  <1>1. /\ page' = [page EXCEPT !.busy = FALSE, !.error = ~a.ok,
                          !.items = IF a.ok THEN [has |-> a.has, cur |-> a.cur] ELSE @]
        /\ UNCHANGED <<wire, excused>>
    BY DEF Loaded
  <1>2. /\ page' \in PageRecords /\ page'.mount = page.mount /\ page'.open = page.open
        /\ ~page'.busy /\ page'.error = ~a.ok
        /\ (a.ok => page'.items = [has |-> a.has, cur |-> a.cur])
    <2>1. CASE a.ok
      <3>1. page' = [page EXCEPT !.busy = FALSE, !.error = FALSE, !.items = [has |-> a.has, cur |-> a.cur]]
        BY <1>1, <2>1
      <3> QED
        BY <1>0, <2>1, <3>1, PageIsRecord DEF PageRecords, AnswerRecords
    <2>2. CASE ~a.ok
      <3>1. page' = [page EXCEPT !.busy = FALSE, !.error = TRUE, !.items = @]
        BY <1>1, <2>2
      <3> QED
        BY <1>0, <2>2, <3>1, PageIsRecord DEF PageRecords, AnswerRecords
    <2> QED
      BY <2>1, <2>2
  <1>3. PageTypes' /\ CallsFit'
    BY <1>0, <1>1, <1>2 DEF PageTypes, PageRecords, CallsFit, CallFits
  <1>4. /\ \A i \in DOMAIN wire' : ~WireHolds(i)'
        /\ \A b \in answers' : ~AnswerHolds(b)'
    BY <1>1, <1>2, HeldByAnswer DEF WireHolds, AnswerHolds, Holding, Ours
  <1>5. OneHolds'
    BY <1>2, <1>4 DEF OneHolds
  <1>6. PageWillShow'
    <2> SUFFICES ASSUME ~excused
                 PROVE  ListsAreCurrent' /\ ~ChangeIsOut' /\ (~page'.error => IsTold')
      BY <1>1 DEF PageWillShow
    <2>1. ListsAreCurrent /\ ListsAreCurrent'
      BY <1>0, <1>2 DEF PageWillShow, ListsAreCurrent, Ours
    <2>2. ~ChangeIsOut'
      BY <1>4 DEF ChangeIsOut
    <2>3. ASSUME ~page'.error
          PROVE  IsTold'
      <3>1. a.ok
        BY <1>2, <2>3
      <3>2. page'.items = onBand'
        BY <1>2, <2>1, <3>1 DEF ListsAreCurrent
      <3>3. \A b \in answers' : ~Done(b)'
        BY <1>0, <1>2, HeldByAnswer, ChangesHold DEF Done, AnswerHolds, Ours, Changes
      <3> QED
        BY <3>2, <3>3 DEF IsTold
    <2> QED
      BY <2>1, <2>2, <2>3
  <1> QED
    BY <1>3, <1>5, <1>6 DEF PageInv

\* The answer to a switch or an install is heard: nothing else of the page is out, and
\* the page knows what the band shows or is told it by this answer.
LEMMA ChangeIsHeard ==
  ASSUME PageInv, NEW a \in answers, Ours(a), a.why = "busy", a.op \in Changes, ~excused
  PROVE  /\ ~AfterIsOut /\ ListsAreCurrent
         /\ \A b \in answers \ {a} : ~Ours(b)
         /\ \A i \in DOMAIN wire : Ours(wire[i]) => wire[i].given
         /\ ~page.error => IF a.ok THEN Tells(a) ELSE page.items = onBand
  <1>0. PageTypes /\ CallsFit /\ OneHolds /\ PageWillShow /\ page.open
    BY DEF PageInv, Ours
  <1>1. AnswerHolds(a) /\ page.busy
    BY HeldByAnswer DEF AnswerHolds, Holding
  <1>2. ListsAreCurrent /\ ~AfterIsOut
    BY <1>0, <1>1 DEF PageWillShow, ChangeIsOut
  <1>3. \A b \in answers \ {a} : ~Ours(b)
    BY <1>0, <1>2, HeldByAnswer, ChangesHold DEF AfterIsOut
  <1>4. \A i \in DOMAIN wire : Ours(wire[i]) => wire[i].given
    BY <1>0, <1>2, HeldByAnswer, ChangesHold DEF AfterIsOut
  <1>5. ASSUME ~page.error
        PROVE  IF a.ok THEN Tells(a) ELSE page.items = onBand
    <2>1. IsTold
      BY <1>0, <1>1, <1>5 DEF PageWillShow
    <2>2. ~ListIsOut
      BY <1>3, <1>4 DEF ListIsOut, Changes
    <2>3. \A b \in answers : Tells(b) => b = a
      BY <1>3 DEF Tells
    <2> QED
      BY <2>1, <2>2, <2>3 DEF IsTold, Tells, Done
  <1> QED
    BY <1>2, <1>3, <1>4, <1>5

\* The answer ends the page's wait and no list is asked for.
LEMMA HearEnds ==
  ASSUME PageInv, NEW a \in answers, Ours(a), a.why = "busy", a.op \in Changes,
         answers' = answers \ {a}, UNCHANGED <<onBand, linked, wire, excused>>,
         page' \in PageRecords, page'.mount = page.mount, page'.open = page.open, ~page'.busy,
         page'.error = page.error, page'.connected = page.connected,
         ~excused /\ ~page.error => page'.items = onBand
  PROVE  PageInv'
  <1>0. PageTypes /\ CallsFit /\ page.open
    BY DEF PageInv, Ours
  <1>1. PageTypes' /\ CallsFit'
    BY <1>0 DEF PageTypes, PageRecords, CallsFit, CallFits
  <1>2. /\ \A i \in DOMAIN wire' : ~WireHolds(i)'
        /\ \A b \in answers' : ~AnswerHolds(b)'
    BY HeldByAnswer DEF WireHolds, AnswerHolds, Holding, Ours
  <1>3. OneHolds'
    BY <1>2 DEF OneHolds
  <1>4. PageWillShow'
    <2> SUFFICES ASSUME ~excused
                 PROVE  ListsAreCurrent' /\ ~ChangeIsOut' /\ (~page'.error => IsTold')
      BY DEF PageWillShow
    <2>1. ListsAreCurrent'
      BY ChangeIsHeard DEF ListsAreCurrent, Ours
    <2>2. ~ChangeIsOut'
      BY <1>2 DEF ChangeIsOut
    <2>3. \A b \in answers' : ~Done(b)'
      BY ChangeIsHeard DEF Done, Ours
    <2> QED
      BY <2>1, <2>2, <2>3 DEF IsTold
  <1> QED
    BY <1>1, <1>3, <1>4 DEF PageInv

\* The answer to a switch is heard.
LEMMA HearSwitched ==
  ASSUME PageInv, NEW a \in answers, Ours(a), a.why = "busy", a.op = "set", Switched(a),
         answers' = answers \ {a}, UNCHANGED <<onBand, linked>>
  PROVE  PageInv'
  <1>0. /\ PageTypes /\ CallsFit /\ page.open /\ a \in AnswerRecords /\ a.op \in Changes
        /\ a.face \in Shows
    BY DEF PageInv, PageTypes, Ours, Changes, AnswerRecords
  <1>1. CASE ~a.ok
    <2>1. page' = [page EXCEPT !.busy = FALSE, !.items.cur = @] /\ UNCHANGED <<wire, excused>>
      BY <1>1 DEF Switched
    <2>2. /\ page' \in PageRecords /\ page'.mount = page.mount /\ page'.open = page.open
          /\ ~page'.busy /\ page'.error = page.error /\ page'.connected = page.connected
          /\ page'.items = page.items
      BY <1>0, <2>1, PageIsRecord DEF PageRecords
    <2>3. ~excused /\ ~page.error => page'.items = onBand
      BY <1>0, <1>1, <2>2, ChangeIsHeard
    <2> QED
      BY <1>0, <2>1, <2>2, <2>3, HearEnds
  <1>2. CASE a.ok /\ a.face \in page.items.has
    <2>1. page' = [page EXCEPT !.busy = FALSE, !.items.cur = a.face] /\ UNCHANGED <<wire, excused>>
      BY <1>2 DEF Switched
    <2>2. /\ page' \in PageRecords /\ page'.mount = page.mount /\ page'.open = page.open
          /\ ~page'.busy /\ page'.error = page.error /\ page'.connected = page.connected
          /\ page'.items = [has |-> page.items.has, cur |-> a.face]
      BY <1>0, <2>1, PageIsRecord DEF PageRecords
    <2>3. ~excused /\ ~page.error => page'.items = onBand
      BY <1>0, <1>2, <2>2, ChangeIsHeard DEF Tells
    <2> QED
      BY <1>0, <2>1, <2>2, <2>3, HearEnds
  <1>3. CASE a.ok /\ a.face \notin page.items.has
    <2> DEFINE p == [page EXCEPT !.busy = FALSE, !.items.cur = "none"]
    <2>1. Starts(p, "list", "none") /\ excused' = (~(wire = <<>> /\ answers = {}) /\ excused)
      BY <1>3 DEF Switched, ExcusedBy
    <2>2. p \in PageRecords /\ p.mount = page.mount /\ p.open = page.open
      BY <1>0, PageIsRecord DEF PageRecords, Shows
    <2> HIDE DEF p
    <2>3. excused' \in BOOLEAN
      BY <1>0, <2>1 DEF PageTypes
    <2>4. /\ PageTypes' /\ wire' = Append(wire, Call("list", "none", "busy"))
          /\ page'.mount = page.mount /\ page'.open = page.open /\ page'.busy
      BY <1>0, <2>1, <2>2, <2>3, StartTypes DEF Operations, Shows
    <2>5. (\A i \in DOMAIN wire : ~WireHolds(i)) /\ (\A b \in answers' : ~Holding(b))
      BY HeldByAnswer
    <2> QED
      BY <1>0, <2>1, <2>4, <2>5, ListStarts
  <1> QED
    BY <1>0, <1>1, <1>2, <1>3

\* The answer to an install is heard: a list that does not hold the flag follows.
LEMMA HearInstalled ==
  ASSUME PageInv, NEW a \in answers, Ours(a), a.why = "busy", a.op = "install", Installed(a),
         answers' = answers \ {a}, UNCHANGED <<onBand, linked>>
  PROVE  PageInv'
  <1>0. PageTypes /\ CallsFit /\ page.open /\ a.op \in Changes
    BY DEF PageInv, PageTypes, Ours, Changes
  <1>1. page' = [page EXCEPT !.busy = FALSE] /\ excused' = excused
    BY DEF Installed
  <1>2. /\ page' \in PageRecords /\ page'.mount = page.mount /\ page'.open = page.open
        /\ ~page'.busy /\ page'.error = page.error /\ page'.connected = page.connected
        /\ page'.items = page.items
    BY <1>0, <1>1, PageIsRecord DEF PageRecords
  <1>3. CASE ~a.ok
    <2>1. wire' = wire
      BY <1>3 DEF Installed
    <2>2. ~excused /\ ~page.error => page'.items = onBand
      BY <1>0, <1>2, <1>3, ChangeIsHeard
    <2> QED
      BY <1>0, <1>1, <1>2, <2>1, <2>2, HearEnds
  <1>4. CASE a.ok
    <2>1. PICK c \in CallRecords :
             /\ wire' = Append(wire, c)
             /\ c.op = "list" /\ c.why = "after" /\ c.mount = page.mount /\ ~c.given
             /\ c.op \notin Changes
      <3>1. wire' = Append(wire, Call("list", "none", "after"))
        BY <1>4 DEF Installed
      <3> QED
        BY <1>0, <3>1, CallIsRecord DEF Operations, Shows, Changes
    <2>2. PICK n \in Nat :
          /\ DOMAIN wire' = DOMAIN wire \cup {n} /\ n \notin DOMAIN wire /\ wire'[n] = c
          /\ \A i \in DOMAIN wire : wire'[i] = wire[i] /\ i \in DOMAIN wire'
      <3>1. Len(wire) + 1 \in Nat /\ wire \in Seq(CallRecords)
        BY <1>0 DEF PageTypes
      <3> QED
        BY <2>1, <3>1, AppendedCall
    <2>3. PageTypes'
      <3>1. wire' \in Seq(CallRecords)
        BY <1>0, <2>1 DEF PageTypes
      <3> QED
        BY <1>0, <1>1, <1>2, <3>1 DEF PageTypes, PageRecords
    <2>4. CallsFit'
      BY <1>0, <1>2, <2>1, <2>2 DEF CallsFit, CallFits, PageTypes
    <2>5. /\ \A i \in DOMAIN wire' : ~WireHolds(i)'
          /\ \A b \in answers' : ~AnswerHolds(b)'
      BY <1>2, <2>1, <2>2, HeldByAnswer DEF WireHolds, AnswerHolds, Holding, Ours
    <2>6. OneHolds'
      BY <1>2, <2>5 DEF OneHolds
    <2>7. PageWillShow'
      <3> SUFFICES ASSUME ~excused
                   PROVE  ListsAreCurrent' /\ ~ChangeIsOut' /\ ListIsOut'
        BY <1>1 DEF PageWillShow, IsTold
      <3>1. ListsAreCurrent'
        BY <1>0, <1>2, ChangeIsHeard DEF ListsAreCurrent, Ours
      <3>2. ~ChangeIsOut'
        BY <2>5 DEF ChangeIsOut
      <3>3. n \in DOMAIN wire' /\ ~wire'[n].given /\ Ours(wire[n])' /\ wire'[n].op = "list"
        BY <1>0, <1>2, <2>1, <2>2 DEF Ours
      <3> QED
        BY <3>1, <3>2, <3>3 DEF ListIsOut
    <2> QED
      BY <2>3, <2>4, <2>6, <2>7 DEF PageInv
  <1> QED
    BY <1>3, <1>4

\* The page hears an answer, whichever it is.
LEMMA HearAnswerStep ==
  ASSUME PageInv, HearAnswer
  PROVE  PageInv'
  <1>1. PICK a \in answers : Heard(a) /\ answers' = answers \ {a} /\ UNCHANGED <<onBand, linked>>
    BY DEF HearAnswer, world
  <1>2. a.op \in {"list", "set", "install"} /\ a.why \in {"busy", "after"}
    BY DEF PageInv, PageTypes, AnswerRecords, Operations, Changes
  <1>3. CASE ~Ours(a)
    <2>1. UNCHANGED <<page, wire, excused>>
      BY <1>1, <1>3 DEF Heard
    <2> QED
      BY <1>1, <1>3, <2>1, HearOther
  <1>4. CASE Ours(a) /\ a.why = "after"
    <2>1. a.op = "list"
      BY <1>4 DEF PageInv, CallsFit, CallFits
    <2>2. LoadedAfter(a)
      BY <1>1, <1>4, <2>1 DEF Heard
    <2> QED
      BY <1>1, <1>4, <2>2, HearAfter
  <1>5. CASE Ours(a) /\ a.why = "busy" /\ a.op = "list"
    <2>1. Loaded(a)
      BY <1>1, <1>5 DEF Heard
    <2> QED
      BY <1>1, <1>5, <2>1, HearList
  <1>6. CASE Ours(a) /\ a.why = "busy" /\ a.op = "set"
    <2>1. Switched(a)
      BY <1>1, <1>6 DEF Heard
    <2> QED
      BY <1>1, <1>6, <2>1, HearSwitched
  <1>7. CASE Ours(a) /\ a.why = "busy" /\ a.op = "install"
    <2>1. Installed(a)
      BY <1>1, <1>7 DEF Heard
    <2> QED
      BY <1>1, <1>7, <2>1, HearInstalled
  <1> QED
    BY <1>2, <1>3, <1>4, <1>5, <1>6, <1>7

\* The link or the band changes by itself.
LEMMA WorldStep ==
  ASSUME PageInv, LinkChanges \/ BandChanges
  PROVE  PageInv'
  <1>1. UNCHANGED <<page, wire, answers>> /\ linked' \in BOOLEAN
    BY DEF LinkChanges, BandChanges, PageInv, PageTypes
  <1>2. CASE LinkChanges
    <2>1. UNCHANGED <<onBand, excused>>
      BY <1>2 DEF LinkChanges
    <2> QED
      BY <1>1, <2>1
      DEF PageInv, PageTypes, CallsFit, CallFits, OneHolds, WireHolds, AnswerHolds, Holding, Ours,
          PageWillShow, ListsAreCurrent, ChangeIsOut, AfterIsOut, IsTold, ListIsOut, Tells, Done
  <1>3. CASE BandChanges
    <2>1. onBand' \in [has : SUBSET PageFaces, cur : Shows] /\ excused'
      BY <1>3 DEF BandChanges, Shows
    <2> QED
      BY <1>1, <2>1
      DEF PageInv, PageTypes, CallsFit, CallFits, OneHolds, WireHolds, AnswerHolds, Holding, Ours,
          PageWillShow
  <1> QED
    BY <1>2, <1>3

\* Every step of the page keeps what is said of it.
LEMMA PageStep ==
  ASSUME PageInv, WatchfacePageNext \/ UNCHANGED pageVars
  PROVE  PageInv'
  <1>1. CASE UNCHANGED pageVars
    <2>1. UNCHANGED <<onBand, linked, page, wire, answers, excused>>
      BY <1>1 DEF pageVars
    <2> QED
      BY <2>1
      DEF PageInv, PageTypes, CallsFit, CallFits, OneHolds, WireHolds, AnswerHolds, Holding, Ours,
          PageWillShow, ListsAreCurrent, ChangeIsOut, AfterIsOut, IsTold, ListIsOut, Tells, Done
  <1> QED
    BY <1>1, MountStep, UnmountStep, ConnectedStep, UserStep, RunCallStep, TimesOutStep,
       HearAnswerStep, WorldStep
    DEF WatchfacePageNext

\* At the start the page is not open, and nothing is out.
LEMMA PageStarts == WatchfacePageInit => PageInv
  <1> SUFFICES ASSUME WatchfacePageInit PROVE PageInv
    OBVIOUS
  <1>1. PICK f \in PageFaces : f = CHOOSE g \in PageFaces : TRUE
    BY WatchfacePageAssumption
  <1>2. onBand \in [has : SUBSET PageFaces, cur : Shows]
    <2>1. onBand \in [has : {PageFaces, {f}}, cur : {f}]
      BY <1>1 DEF WatchfacePageInit
    <2> QED
      BY <2>1 DEF Shows
  <1>3. /\ page = [Fresh(0) EXCEPT !.open = FALSE] /\ linked = TRUE
        /\ wire = <<>> /\ answers = {} /\ excused = FALSE
    BY DEF WatchfacePageInit
  <1>4. page \in PageRecords /\ ~page.open
    BY <1>3 DEF Fresh, Empty, PageRecords, Shows
  <1>5. PageTypes
    <2>1. linked \in BOOLEAN /\ excused \in BOOLEAN
      BY <1>3
    <2>2. wire \in Seq(CallRecords) /\ answers \subseteq AnswerRecords
      BY <1>3
    <2> QED
      BY <1>2, <1>4, <2>1, <2>2 DEF PageTypes, PageRecords
  <1>6. CallsFit
    BY <1>3 DEF CallsFit
  <1> QED
    BY <1>4, <1>5, <1>6 DEF PageInv, OneHolds, PageWillShow

\* A set that has at most one element, and whether it has one.
LEMMA AtMostOne ==
  ASSUME NEW S, \A x, y \in S : x = y
  PROVE  Cardinality(S) = IF S = {} THEN 0 ELSE 1
  <1>1. CASE S = {}
    BY <1>1, FS_EmptySet
  <1>2. CASE S # {}
    <2>1. PICK x \in S : S = {x}
      BY <1>2
    <2> QED
      BY <1>2, <2>1, FS_Singleton
  <1> QED
    BY <1>1, <1>2

\* One call or one answer holds the flag, so that together they are one or none.
LEMMA FlagIsHeld == PageInv => BusyIsHeld
  <1> SUFFICES ASSUME PageInv, page.open
               PROVE  Held = (IF page.busy THEN 1 ELSE 0)
    BY DEF BusyIsHeld
  <1> DEFINE W == {i \in DOMAIN wire : ~wire[i].given /\ Holding(wire[i])}
             A == {a \in answers : Holding(a)}
  <1>1. OneHolds
    BY DEF PageInv
  <1>2. (\A i, j \in W : i = j) /\ (\A a, b \in A : a = b) /\ (W = {} \/ A = {})
    BY <1>1 DEF OneHolds, WireHolds, AnswerHolds
  <1>3. page.busy <=> W # {} \/ A # {}
    BY <1>1 DEF OneHolds, WireHolds, AnswerHolds
  <1>4. Held = Cardinality(W) + Cardinality(A)
    BY DEF Held
  <1> HIDE DEF W, A
  <1>5. /\ Cardinality(W) = IF W = {} THEN 0 ELSE 1
        /\ Cardinality(A) = IF A = {} THEN 0 ELSE 1
    BY <1>2, AtMostOne
  <1> QED
    BY <1>2, <1>3, <1>4, <1>5

\* The page's flag is held exactly while one call of it is out, and when nothing is out
\* the page shows the band: for any watchfaces, calls, mounts and drops
\* (useWatchFace.ts, WatchFacePage.tsx).
THEOREM PageIsTrue == Spec => []PageIsRight
  <1>1. Init => PageInv
    BY PageStarts DEF Init, NoPage
  <1>2. PageInv /\ [Next]_vars => PageInv'
    BY PageStep DEF Next, vars
  <1>3. PageInv => PageIsRight
    <2> SUFFICES ASSUME PageInv, page.open, page.connected, ~page.error, wire = <<>>,
                        answers = {}, ~excused
                 PROVE  page.items = onBand
      BY FlagIsHeld DEF PageIsRight, ShownIsCurrent
    <2>1. IsTold
      BY DEF PageInv, PageWillShow
    <2> QED
      BY <2>1 DEF IsTold, ListIsOut
  <1> QED
    BY <1>1, <1>2, <1>3, PTL DEF Spec

(***************************************************************************)
(* The picture in a .bin: sequences laid out one after the other           *)
(***************************************************************************)
\* Induction over the numbers up to n: a set that holds 0, and each number whenever
\* it holds the one before, holds them all.
LEMMA UpTo ==
  ASSUME NEW n \in Nat, NEW P, 0 \in P, \A i \in 1..n : i - 1 \in P => i \in P
  PROVE  \A i \in 0..n : i \in P
<1> DEFINE R == {ss \in Nat \X Nat : ss[1] < ss[2]}
           Bad == {i \in 0..n : i \notin P}
<1>1. SUFFICES ASSUME Bad # {} PROVE FALSE
  OBVIOUS
<1>2. Bad \subseteq Nat
  OBVIOUS
<1>3. IsWellFoundedOn(R, Nat)
  BY NatLessThanWellFounded DEF OpToRel
<1>4. \A m, k \in Nat : k < m => <<k, m>> \in R
  OBVIOUS
<1> HIDE DEF R, Bad
<1>5. PICK i \in Bad : \A k \in Bad : ~(<<k, i>> \in R)
  BY <1>1, <1>2, <1>3, WFMin, Zenon
<1>6. i \in 0..n /\ i \notin P
  BY DEF Bad
<1>7. i \in 1..n /\ i - 1 \notin P /\ i - 1 \in 0..n
  BY <1>6
<1>8. i - 1 \in Bad
  BY <1>7 DEF Bad
<1>9. i - 1 \in Nat /\ i \in Nat /\ i - 1 < i
  BY <1>7
<1>10. <<i - 1, i>> \in R
  BY <1>4, <1>9
<1> QED
  BY <1>5, <1>8, <1>10

\* g is the sequences of s one after the other: the first, the first two...
Laid(g, s) == \A i \in 1..Len(s) : g[i] = IF i = 1 THEN s[i] ELSE g[i - 1] \o s[i]

\* FlattenSeq gives the last of these.
LEMMA FlattenLays ==
  ASSUME NEW s, Len(s) \in Nat
  PROVE  \E g : Laid(g, s) /\ FlattenSeq(s) = IF Len(s) = 0 THEN s ELSE g[Len(s)]
<1> DEFINE Is(g, k) == g = [i \in 1..k |-> IF i = 1 THEN s[i] ELSE g[i - 1] \o s[i]]
           P == {k \in Nat : \E g : Is(g, k)}
           F == CHOOSE g : g = [i \in 1..Len(s) |-> IF i = 1 THEN s[i] ELSE g[i - 1] \o s[i]]
<1>1. 0 \in P
  <2> DEFINE g == [i \in 1..0 |-> s]
  <2>1. 1..0 = {}
    OBVIOUS
  <2>2. Is(g, 0)
    BY <2>1
  <2> QED
    BY <2>2
<1>2. ASSUME NEW k \in 1..Len(s), k - 1 \in P
      PROVE  k \in P
  <2>1. PICK g : Is(g, k - 1)
    BY <1>2
  <2> DEFINE h == [i \in 1..k |-> IF i = k THEN (IF k = 1 THEN s[1] ELSE g[k - 1] \o s[k]) ELSE g[i]]
  <2>2. ASSUME NEW i \in 1..k
        PROVE  h[i] = IF i = 1 THEN s[i] ELSE h[i - 1] \o s[i]
    <3>1. CASE i = k /\ k = 1
      BY <3>1
    <3>2. CASE i = k /\ k # 1
      <4>1. k - 1 \in 1..k /\ k - 1 # k
        BY <3>2
      <4>2. h[k - 1] = g[k - 1]
        BY <4>1
      <4> QED
        BY <3>2, <4>2
    <3>3. CASE i # k
      <4>1. i \in 1..(k - 1)
        BY <3>3
      <4>2. g[i] = IF i = 1 THEN s[i] ELSE g[i - 1] \o s[i]
        BY <2>1, <4>1
      <4>3. h[i] = g[i]
        BY <3>3
      <4>4. i # 1 => i - 1 \in 1..k /\ i - 1 # k
        BY <4>1
      <4>5. i # 1 => h[i - 1] = g[i - 1]
        BY <4>4
      <4> QED
        BY <4>2, <4>3, <4>5
    <3> QED
      BY <3>1, <3>2, <3>3
  <2>3. h = [i \in 1..k |-> h[i]]
    OBVIOUS
  <2>4. Is(h, k)
    <3> HIDE DEF h
    <3> QED
      BY <2>2, <2>3
  <2>5. k \in Nat
    OBVIOUS
  <2> HIDE DEF h, Is
  <2> QED
    BY <2>4, <2>5
<1>3. Len(s) \in P
  <2> HIDE DEF P
  <2>1. \A k \in 0..Len(s) : k \in P
    BY <1>1, <1>2, UpTo
  <2> QED
    BY <2>1
<1>4. Is(F, Len(s))
  BY <1>3
<1>5. Laid(F, s)
  BY <1>4 DEF Laid
<1>6. FlattenSeq(s) = IF Len(s) = 0 THEN s ELSE F[Len(s)]
  BY DEF FlattenSeq
<1> QED
  BY <1>5, <1>6

\* Growing(r, s, E): r[k] is the first k sequences of s, of elements of E, one after
\* the other.
Growing(r, s, E) ==
  /\ r \in [0..Len(s) -> Seq(E)] /\ r[0] = <<>>
  /\ \A i \in 1..Len(s) : r[i] = r[i - 1] \o s[i]
  /\ \A k \in 0..Len(s) : FlattenSeq(SubSeq(s, 1, k)) = r[k]
  /\ FlattenSeq(s) = r[Len(s)]

\* Any sequence of sequences is laid out so, by FlattenSeq.
LEMMA FlattenGrows ==
  ASSUME NEW E, NEW s \in Seq(Seq(E))
  PROVE  \E r : Growing(r, s, E)
<1> DEFINE S == Seq(E)
<1>0. <<>> \in S /\ \A a, b \in S : a \o b \in S /\ <<>> \o a = a
  BY EmptySeq, ConcatProperties, ConcatEmptySeq
<1> HIDE DEF S
<1>1. PICK n \in Nat : n = Len(s)
  BY LenProperties
<1>2. \A i \in 1..n : s[i] \in S
  BY <1>1, ElementOfSeq DEF S
<1>3. PICK g : Laid(g, s)
  BY <1>1, FlattenLays
<1> DEFINE r == [i \in 0..n |-> IF i = 0 THEN <<>> ELSE g[i]]
<1>4. r[0] = <<>>
  OBVIOUS
<1>5. ASSUME NEW i \in 1..n, r[i - 1] \in S
      PROVE  r[i] = r[i - 1] \o s[i]
  <2>1. CASE i = 1
    <3>1. r[1] = s[1] /\ r[0] = <<>>
      BY <1>1, <1>3, <2>1 DEF Laid
    <3>2. s[1] \in S
      BY <1>2, <2>1
    <3>3. <<>> \o s[1] = s[1]
      BY <1>0, <3>2
    <3>4. i - 1 = 0
      BY <2>1
    <3> QED
      BY <2>1, <3>1, <3>3, <3>4
  <2>2. CASE i # 1
    <3>1. i - 1 \in 0..n /\ i - 1 # 0 /\ i \in 0..n /\ i # 0
      BY <2>2
    <3>2. r[i] = g[i] /\ r[i - 1] = g[i - 1]
      BY <3>1
    <3>3. g[i] = g[i - 1] \o s[i]
      BY <1>1, <1>3, <2>2 DEF Laid
    <3> QED
      BY <3>2, <3>3
  <2> QED
    BY <2>1, <2>2
<1> DEFINE P == {i \in 0..n : r[i] \in S}
<1>6. 0 \in P
  BY <1>0
<1>7. ASSUME NEW i \in 1..n, i - 1 \in P
      PROVE  i \in P
  <2>1. r[i - 1] \in S
    BY <1>7
  <2>2. r[i] = r[i - 1] \o s[i] /\ s[i] \in S
    BY <1>2, <1>5, <2>1
  <2> HIDE DEF r
  <2>3. r[i] \in S
    BY <1>0, <2>1, <2>2
  <2>4. i \in 0..n
    OBVIOUS
  <2> QED
    BY <2>3, <2>4
<1>8. \A i \in 0..n : r[i] \in S
  <2>1. \A i \in 0..n : i \in P
    <3> HIDE DEF P
    <3> QED
      BY <1>6, <1>7, UpTo
  <2> QED
    BY <2>1
<1>9. r \in [0..n -> S]
  <2>1. r = [i \in 0..n |-> r[i]]
    OBVIOUS
  <2> HIDE DEF r
  <2> QED
    BY <1>8, <2>1
<1>10. \A i \in 1..n : r[i] = r[i - 1] \o s[i]
  <2>1. \A i \in 1..n : i - 1 \in 0..n
    OBVIOUS
  <2> HIDE DEF r
  <2> QED
    BY <1>5, <1>8, <2>1
<1>11. ASSUME NEW k \in 0..n
       PROVE  FlattenSeq(SubSeq(s, 1, k)) = r[k]
  <2>1. PICK t : t = SubSeq(s, 1, k)
    OBVIOUS
  <2>2. \A i \in 1..k : s[i] \in S
    BY <1>2
  <2>3. t \in Seq(S) /\ Len(t) = (IF 1 <= k THEN k - 1 + 1 ELSE 0)
        /\ \A i \in 1..(k - 1 + 1) : t[i] = s[1 + i - 1]
    BY <2>1, <2>2, SubSeqProperties
  <2>4. Len(t) = k /\ \A i \in 1..k : t[i] = s[i]
    BY <2>3
  <2>5. PICK h : Laid(h, t) /\ FlattenSeq(t) = IF Len(t) = 0 THEN t ELSE h[Len(t)]
    BY <2>4, FlattenLays
  <2>6. CASE k = 0
    <3>1. t = <<>>
      BY <2>1, <2>6, SubSeqEmpty
    <3> QED
      BY <2>1, <2>4, <2>5, <2>6, <3>1
  <2>7. CASE k # 0
    <3> DEFINE Q == {i \in 0..k : i = 0 \/ h[i] = r[i]}
    <3>1. 0 \in Q
      OBVIOUS
    <3>2. ASSUME NEW i \in 1..k, i - 1 \in Q
          PROVE  i \in Q
      <4>1. h[i] = IF i = 1 THEN s[i] ELSE h[i - 1] \o s[i]
        BY <2>4, <2>5 DEF Laid
      <4>2. i \in 1..n /\ r[i] = g[i] /\ (i # 1 => i - 1 # 0 /\ i - 1 \in 0..n)
        OBVIOUS
      <4>3. g[i] = IF i = 1 THEN s[i] ELSE g[i - 1] \o s[i]
        BY <1>1, <1>3, <4>2 DEF Laid
      <4>4. i # 1 => h[i - 1] = r[i - 1] /\ r[i - 1] = g[i - 1]
        BY <3>2, <4>2
      <4>5. h[i] = g[i]
        BY <4>1, <4>3, <4>4
      <4> QED
        BY <4>2, <4>5
    <3>3. \A i \in 0..k : i \in Q
      <4>1. k \in Nat
        OBVIOUS
      <4> HIDE DEF Q
      <4> QED
        BY <3>1, <3>2, <4>1, UpTo
    <3>4. h[k] = r[k]
      <4>1. k \in Q
        <5>1. k \in 0..k
          OBVIOUS
        <5> HIDE DEF Q
        <5> QED
          BY <3>3, <5>1
      <4> QED
        BY <2>7, <4>1
    <3> HIDE DEF r
    <3> QED
      BY <2>1, <2>4, <2>5, <2>7, <3>4
  <2> QED
    BY <2>6, <2>7
<1>12. FlattenSeq(s) = r[n]
  <2>1. SubSeq(s, 1, n) = s /\ n \in 0..n
    BY <1>1, SubSeqFull
  <2>2. FlattenSeq(SubSeq(s, 1, n)) = r[n]
    BY <1>11, <2>1
  <2> QED
    BY <2>1, <2>2
<1> HIDE DEF r
<1> QED
  BY <1>1, <1>4, <1>9, <1>10, <1>11, <1>12 DEF Growing, S

\* What is laid out only grows: the earlier are the beginning of the later.
LEMMA GrowingPrefix ==
  ASSUME NEW E, NEW s \in Seq(Seq(E)), NEW n \in Nat, n = Len(s), NEW r, Growing(r, s, E),
         NEW k \in 0..n
  PROVE  \A j \in 0..n : k <= j =>
           Len(r[k]) <= Len(r[j]) /\ \A i \in 1..Len(r[k]) : r[j][i] = r[k][i]
<1> DEFINE Begins(j) == Len(r[k]) <= Len(r[j]) /\ \A i \in 1..Len(r[k]) : r[j][i] = r[k][i]
           P == {j \in 0..n : k <= j => Begins(j)}
<1>1. \A j \in 0..n : r[j] \in Seq(E) /\ Len(r[j]) \in Nat
  BY LenProperties DEF Growing
<1>2. PICK l \in Nat : l = Len(r[k])
  BY <1>1
<1>3. 0 \in P
  <2>1. k <= 0 => k = 0
    OBVIOUS
  <2> QED
    BY <1>1, <2>1
<1>4. ASSUME NEW j \in 1..n, j - 1 \in P
      PROVE  j \in P
  <2>1. CASE j <= k
    <3>1. k <= j => k = j
      BY <2>1
    <3> QED
      BY <1>1, <3>1
  <2>2. CASE ~(j <= k)
    <3>1. k <= j - 1 /\ j - 1 \in 0..n
      BY <2>2
    <3>2. Begins(j - 1)
      BY <1>4, <3>1
    <3>3. PICK m \in Nat : m = Len(r[j - 1])
      BY <1>1, <3>1
    <3>4. s[j] \in Seq(E) /\ r[j] = r[j - 1] \o s[j]
      BY ElementOfSeq DEF Growing
    <3>5. Len(r[j]) = m + Len(s[j]) /\ Len(s[j]) \in Nat
          /\ \A i \in 1..(m + Len(s[j])) : r[j][i] = IF i <= m THEN r[j - 1][i] ELSE s[j][i - m]
      <4>1. PICK a \in Seq(E) : a = r[j - 1]
        BY <1>1, <3>1
      <4>2. PICK b \in Seq(E) : b = s[j]
        BY <3>4
      <4>3. Len(b) \in Nat
        BY LenProperties
      <4>4. /\ Len(a \o b) = Len(a) + Len(b)
            /\ \A i \in 1..(Len(a) + Len(b)) : (a \o b)[i] = IF i <= Len(a) THEN a[i] ELSE b[i - Len(a)]
        BY ConcatProperties
      <4> QED
        BY <3>3, <3>4, <4>1, <4>2, <4>3, <4>4
    <3>6. l <= m
      BY <1>2, <3>2, <3>3
    <3>7. \A i \in 1..l : r[j][i] = r[k][i]
      <4>1. \A i \in 1..l : i <= m /\ i \in 1..(m + Len(s[j]))
        BY <3>5, <3>6
      <4> QED
        BY <1>2, <3>2, <3>5, <4>1
    <3>8. l <= Len(r[j])
      BY <3>5, <3>6
    <3> QED
      BY <1>2, <3>7, <3>8
  <2> QED
    BY <2>1, <2>2
<1> HIDE DEF P
<1>5. \A j \in 0..n : j \in P
  BY <1>3, <1>4, UpTo
<1> QED
  BY <1>5 DEF P

\* The bytes of a .bin.
Bytes == Nat \cup Pixels
BodyLength(p, b) == IF p.literal THEN p.count * b ELSE b

\* A packet, and what it is expanded to.
LEMMA PacketIs ==
  ASSUME NEW b \in {1, 2}, NEW p \in Packets(b)
  PROVE  /\ p.count \in Nat /\ p.count <= MaxCount /\ p.literal \in BOOLEAN
         /\ p.body \in Seq(Bytes) /\ Len(p.body) = BodyLength(p, b)
         /\ Expanded(p) \in Seq(Bytes) /\ Len(Expanded(p)) = p.count * b
<1>0. MaxCount \in Nat
  BY PreviewImageAssumption
<1>1. CASE \E n \in 1..MaxCount : p \in [literal : {TRUE}, count : {n}, body : [1..(n * b) -> Pixels]]
  <2>1. PICK n \in 1..MaxCount : p \in [literal : {TRUE}, count : {n}, body : [1..(n * b) -> Pixels]]
    BY <1>1
  <2>2. n * b \in Nat /\ n \in Nat /\ n <= MaxCount
    BY <1>0
  <2>3. p.literal = TRUE /\ p.count = n /\ p.body \in [1..(n * b) -> Pixels]
    BY <2>1
  <2>4. p.body \in Seq(Bytes) /\ Len(p.body) = n * b
    <3>1. PICK l \in Nat : l = n * b
      BY <2>2
    <3>2. p.body \in [1..l -> Bytes]
      BY <2>3, <3>1 DEF Bytes
    <3>3. p.body \in Seq(Bytes) /\ Len(p.body) = l
      <4> HIDE DEF Bytes
      <4> QED
        BY <3>2
    <3> QED
      BY <3>1, <3>3
  <2> QED
    BY <2>2, <2>3, <2>4 DEF BodyLength, Expanded
<1>2. CASE p \in [literal : {FALSE}, count : 0..MaxCount, body : [1..b -> Pixels]]
  <2>0. p.literal = FALSE /\ p.count \in 0..MaxCount /\ p.body \in [1..b -> Pixels]
    BY <1>2
  <2>1. p.literal = FALSE /\ p.count \in Nat /\ p.count <= MaxCount /\ p.body \in [1..b -> Pixels]
    <3>1. p.count \in Nat /\ p.count <= MaxCount
      BY <1>0, <2>0
    <3> QED
      BY <2>0, <3>1
  <2>2. p.body \in Seq(Bytes) /\ Len(p.body) = b
    <3>1. PICK l \in Nat : l = b
      OBVIOUS
    <3>2. p.body \in [1..l -> Bytes]
      BY <2>1, <3>1 DEF Bytes
    <3>3. p.body \in Seq(Bytes) /\ Len(p.body) = l
      <4> HIDE DEF Bytes
      <4> QED
        BY <3>2
    <3> QED
      BY <3>1, <3>3
  <2>3. PICK c \in Nat : c = p.count
    BY <2>1
  <2>4. PICK q \in Seq(Bytes) : q = p.body /\ Len(q) = b
    BY <2>2
  <2> DEFINE s == [i \in 1..c |-> q]
             S == Seq(Bytes)
  <2>5. s \in Seq(S) /\ Len(s) = c /\ \A i \in 1..c : s[i] = q
    <3>1. q \in S
      OBVIOUS
    <3> HIDE DEF S
    <3> QED
      BY <3>1
  <2>6. Expanded(p) = FlattenSeq(s)
    BY <2>1, <2>3, <2>4 DEF Expanded
  <2> HIDE DEF s
  <2>7. PICK r : Growing(r, s, Bytes)
    BY <2>5, FlattenGrows
  <2>8. r \in [0..c -> Seq(Bytes)] /\ r[0] = <<>> /\ (\A i \in 1..c : r[i] = r[i - 1] \o q)
        /\ FlattenSeq(s) = r[c]
    BY <2>5, <2>7 DEF Growing
  <2> DEFINE P == {i \in 0..c : Len(r[i]) = i * b}
  <2>9. 0 \in P
    BY <2>8, EmptySeq
  <2>10. ASSUME NEW i \in 1..c, i - 1 \in P
         PROVE  i \in P
    <3>1. PICK a \in Seq(Bytes) : a = r[i - 1] /\ Len(a) = (i - 1) * b
      BY <2>8, <2>10
    <3>2. r[i] = a \o q
      BY <2>8, <3>1
    <3>3. Len(a \o q) = Len(a) + Len(q)
      BY ConcatProperties
    <3>4. (i - 1) * b + b = i * b
      OBVIOUS
    <3>5. Len(r[i]) = i * b
      BY <2>4, <3>1, <3>2, <3>3, <3>4
    <3> QED
      BY <3>5
  <2>11. c \in P
    <3> HIDE DEF P
    <3>1. \A i \in 0..c : i \in P
      BY <2>9, <2>10, UpTo
    <3> QED
      BY <3>1
  <2>12. Len(r[c]) = c * b /\ r[c] \in Seq(Bytes)
    BY <2>8, <2>11
  <2> QED
    BY <2>1, <2>2, <2>3, <2>6, <2>8, <2>12 DEF BodyLength
<1> QED
  BY <1>1, <1>2 DEF Packets

\* What the decoder makes of a header byte is what it was made of.
LEMMA HeaderSays ==
  ASSUME NEW b \in {1, 2}, NEW p \in Packets(b)
  PROVE  /\ Header(p) \in Nat
         /\ Header(p) > MaxCount <=> p.literal
         /\ Header(p) % (MaxCount + 1) = p.count
<1>1. PICK m \in Nat : m = MaxCount
  BY PreviewImageAssumption
<1>2. PICK c \in Nat : c = p.count /\ c <= m /\ p.literal \in BOOLEAN
  BY <1>1, PacketIs
<1>3. c % (m + 1) = c
  BY <1>2
<1>4. (c + (m + 1)) % (m + 1) = c
  BY <1>2
<1>5. CASE p.literal
  <2>1. Header(p) = c + (m + 1)
    BY <1>1, <1>2, <1>5 DEF Header
  <2> QED
    BY <1>1, <1>2, <1>4, <1>5, <2>1
<1>6. CASE ~p.literal
  <2>1. Header(p) = c
    BY <1>1, <1>2, <1>6 DEF Header
  <2> QED
    BY <1>1, <1>2, <1>3, <1>6, <2>1
<1> QED
  BY <1>5, <1>6

\* The first k packets of ps, of n, expanded (pic) and as they are in the file (enc).
Layout(pic, enc, ps, n) ==
  /\ pic \in [0..n -> Seq(Bytes)] /\ enc \in [0..n -> Seq(Bytes)]
  /\ pic[0] = <<>> /\ enc[0] = <<>>
  /\ \A i \in 1..n : pic[i] = pic[i - 1] \o Expanded(ps[i])
  /\ \A i \in 1..n : enc[i] = enc[i - 1] \o (<<Header(ps[i])>> \o ps[i].body)
  /\ \A k \in 0..n : Picture(SubSeq(ps, 1, k)) = pic[k]
  /\ \A k \in 0..n : Encoded(SubSeq(ps, 1, k)) = enc[k]
  /\ Picture(ps) = pic[n] /\ Encoded(ps) = enc[n]

\* Each is the beginning of the next.
Begin(r, n) ==
  \A k, j \in 0..n : k <= j =>
    Len(r[k]) <= Len(r[j]) /\ \A i \in 1..Len(r[k]) : r[j][i] = r[k][i]

\* GrowingPrefix, for all the pairs at once.
LEMMA LaidInOrder ==
  ASSUME NEW E, NEW s \in Seq(Seq(E)), NEW n \in Nat, n = Len(s), NEW r, Growing(r, s, E)
  PROVE  Begin(r, n)
<1>1. ASSUME NEW k \in 0..n
      PROVE  \A j \in 0..n : k <= j =>
               Len(r[k]) <= Len(r[j]) /\ \A i \in 1..Len(r[k]) : r[j][i] = r[k][i]
  BY GrowingPrefix
<1> QED
  BY <1>1 DEF Begin

\* Any packets are laid out so, expanded and in the file.
LEMMA PacketsAreLaid ==
  ASSUME NEW b \in {1, 2}, NEW ps \in Seq(Packets(b)), NEW n \in Nat, n = Len(ps)
  PROVE  \E pic : \E enc : Layout(pic, enc, ps, n) /\ Begin(pic, n) /\ Begin(enc, n)
<1> DEFINE Pic(q) == [i \in DOMAIN q |-> Expanded(q[i])]
           Enc(q) == [i \in DOMAIN q |-> <<Header(q[i])>> \o q[i].body]
           S == Seq(Bytes)
           K == Packets(b)
<1>1. \A p \in K : Expanded(p) \in S /\ <<Header(p)>> \o p.body \in S
  <2> SUFFICES ASSUME NEW p \in K
               PROVE  Expanded(p) \in S /\ <<Header(p)>> \o p.body \in S
    OBVIOUS
  <2>1. Header(p) \in Bytes /\ p.body \in S /\ Expanded(p) \in S
    BY PacketIs, HeaderSays DEF Bytes
  <2>2. <<Header(p)>> \in S
    <3> HIDE DEF Bytes
    <3> QED
      BY <2>1
  <2> QED
    BY <2>1, <2>2, ConcatProperties
<1> HIDE DEF S, K
<1>2. ASSUME NEW q \in Seq(K), NEW l \in Nat, l = Len(q)
      PROVE  /\ Pic(q) \in Seq(S) /\ Enc(q) \in Seq(S)
             /\ Len(Pic(q)) = l /\ Len(Enc(q)) = l
             /\ \A i \in 1..l : Pic(q)[i] = Expanded(q[i]) /\ Enc(q)[i] = <<Header(q[i])>> \o q[i].body
  <2>1. DOMAIN q = 1..l /\ \A i \in 1..l : q[i] \in K
    BY <1>2, LenProperties, ElementOfSeq
  <2>2. Pic(q) \in [1..l -> S] /\ Enc(q) \in [1..l -> S]
    BY <1>1, <2>1
  <2>3. \A w \in [1..l -> S] : w \in Seq(S) /\ Len(w) = l
    OBVIOUS
  <2>4. \A i \in 1..l : Pic(q)[i] = Expanded(q[i]) /\ Enc(q)[i] = <<Header(q[i])>> \o q[i].body
    BY <2>1
  <2> HIDE DEF Pic, Enc
  <2> QED
    BY <2>2, <2>3, <2>4
<1>3. ps \in Seq(K)
  BY DEF K
<1> HIDE DEF Pic, Enc
<1>4. PICK u \in Seq(S) : u = Pic(ps)
  BY <1>2, <1>3
<1>5. PICK v \in Seq(S) : v = Enc(ps)
  BY <1>2, <1>3
<1>6. PICK pic : Growing(pic, u, Bytes)
  BY FlattenGrows DEF S
<1>7. PICK enc : Growing(enc, v, Bytes)
  BY FlattenGrows DEF S
<1>8. /\ Len(u) = n /\ Len(v) = n
      /\ \A i \in 1..n : u[i] = Expanded(ps[i]) /\ v[i] = <<Header(ps[i])>> \o ps[i].body
  BY <1>2, <1>3, <1>4, <1>5
<1>9. ASSUME NEW k \in 0..n
      PROVE  SubSeq(u, 1, k) = Pic(SubSeq(ps, 1, k)) /\ SubSeq(v, 1, k) = Enc(SubSeq(ps, 1, k))
  <2>0. k \in Nat /\ \A i \in 1..k : i \in 1..n /\ 1 + i - 1 = i
    OBVIOUS
  <2>1. PICK q : q = SubSeq(ps, 1, k)
    OBVIOUS
  <2>2. \A i \in 1..k : ps[i] \in K /\ u[i] \in S /\ v[i] \in S
    BY <1>3, <1>8, <2>0, ElementOfSeq
  <2>3. /\ q \in Seq(K) /\ Len(q) = (IF 1 <= k THEN k - 1 + 1 ELSE 0)
        /\ \A i \in 1..(k - 1 + 1) : q[i] = ps[1 + i - 1]
    BY <2>1, <2>2, SubSeqProperties
  <2>4. Len(q) = k /\ \A i \in 1..k : q[i] = ps[i]
    BY <2>0, <2>3
  <2>5. PICK x : x = SubSeq(u, 1, k)
    OBVIOUS
  <2>6. /\ x \in Seq(S) /\ Len(x) = (IF 1 <= k THEN k - 1 + 1 ELSE 0)
        /\ \A i \in 1..(k - 1 + 1) : x[i] = u[1 + i - 1]
    BY <2>2, <2>5, SubSeqProperties
  <2>7. Len(x) = k /\ \A i \in 1..k : x[i] = u[i]
    <3>1. Len(x) = k
      BY <2>0, <2>6
    <3>2. ASSUME NEW i \in 1..k
          PROVE  x[i] = u[i]
      <4>1. i \in 1..(k - 1 + 1) /\ 1 + i - 1 = i
        BY <2>0
      <4> QED
        BY <2>6, <4>1
    <3> QED
      BY <3>1, <3>2
  <2>8. PICK y : y = SubSeq(v, 1, k)
    OBVIOUS
  <2>9. /\ y \in Seq(S) /\ Len(y) = (IF 1 <= k THEN k - 1 + 1 ELSE 0)
        /\ \A i \in 1..(k - 1 + 1) : y[i] = v[1 + i - 1]
    BY <2>2, <2>8, SubSeqProperties
  <2>10. Len(y) = k /\ \A i \in 1..k : y[i] = v[i]
    <3>1. Len(y) = k
      BY <2>0, <2>9
    <3>2. ASSUME NEW i \in 1..k
          PROVE  y[i] = v[i]
      <4>1. i \in 1..(k - 1 + 1) /\ 1 + i - 1 = i
        BY <2>0
      <4> QED
        BY <2>9, <4>1
    <3> QED
      BY <3>1, <3>2
  <2>11. /\ Pic(q) \in Seq(S) /\ Enc(q) \in Seq(S) /\ Len(Pic(q)) = k /\ Len(Enc(q)) = k
         /\ \A i \in 1..k : Pic(q)[i] = Expanded(q[i]) /\ Enc(q)[i] = <<Header(q[i])>> \o q[i].body
    BY <1>2, <2>0, <2>3, <2>4
  <2>12. ASSUME NEW i \in 1..k
         PROVE  x[i] = Pic(q)[i] /\ y[i] = Enc(q)[i]
    <3>1. i \in 1..n /\ q[i] = ps[i]
      BY <2>0, <2>4
    <3>2. x[i] = Pic(q)[i]
      BY <1>8, <2>7, <2>11, <3>1
    <3>3. y[i] = Enc(q)[i]
      BY <1>8, <2>10, <2>11, <3>1
    <3> QED
      BY <3>2, <3>3
  <2>13. x = Pic(q)
    BY <2>6, <2>7, <2>11, <2>12, SeqEqual
  <2>14. y = Enc(q)
    BY <2>9, <2>10, <2>11, <2>12, SeqEqual
  <2> QED
    BY <2>1, <2>5, <2>8, <2>13, <2>14
<1>10. \A q : Picture(q) = FlattenSeq(Pic(q)) /\ Encoded(q) = FlattenSeq(Enc(q))
  BY DEF Picture, Encoded, Pic, Enc
<1>11. Layout(pic, enc, ps, n)
  <2>1. pic \in [0..n -> Seq(Bytes)] /\ pic[0] = <<>> /\ \A i \in 1..n : pic[i] = pic[i - 1] \o Expanded(ps[i])
    BY <1>6, <1>8 DEF Growing
  <2>2. enc \in [0..n -> Seq(Bytes)] /\ enc[0] = <<>>
        /\ \A i \in 1..n : enc[i] = enc[i - 1] \o (<<Header(ps[i])>> \o ps[i].body)
    BY <1>7, <1>8 DEF Growing
  <2>3. \A k \in 0..n : Picture(SubSeq(ps, 1, k)) = pic[k]
    BY <1>6, <1>8, <1>9, <1>10 DEF Growing
  <2>4. \A k \in 0..n : Encoded(SubSeq(ps, 1, k)) = enc[k]
    BY <1>7, <1>8, <1>9, <1>10 DEF Growing
  <2>5. Picture(ps) = pic[n] /\ Encoded(ps) = enc[n]
    BY <1>4, <1>5, <1>6, <1>7, <1>8, <1>10 DEF Growing
  <2> QED
    BY <2>1, <2>2, <2>3, <2>4, <2>5 DEF Layout
<1>12. Begin(pic, n)
  <2>1. u \in Seq(Seq(Bytes))
    BY DEF S
  <2>2. n = Len(u) /\ Growing(pic, u, Bytes)
    BY <1>6, <1>8
  <2> QED
    BY <2>1, <2>2, LaidInOrder
<1>13. Begin(enc, n)
  <2>1. v \in Seq(Seq(Bytes))
    BY DEF S
  <2>2. n = Len(v) /\ Growing(enc, v, Bytes)
    BY <1>7, <1>8
  <2> QED
    BY <2>1, <2>2, LaidInOrder
<1> QED
  BY <1>11, <1>12, <1>13

ImageTypes ==
  /\ bytesPerPixel \in {1, 2} /\ packets \in Seq(Packets(bytesPerPixel))
  /\ wanted \in Nat /\ cut \in {0, 1} /\ pixelCount \in Nat
  /\ verdict \in {"decoding", "picture", "error"}

\* The decoder stands behind the first k packets, which are whole and not empty.
AfterPackets(k) ==
  /\ at = Len(Encoded(SubSeq(packets, 1, k))) /\ output = Picture(SubSeq(packets, 1, k))
  /\ at <= Len(encoded) /\ Len(output) <= wanted
  /\ \A i \in 1..k : packets[i].count > 0

ShownIfFilled ==
  verdict \in {"picture", "error"} =>
    (verdict = "picture" <=> ((\E k \in DOMAIN packets : Fills(k)) /\ wanted >= Needed))

ImageInv ==
  /\ ImageTypes /\ ShownIfFilled
  /\ verdict = "decoding" => wanted # 0
  /\ \E k \in 0..Len(packets) : AfterPackets(k)

\* The input is the packets of the layout, but for what is cut off.
LEMMA InputIs ==
  ASSUME ImageTypes, NEW pic, NEW enc, NEW n \in Nat, n = Len(packets),
         Layout(pic, enc, packets, n)
  PROVE  /\ encoded \in Seq(Bytes) /\ Len(encoded) \in Nat
         /\ Len(enc[n]) \in Nat /\ Len(encoded) <= Len(enc[n])
         /\ \A i \in 1..Len(encoded) : encoded[i] = enc[n][i]
<1>0. n \in 0..n
  OBVIOUS
<1>1. PICK w \in Seq(Bytes) : w = enc[n]
  BY <1>0 DEF Layout
<1>2. PICK l \in Nat : l = Len(w) /\ \A i \in 1..l : w[i] \in Bytes
  <2> HIDE DEF Bytes
  <2> QED
    BY LenProperties, ElementOfSeq
<1>3. PICK m \in Int : m = l - cut /\ m <= l
  BY DEF ImageTypes
<1>4. PICK e : e = SubSeq(w, 1, m)
  OBVIOUS
<1>5. encoded = e
  <2>1. Encoded(packets) = w
    BY <1>1 DEF Layout
  <2> QED
    BY <1>2, <1>3, <1>4, <2>1 DEF encoded
<1>6. \A i \in 1..m : i \in 1..l /\ 1 + i - 1 = i
  BY <1>3
<1>7. /\ e \in Seq(Bytes) /\ Len(e) = (IF 1 <= m THEN m - 1 + 1 ELSE 0)
      /\ \A i \in 1..(m - 1 + 1) : e[i] = w[1 + i - 1]
  <2>1. \A i \in 1..m : w[i] \in Bytes
    BY <1>2, <1>6
  <2> HIDE DEF Bytes
  <2> QED
    BY <1>4, <2>1, SubSeqProperties
<1>8. Len(e) \in Nat /\ Len(e) <= l
  BY <1>3, <1>7
<1>9. ASSUME NEW i \in 1..Len(e)
      PROVE  e[i] = w[i]
  <2>1. i \in 1..m
    BY <1>3, <1>7
  <2>2. i \in 1..(m - 1 + 1) /\ 1 + i - 1 = i
    BY <2>1
  <2> QED
    BY <1>7, <2>2
<1> QED
  BY <1>1, <1>2, <1>5, <1>7, <1>8, <1>9

\* The decoder reads p, the packet behind the first k.
IsNext(p, k, pic, enc) ==
  /\ p \in Packets(bytesPerPixel)
  /\ Control = [literal |-> p.literal, count |-> p.count]
  /\ Body \in Nat /\ Yield \in Nat
  /\ Len(enc[k + 1]) = at + 1 + Body
  /\ Len(pic[k + 1]) = Len(pic[k]) + Yield
  /\ Rest >= Body => SubSeq(encoded, at + 2, at + 1 + Body) = p.body

\* Before the end of the input there is a packet more: the decoder reads its header
\* and, if it is whole, its body.
LEMMA NextPacket ==
  ASSUME ImageTypes, NEW pic, NEW enc, NEW n \in Nat, n = Len(packets),
         Layout(pic, enc, packets, n), Begin(enc, n),
         NEW k \in 0..n, at = Len(enc[k]), at < Len(encoded),
         NEW p, k < n => p = packets[k + 1]
  PROVE  k < n /\ IsNext(p, k, pic, enc)
<1> DEFINE b == bytesPerPixel
<1>0. PICK e \in Seq(Bytes) : e = encoded
  BY InputIs
<1>1. PICK m \in Nat : m = Len(e) /\ m = Len(encoded) /\ m <= Len(enc[n])
        /\ Len(enc[n]) \in Nat /\ \A i \in 1..m : e[i] = enc[n][i]
  BY <1>0, InputIs
<1>2. PICK a \in Nat : a = at /\ a = Len(enc[k]) /\ a < m
  <2>1. enc[k] \in Seq(Bytes)
    BY DEF Layout
  <2>2. Len(enc[k]) \in Nat
    BY <2>1, LenProperties
  <2> QED
    BY <1>1, <2>2
<1>3. k < n
  <2>1. CASE k = n
    BY <1>1, <1>2, <2>1
  <2> QED
    BY <2>1
<1>4. k + 1 \in 1..n /\ k + 1 \in 0..n /\ (k + 1) - 1 = k
  BY <1>3
<1>5. p \in Packets(b) /\ p = packets[k + 1] /\ b \in {1, 2}
  <2>1. packets \in Seq(Packets(b)) /\ b \in {1, 2}
    BY DEF ImageTypes
  <2> HIDE DEF b
  <2>2. packets[k + 1] \in Packets(b)
    BY <1>4, <2>1, ElementOfSeq
  <2> QED
    BY <1>3, <2>1, <2>2
<1> HIDE DEF b
<1>6. /\ p.count \in Nat /\ p.count <= MaxCount /\ p.literal \in BOOLEAN
      /\ p.body \in Seq(Bytes) /\ Len(p.body) = BodyLength(p, b)
      /\ Expanded(p) \in Seq(Bytes) /\ Len(Expanded(p)) = p.count * b
  BY <1>5, PacketIs
<1>7. PICK h \in Nat : h = Header(p) /\ (h > MaxCount <=> p.literal) /\ h % (MaxCount + 1) = p.count
  BY <1>5, HeaderSays
<1>8. PICK q \in Seq(Bytes) : q = p.body
  BY <1>6
<1>9. PICK y \in Nat : y = Len(q) /\ y = BodyLength(p, b)
  BY <1>6, <1>8, LenProperties
<1>10. PICK x \in Nat : x = Len(Expanded(p)) /\ x = p.count * b
  BY <1>6, LenProperties
<1>11. <<h>> \in Seq(Bytes) /\ Len(<<h>>) = 1 /\ <<h>>[1] = h
  <2>1. h \in Bytes
    BY DEF Bytes
  <2> HIDE DEF Bytes
  <2> QED
    BY <2>1
<1>12. PICK hq \in Seq(Bytes) : /\ hq = <<h>> \o q /\ Len(hq) = 1 + y
                               /\ \A i \in 1..(1 + y) : hq[i] = IF i <= 1 THEN <<h>>[i] ELSE q[i - 1]
  <2>1. PICK g \in Seq(Bytes) : g = <<h>>
    BY <1>11
  <2>2. Len(g) = 1
    BY <1>11, <2>1
  <2>3. /\ g \o q \in Seq(Bytes) /\ Len(g \o q) = Len(g) + Len(q)
        /\ \A i \in 1..(Len(g) + Len(q)) : (g \o q)[i] = IF i <= Len(g) THEN g[i] ELSE q[i - Len(g)]
    BY ConcatProperties
  <2>4. /\ g \o q \in Seq(Bytes) /\ Len(g \o q) = 1 + y
        /\ \A i \in 1..(1 + y) : (g \o q)[i] = IF i <= 1 THEN g[i] ELSE q[i - 1]
    BY <1>9, <2>2, <2>3
  <2> QED
    BY <2>1, <2>4
<1>13. hq[1] = h /\ \A i \in 1..y : hq[i + 1] = q[i]
  <2>1. 1 \in 1..(1 + y) /\ 1 <= 1
    OBVIOUS
  <2>2. \A i \in 1..y : i + 1 \in 1..(1 + y) /\ ~(i + 1 <= 1) /\ (i + 1) - 1 = i
    OBVIOUS
  <2> QED
    BY <1>11, <1>12, <2>1, <2>2
<1>14. PICK w \in Seq(Bytes) : w = enc[k]
  BY DEF Layout
<1>15. PICK v \in Seq(Bytes) : v = enc[k + 1] /\ v = w \o hq
  <2>1. enc[k + 1] = enc[k] \o (<<Header(p)>> \o p.body)
    BY <1>4, <1>5 DEF Layout
  <2>2. enc[k + 1] \in Seq(Bytes)
    BY <1>4 DEF Layout
  <2> QED
    BY <1>7, <1>8, <1>12, <1>14, <2>1, <2>2
<1>16. /\ Len(v) = a + (1 + y)
       /\ \A i \in 1..(a + (1 + y)) : v[i] = IF i <= a THEN w[i] ELSE hq[i - a]
  <2>1. Len(w \o hq) = Len(w) + Len(hq)
        /\ \A i \in 1..(Len(w) + Len(hq)) : (w \o hq)[i] = IF i <= Len(w) THEN w[i] ELSE hq[i - Len(w)]
    BY ConcatProperties
  <2>2. Len(w) = a
    BY <1>2, <1>14
  <2> QED
    BY <1>12, <1>15, <2>1, <2>2
<1>17. v[a + 1] = h /\ \A i \in 1..y : v[a + 1 + i] = q[i]
  <2>1. a + 1 \in 1..(a + (1 + y)) /\ ~(a + 1 <= a) /\ (a + 1) - a = 1
    OBVIOUS
  <2>2. v[a + 1] = h
    BY <1>13, <1>16, <2>1
  <2>3. ASSUME NEW i \in 1..y
        PROVE  v[a + 1 + i] = q[i]
    <3>1. a + 1 + i \in 1..(a + (1 + y)) /\ ~(a + 1 + i <= a) /\ (a + 1 + i) - a = i + 1
      OBVIOUS
    <3>2. v[a + 1 + i] = hq[i + 1]
      BY <1>16, <3>1
    <3> QED
      BY <1>13, <3>2
  <2> QED
    BY <2>2, <2>3
<1>18. \A i \in 1..(a + (1 + y)) : enc[n][i] = v[i]
  <2>1. n \in 0..n /\ k + 1 <= n
    BY <1>3
  <2>2. \A i \in 1..Len(enc[k + 1]) : enc[n][i] = enc[k + 1][i]
    BY <1>4, <2>1 DEF Begin
  <2> QED
    BY <1>15, <1>16, <2>2
<1>19. e[a + 1] = h
  <2>1. a + 1 \in 1..m /\ a + 1 \in 1..(a + (1 + y))
    BY <1>1, <1>2, <1>9
  <2> QED
    BY <1>1, <1>17, <1>18, <2>1
<1>20. Control = [literal |-> p.literal, count |-> p.count]
  BY <1>0, <1>2, <1>6, <1>7, <1>19 DEF Control
<1>21. Body = y
  BY <1>9, <1>20 DEF Body, BodyLength, b
<1>22. Yield = x
  BY <1>10, <1>20 DEF Yield, b
<1>23. Len(pic[k + 1]) = Len(pic[k]) + x
  <2>1. pic[k + 1] = pic[k] \o Expanded(p) /\ pic[k] \in Seq(Bytes)
    BY <1>4, <1>5 DEF Layout
  <2>2. PICK c \in Seq(Bytes) : c = pic[k]
    BY <2>1
  <2>3. PICK d \in Seq(Bytes) : d = Expanded(p)
    BY <1>6
  <2>4. Len(c \o d) = Len(c) + Len(d)
    BY ConcatProperties
  <2> QED
    BY <1>10, <2>1, <2>2, <2>3, <2>4
<1>24. ASSUME Rest >= Body
       PROVE  SubSeq(encoded, at + 2, at + 1 + Body) = p.body
  <2>1. a + 1 + y <= m
    BY <1>0, <1>1, <1>2, <1>9, <1>21, <1>24 DEF Rest
  <2>2. PICK s : s = SubSeq(e, a + 2, a + 1 + y)
    OBVIOUS
  <2>3. ASSUME NEW i \in 1..y
        PROVE  e[a + 1 + i] = q[i]
    <3>1. a + 1 + i \in 1..m /\ a + 1 + i \in 1..(a + (1 + y))
      BY <2>1
    <3> QED
      BY <1>1, <1>17, <1>18, <3>1
  <2>4. \A i \in (a + 2)..(a + 1 + y) : e[i] \in Bytes
    <3>1. \A i \in (a + 2)..(a + 1 + y) : i \in 1..Len(e)
      BY <1>1, <2>1
    <3> HIDE DEF Bytes
    <3> QED
      BY <3>1, ElementOfSeq
  <2>5. /\ s \in Seq(Bytes)
        /\ Len(s) = (IF a + 2 <= a + 1 + y THEN (a + 1 + y) - (a + 2) + 1 ELSE 0)
        /\ \A i \in 1..((a + 1 + y) - (a + 2) + 1) : s[i] = e[(a + 2) + i - 1]
    <3>1. a + 2 \in Int /\ a + 1 + y \in Int
      OBVIOUS
    <3> HIDE DEF Bytes
    <3> QED
      BY <2>2, <2>4, <3>1, SubSeqProperties
  <2>6. Len(s) = y
    BY <2>5
  <2>7. ASSUME NEW i \in 1..y
        PROVE  s[i] = q[i]
    <3>1. i \in 1..((a + 1 + y) - (a + 2) + 1) /\ (a + 2) + i - 1 = a + 1 + i
      OBVIOUS
    <3> QED
      BY <2>3, <2>5, <3>1
  <2>8. s = q
    BY <1>9, <2>5, <2>6, <2>7, SeqEqual
  <2> QED
    BY <1>0, <1>2, <1>8, <1>21, <2>2, <2>8
<1>25. Body \in Nat /\ Yield \in Nat
  BY <1>9, <1>10, <1>21, <1>22
<1>26. Len(enc[k + 1]) = at + 1 + Body
  <2>1. Len(v) = a + 1 + y
    <3>1. a + (1 + y) = a + 1 + y
      OBVIOUS
    <3> QED
      BY <1>16, <3>1
  <2>2. a + 1 + y = at + 1 + Body
    BY <1>2, <1>21
  <2> QED
    BY <1>15, <2>1, <2>2
<1> QED
  BY <1>3, <1>5, <1>20, <1>22, <1>23, <1>24, <1>25, <1>26 DEF b, IsNext

\* Nothing that begins with the first k packets fills the picture, when these leave
\* room and the next one does not fit, is empty or is not whole.
LEMMA NothingFills ==
  ASSUME ImageTypes, NEW pic, NEW enc, NEW n \in Nat, n = Len(packets),
         Layout(pic, enc, packets, n), Begin(enc, n), Begin(pic, n),
         NEW k \in 0..n, Len(pic[k]) < wanted,
         k < n => \/ packets[k + 1].count = 0
                  \/ Len(enc[k + 1]) > Len(encoded)
                  \/ Len(pic[k + 1]) > wanted
  PROVE  ~\E j \in DOMAIN packets : Fills(j)
<1>1. DOMAIN packets = 1..n
  BY LenProperties DEF ImageTypes
<1>2. \A j \in 0..n : Len(pic[j]) \in Nat /\ Len(enc[j]) \in Nat
  BY LenProperties DEF Layout
<1>3. Len(encoded) \in Nat /\ wanted \in Nat
  BY InputIs DEF ImageTypes
<1>4. SUFFICES ASSUME NEW j \in 1..n, Fills(j)
               PROVE  FALSE
  BY <1>1
<1>5. j \in 0..n /\ Encoded(SubSeq(packets, 1, j)) = enc[j] /\ Picture(SubSeq(packets, 1, j)) = pic[j]
  BY DEF Layout
<1>6. Len(enc[j]) <= Len(encoded) /\ (\A i \in 1..j : packets[i].count > 0) /\ Len(pic[j]) = wanted
  BY <1>4, <1>5 DEF Fills, Whole
<1>7. CASE j <= k
  <2>1. Len(pic[j]) <= Len(pic[k])
    BY <1>5, <1>7 DEF Begin
  <2> QED
    BY <1>2, <1>3, <1>5, <1>6, <2>1
<1>8. CASE ~(j <= k)
  <2>1. k < n /\ k + 1 <= j /\ k + 1 \in 0..n /\ k + 1 \in 1..j
    BY <1>8
  <2>2. Len(pic[k + 1]) <= Len(pic[j]) /\ Len(enc[k + 1]) <= Len(enc[j])
    BY <1>5, <2>1 DEF Begin
  <2>3. packets[k + 1].count # 0
    <3>1. packets[k + 1].count > 0
      BY <1>6, <2>1
    <3>2. ~(0 > 0)
      OBVIOUS
    <3> QED
      BY <3>1, <3>2
  <2>4. ~(Len(enc[k + 1]) > Len(encoded))
    BY <1>2, <1>3, <1>5, <1>6, <2>1, <2>2
  <2>5. ~(Len(pic[k + 1]) > wanted)
    BY <1>2, <1>3, <1>5, <1>6, <2>1, <2>2
  <2> QED
    BY <2>1, <2>3, <2>4, <2>5
<1> QED
  BY <1>7, <1>8

\* A packet is decoded, or refused.
LEMMA DecodeKeeps ==
  ASSUME ImageInv, DecodeRle
  PROVE  ImageInv'
<1>0. PICK n \in Nat : n = Len(packets)
  BY LenProperties DEF ImageInv, ImageTypes
<1>1. ImageTypes /\ verdict = "decoding" /\ UNCHANGED input /\ at < Len(encoded) /\ Room > 0
  BY DEF ImageInv, DecodeRle
<1>2. PICK pic : \E enc : Layout(pic, enc, packets, n) /\ Begin(pic, n) /\ Begin(enc, n)
  BY <1>0, <1>1, PacketsAreLaid DEF ImageTypes
<1>3. PICK enc : Layout(pic, enc, packets, n) /\ Begin(pic, n) /\ Begin(enc, n)
  BY <1>2
<1>4. PICK k \in 0..n : AfterPackets(k)
  BY <1>0 DEF ImageInv
<1>5. at = Len(enc[k]) /\ output = pic[k] /\ Len(pic[k]) <= wanted /\ \A i \in 1..k : packets[i].count > 0
  BY <1>3, <1>4 DEF AfterPackets, Layout
<1>6. PICK p : p = packets[k + 1]
  OBVIOUS
<1>7. k < n /\ IsNext(p, k, pic, enc)
  BY <1>0, <1>1, <1>3, <1>5, <1>6, NextPacket
<1>8. /\ Len(encoded) \in Nat /\ wanted \in Nat /\ Len(pic[k]) \in Nat /\ at \in Nat
      /\ Rest = Len(encoded) - at - 1 /\ Room = wanted - Len(pic[k])
  <2>1. Len(encoded) \in Nat /\ wanted \in Nat
    BY <1>0, <1>1, <1>3, InputIs DEF ImageTypes
  <2>2. pic[k] \in Seq(Bytes) /\ enc[k] \in Seq(Bytes)
    BY <1>3 DEF Layout
  <2> QED
    BY <1>5, <2>1, <2>2, LenProperties DEF Rest, Room
<1>9. Len(pic[k]) < wanted
  BY <1>1, <1>8
<1>14. PICK y \in Nat : y = Body
  BY <1>7 DEF IsNext
<1>15. PICK x \in Nat : x = Yield
  BY <1>7 DEF IsNext
<1>16. /\ Len(enc[k + 1]) = at + 1 + y /\ Len(pic[k + 1]) = Len(pic[k]) + x
       /\ (Rest < Body => Len(enc[k + 1]) > Len(encoded))
       /\ (~(Rest < Body) => Rest >= Body /\ Len(enc[k + 1]) <= Len(encoded))
       /\ (Yield > Room => Len(pic[k + 1]) > wanted)
       /\ (~(Yield > Room) => Len(pic[k + 1]) <= wanted)
  <2>1. Len(enc[k + 1]) = at + 1 + y /\ Len(pic[k + 1]) = Len(pic[k]) + x
    BY <1>7, <1>14, <1>15 DEF IsNext
  <2>2. PICK m \in Nat : m = Len(encoded) /\ Rest = m - at - 1
    BY <1>8
  <2>3. PICK a \in Nat : a = at
    BY <1>8
  <2>4. (m - a - 1 < y => a + 1 + y > m) /\ (~(m - a - 1 < y) => m - a - 1 >= y /\ a + 1 + y <= m)
    OBVIOUS
  <2>5. PICK c \in Nat : c = Len(pic[k]) /\ Room = wanted - c
    BY <1>8
  <2>6. PICK w \in Nat : w = wanted
    BY <1>8
  <2>7. (x > w - c => c + x > w) /\ (~(x > w - c) => c + x <= w)
    OBVIOUS
  <2>8. (Rest < Body <=> m - a - 1 < y) /\ (Rest >= Body <=> m - a - 1 >= y)
        /\ (Yield > Room <=> x > w - c)
    BY <1>14, <1>15, <2>2, <2>3, <2>5, <2>6
  <2>9. Len(enc[k + 1]) = a + 1 + y /\ Len(pic[k + 1]) = c + x
    BY <2>1, <2>3, <2>5
  <2> QED
    BY <2>1, <2>2, <2>4, <2>6, <2>7, <2>8, <2>9
<1>10. ImageTypes' /\ packets' = packets /\ wanted' = wanted /\ encoded' = encoded
  <2>1. packets' = packets /\ wanted' = wanted /\ cut' = cut /\ bytesPerPixel' = bytesPerPixel
        /\ pixelCount' = pixelCount
    BY <1>1 DEF input
  <2>2. verdict' \in {"decoding", "picture", "error"}
    BY <1>1 DEF DecodeRle
  <2>3. encoded' = encoded
    BY <2>1 DEF encoded
  <2> QED
    BY <1>1, <2>1, <2>2, <2>3 DEF ImageTypes
<1>11. k + 1 \in 0..n /\ k + 1 \in 1..n /\ (k + 1) - 1 = k
  BY <1>7
<1>12. CASE Control.count = 0 \/ Truncated
  <2>1. verdict' = "error" /\ at' = at /\ output' = output
    BY <1>12 DEF DecodeRle
  <2>2. \/ packets[k + 1].count = 0
        \/ Len(enc[k + 1]) > Len(encoded)
        \/ Len(pic[k + 1]) > wanted
    <3>1. CASE Control.count = 0
      BY <1>6, <1>7, <3>1 DEF IsNext
    <3>2. CASE Rest < Body
      BY <1>16, <3>2
    <3>3. CASE Yield > Room
      BY <1>16, <3>3
    <3> QED
      BY <1>12, <3>1, <3>2, <3>3 DEF Truncated
  <2>3. ~\E j \in DOMAIN packets : Fills(j)
    BY <1>0, <1>1, <1>3, <1>9, <2>2, NothingFills
  <2>4. ShownIfFilled'
    <3>1. \A j : Fills(j)' <=> Fills(j)
      BY <1>10 DEF Fills, Whole
    <3> QED
      BY <1>10, <2>1, <2>3, <3>1 DEF ShownIfFilled
  <2>5. AfterPackets(k)'
    BY <1>4, <1>10, <2>1 DEF AfterPackets
  <2> QED
    BY <1>0, <1>10, <2>1, <2>4, <2>5 DEF ImageInv
<1>13. CASE ~(Control.count = 0 \/ Truncated)
  <2>1. ~(Rest < Body) /\ Rest >= Body /\ ~(Yield > Room) /\ p.count # 0
    BY <1>7, <1>13, <1>16 DEF Truncated, IsNext
  <2>2. /\ output' = output \o Expanded(p) /\ at' = at + 1 + Body /\ verdict' = verdict
    BY <1>7, <1>13, <2>1 DEF DecodeRle, Expanded, IsNext
  <2>3. output' = pic[k + 1] /\ at' = Len(enc[k + 1])
    <3>1. pic[k + 1] = pic[k] \o Expanded(p)
      BY <1>3, <1>6, <1>11 DEF Layout
    <3> QED
      BY <1>5, <1>14, <1>16, <2>2, <3>1
  <2>4. at' <= Len(encoded) /\ Len(output') <= wanted
    BY <1>16, <2>1, <2>3
  <2>5. \A i \in 1..(k + 1) : packets[i].count > 0
    <3>1. p.count \in Nat
      BY <1>1, <1>7, PacketIs DEF ImageTypes, IsNext
    <3>2. p.count > 0
      BY <2>1, <3>1
    <3>3. \A i \in 1..(k + 1) : i \in 1..k \/ i = k + 1
      OBVIOUS
    <3> QED
      BY <1>5, <1>6, <3>2, <3>3
  <2>6. AfterPackets(k + 1)'
    BY <1>3, <1>10, <1>11, <2>3, <2>4, <2>5 DEF AfterPackets, Layout
  <2>7. ShownIfFilled'
    BY <1>1, <2>2 DEF ShownIfFilled
  <2> QED
    BY <1>0, <1>1, <1>10, <1>11, <2>2, <2>6, <2>7 DEF ImageInv
<1> QED
  BY <1>12, <1>13

\* With each packet the file is longer.
LEMMA NextIsLonger ==
  ASSUME ImageTypes, NEW pic, NEW enc, NEW n \in Nat, n = Len(packets),
         Layout(pic, enc, packets, n), NEW i \in 1..n
  PROVE  Len(enc[i]) > Len(enc[i - 1])
<1>1. PICK p \in Packets(bytesPerPixel) : p = packets[i]
  BY ElementOfSeq DEF ImageTypes
<1>2. bytesPerPixel \in {1, 2}
  BY DEF ImageTypes
<1>3. p.body \in Seq(Bytes) /\ Header(p) \in Bytes
  <2>1. Header(p) \in Nat
    BY <1>2, HeaderSays
  <2> QED
    BY <1>2, <2>1, PacketIs DEF Bytes
<1>4. <<Header(p)>> \in Seq(Bytes) /\ Len(<<Header(p)>>) = 1
  <2> HIDE DEF Bytes
  <2> QED
    BY <1>3
<1>5. PICK g \in Seq(Bytes) : g = <<Header(p)>> /\ Len(g) = 1
  BY <1>4
<1>6. PICK q \in Seq(Bytes) : q = p.body
  BY <1>3
<1>7. PICK w \in Seq(Bytes) : w = enc[i - 1]
  <2>1. i - 1 \in 0..n
    OBVIOUS
  <2> QED
    BY <2>1 DEF Layout
<1>8. enc[i] = w \o (g \o q)
  BY <1>1, <1>5, <1>6, <1>7 DEF Layout
<1>9. g \o q \in Seq(Bytes) /\ Len(g \o q) = 1 + Len(q) /\ Len(q) \in Nat /\ Len(w) \in Nat
  BY <1>5, ConcatProperties, LenProperties
<1>10. Len(w \o (g \o q)) = Len(w) + Len(g \o q)
  BY <1>9, ConcatProperties
<1>11. Len(w) + (1 + Len(q)) > Len(w)
  BY <1>9
<1> QED
  BY <1>7, <1>8, <1>9, <1>10, <1>11

\* At the end of the input, or with nothing wanted any more, the picture is judged.
LEMMA JudgeKeeps ==
  ASSUME ImageInv, DecodeWatchfacePreview
  PROVE  ImageInv'
<1>0. PICK n \in Nat : n = Len(packets)
  BY LenProperties DEF ImageInv, ImageTypes
<1>1. /\ ImageTypes /\ verdict = "decoding" /\ wanted # 0 /\ UNCHANGED <<input, at, output>>
      /\ ~(at < Len(encoded) /\ Room > 0)
      /\ verdict' = IF Room # 0 \/ Len(output) < Needed THEN "error" ELSE "picture"
  BY DEF ImageInv, DecodeWatchfacePreview
<1>2. PICK pic : \E enc : Layout(pic, enc, packets, n) /\ Begin(pic, n) /\ Begin(enc, n)
  BY <1>0, <1>1, PacketsAreLaid DEF ImageTypes
<1>3. PICK enc : Layout(pic, enc, packets, n) /\ Begin(pic, n) /\ Begin(enc, n)
  BY <1>2
<1>4. PICK k \in 0..n : AfterPackets(k)
  BY <1>0 DEF ImageInv
<1>5. at = Len(enc[k]) /\ output = pic[k] /\ Len(pic[k]) <= wanted /\ at <= Len(encoded)
      /\ \A i \in 1..k : packets[i].count > 0
  BY <1>3, <1>4 DEF AfterPackets, Layout
<1>6. /\ Len(encoded) \in Nat /\ wanted \in Nat /\ Len(pic[k]) \in Nat /\ at \in Nat
      /\ Room = wanted - Len(pic[k])
  <2>1. Len(encoded) \in Nat /\ wanted \in Nat
    BY <1>0, <1>1, <1>3, InputIs DEF ImageTypes
  <2>2. pic[k] \in Seq(Bytes) /\ enc[k] \in Seq(Bytes)
    BY <1>3 DEF Layout
  <2> QED
    BY <1>5, <2>1, <2>2, LenProperties DEF Room
<1>7. ImageTypes' /\ packets' = packets /\ wanted' = wanted /\ encoded' = encoded /\ Needed' = Needed
      /\ at' = at /\ output' = output
  <2>1. packets' = packets /\ wanted' = wanted /\ cut' = cut /\ bytesPerPixel' = bytesPerPixel
        /\ pixelCount' = pixelCount /\ at' = at /\ output' = output
    BY <1>1 DEF input
  <2>2. verdict' \in {"decoding", "picture", "error"}
    BY <1>1
  <2>3. encoded' = encoded /\ Needed' = Needed
    BY <2>1 DEF encoded, Needed
  <2> QED
    BY <1>1, <2>1, <2>2, <2>3 DEF ImageTypes
<1>8. Needed \in Nat
  <2>1. bytesPerPixel \in {1, 2} /\ pixelCount \in Nat /\ PaletteBytes \in Nat
    BY <1>1, PreviewImageAssumption DEF ImageTypes
  <2> QED
    BY <2>1 DEF Needed
<1>9. (verdict' = "picture") <=> ((\E j \in DOMAIN packets : Fills(j)) /\ wanted >= Needed)
  <2>1. CASE Room # 0
    <3>1. Len(pic[k]) < wanted /\ ~(at < Len(encoded))
      BY <1>1, <1>5, <1>6, <2>1
    <3>2. k < n => Len(enc[k + 1]) > Len(encoded)
      <4> SUFFICES ASSUME k < n PROVE Len(enc[k + 1]) > Len(encoded)
        OBVIOUS
      <4>1. k + 1 \in 1..n /\ k + 1 \in 0..n /\ (k + 1) - 1 = k
        OBVIOUS
      <4>2. enc[k + 1] = enc[k] \o (<<Header(packets[k + 1])>> \o packets[k + 1].body)
        BY <1>3, <4>1 DEF Layout
      <4>3. Len(enc[k + 1]) > Len(enc[k])
        BY <1>0, <1>1, <1>3, <4>1, <4>2, NextIsLonger
      <4>4. Len(enc[k + 1]) \in Nat
        BY <1>3, <4>1, LenProperties DEF Layout
      <4> QED
        BY <1>5, <1>6, <3>1, <4>3, <4>4
    <3>3. ~\E j \in DOMAIN packets : Fills(j)
      BY <1>0, <1>1, <1>3, <3>1, <3>2, NothingFills
    <3> QED
      BY <1>1, <2>1, <3>3
  <2>2. CASE Room = 0
    <3>1. Len(pic[k]) = wanted
      BY <1>6, <2>2
    <3>2. k # 0
      <4>1. pic[0] = <<>> /\ Len(<<>>) = 0
        BY <1>3, EmptySeq DEF Layout
      <4> QED
        BY <1>1, <3>1, <4>1
    <3>3. k \in DOMAIN packets
      <4>1. DOMAIN packets = 1..n
        BY <1>0, <1>1, LenProperties DEF ImageTypes
      <4> QED
        BY <3>2, <4>1
    <3>4. Fills(k)
      BY <1>3, <1>5, <3>1 DEF Fills, Whole, Layout
    <3>5. verdict' = "picture" <=> ~(Len(output) < Needed)
      BY <1>1, <2>2
    <3>6. ~(Len(output) < Needed) <=> wanted >= Needed
      BY <1>5, <1>6, <1>8, <3>1
    <3> QED
      BY <3>3, <3>4, <3>5, <3>6
  <2> QED
    BY <2>1, <2>2
<1>10. ShownIfFilled'
  <2>1. \A j : Fills(j)' <=> Fills(j)
    BY <1>7 DEF Fills, Whole
  <2> QED
    BY <1>7, <1>9, <2>1 DEF ShownIfFilled
<1>11. AfterPackets(k)'
  BY <1>4, <1>7 DEF AfterPackets
<1>12. verdict' # "decoding"
  BY <1>1
<1> QED
  BY <1>0, <1>7, <1>10, <1>11, <1>12 DEF ImageInv

\* What the decoder has put out is the beginning of the picture.
LEMMA OutputIsPrefix ==
  ASSUME ImageInv
  PROVE  IsPrefix(output, Picture(packets))
<1>0. PICK n \in Nat : n = Len(packets)
  BY LenProperties DEF ImageInv, ImageTypes
<1>2. PICK pic : \E enc : Layout(pic, enc, packets, n) /\ Begin(pic, n) /\ Begin(enc, n)
  BY <1>0, PacketsAreLaid DEF ImageInv, ImageTypes
<1>3. PICK enc : Layout(pic, enc, packets, n) /\ Begin(pic, n)
  BY <1>2
<1>4. PICK k \in 0..n : output = Picture(SubSeq(packets, 1, k))
  BY <1>0 DEF ImageInv, AfterPackets
<1>5. output = pic[k] /\ Picture(packets) = pic[n] /\ n \in 0..n
  BY <1>3, <1>4 DEF Layout
<1>6. PICK s \in Seq(Bytes) : s = pic[k]
  BY <1>3 DEF Layout
<1>7. PICK t \in Seq(Bytes) : t = pic[n]
  BY <1>3, <1>5 DEF Layout
<1>8. PICK l \in Nat : l = Len(s)
  BY LenProperties
<1>9. PICK m \in Nat : m = Len(t)
  BY LenProperties
<1>10. l <= m /\ \A i \in 1..l : t[i] = s[i]
  <2>1. k <= n
    OBVIOUS
  <2> QED
    BY <1>3, <1>5, <1>6, <1>7, <1>8, <1>9, <2>1 DEF Begin
<1>11. SubSeq(s, 1, l) = s
  BY <1>8, SubSeqFull
<1>12. SubSeq(t, 1, l) = s
  <2>1. PICK x : x = SubSeq(t, 1, l)
    OBVIOUS
  <2>2. \A i \in 1..l : i \in 1..m /\ 1 + i - 1 = i /\ i \in 1..(l - 1 + 1)
    BY <1>10
  <2>3. \A i \in 1..l : t[i] \in Bytes
    BY <1>9, <2>2, ElementOfSeq
  <2>4. /\ x \in Seq(Bytes) /\ Len(x) = (IF 1 <= l THEN l - 1 + 1 ELSE 0)
        /\ \A i \in 1..(l - 1 + 1) : x[i] = t[1 + i - 1]
    BY <2>1, <2>3, SubSeqProperties
  <2>5. Len(x) = l
    BY <2>4
  <2>6. \A i \in 1..l : x[i] = s[i]
    BY <1>10, <2>2, <2>4
  <2>7. x = s
    BY <1>8, <2>4, <2>5, <2>6, SeqEqual
  <2> QED
    BY <2>1, <2>7
<1> QED
  BY <1>5, <1>6, <1>7, <1>8, <1>9, <1>10, <1>11, <1>12 DEF IsPrefix

\* Before it begins the decoder stands before the first packet.
LEMMA ImageStarts ==
  ASSUME ImageInit \/ NoImage
  PROVE  ImageInv
<1>1. ImageTypes /\ at = 0 /\ output = <<>> /\ (verdict = "decoding" => wanted # 0)
  <2>1. CASE ImageInit
    <3>1. PICK m \in 1..MaxPackets : packets \in [1..m -> Packets(bytesPerPixel)]
      BY <2>1 DEF ImageInit
    <3>2. m \in Nat
      BY PreviewImageAssumption
    <3>3. bytesPerPixel \in {1, 2} /\ packets \in Seq(Packets(bytesPerPixel))
      BY <2>1, <3>1, <3>2 DEF ImageInit
    <3>4. wanted \in Nat /\ wanted # 0
      <4>1. PICK n \in Nat : n = Len(packets)
        BY <3>3, LenProperties
      <4>2. PICK pic : \E enc : Layout(pic, enc, packets, n)
        BY <3>3, <4>1, PacketsAreLaid
      <4>3. n \in 0..n
        OBVIOUS
      <4>4. Picture(packets) \in Seq(Bytes)
        BY <4>2, <4>3 DEF Layout
      <4>5. Len(Picture(packets)) \in Nat
        BY <4>4, LenProperties
      <4>6. wanted \in 1..(Len(Picture(packets)) + 1)
        BY <2>1 DEF ImageInit
      <4> QED
        BY <4>5, <4>6
    <3>5. pixelCount \in Nat
      BY <2>1, PreviewImageAssumption DEF ImageInit
    <3> QED
      BY <2>1, <3>3, <3>4, <3>5 DEF ImageInit, ImageTypes
  <2>2. CASE NoImage
    <3>1. <<>> \in Seq(Packets(1))
      BY EmptySeq
    <3> QED
      BY <2>2, <3>1 DEF NoImage, ImageTypes
  <2> QED
    BY <2>1, <2>2
<1>2. PICK n \in Nat : n = Len(packets)
  BY <1>1, LenProperties DEF ImageTypes
<1>3. PICK pic : \E enc : Layout(pic, enc, packets, n)
  BY <1>1, <1>2, PacketsAreLaid DEF ImageTypes
<1>4. PICK enc : Layout(pic, enc, packets, n)
  BY <1>3
<1>5. AfterPackets(0)
  <2>1. 0 \in 0..n /\ Len(<<>>) = 0
    BY EmptySeq
  <2>2. Encoded(SubSeq(packets, 1, 0)) = <<>> /\ Picture(SubSeq(packets, 1, 0)) = <<>>
    BY <1>4, <2>1 DEF Layout
  <2>3. Len(encoded) \in Nat /\ wanted \in Nat
    BY <1>1, <1>2, <1>4, InputIs DEF ImageTypes
  <2>4. 0 <= Len(encoded) /\ 0 <= wanted /\ 1..0 = {}
    BY <2>3
  <2> QED
    BY <1>1, <2>1, <2>2, <2>4 DEF AfterPackets
<1>6. ShownIfFilled
  BY DEF ImageInit, NoImage, ShownIfFilled
<1>7. 0 \in 0..Len(packets)
  BY <1>2
<1> QED
  BY <1>1, <1>5, <1>6, <1>7 DEF ImageInv

\* What is decoded is what was encoded, for packets of any number, counts and pixels,
\* and any declared lengths: packet by packet, and a picture is shown exactly when
\* whole packets, none of them empty, fill the declared length and that holds every
\* pixel (decodeRleV1, decodeRleV2, decodeWatchfacePreview).
THEOREM PictureIsDecoded == Spec => []DecodesWhatWasEncoded
<1>1. Init => ImageInv
  BY ImageStarts DEF Init
<1>2. ImageInv /\ [Next]_vars => ImageInv'
  <2> SUFFICES ASSUME ImageInv, [Next]_vars PROVE ImageInv'
    OBVIOUS
  <2>1. DecodeRle \/ DecodeWatchfacePreview \/ UNCHANGED imageVars
    BY DEF Next, vars, ImageNext
  <2>2. CASE UNCHANGED imageVars
    <3>1. /\ packets' = packets /\ wanted' = wanted /\ cut' = cut /\ bytesPerPixel' = bytesPerPixel
          /\ pixelCount' = pixelCount /\ at' = at /\ output' = output /\ verdict' = verdict
      BY <2>2 DEF imageVars
    <3>2. encoded' = encoded /\ Needed' = Needed
      BY <3>1 DEF encoded, Needed
    <3>3. ImageTypes' /\ ShownIfFilled'
      BY <3>1, <3>2 DEF ImageInv, ImageTypes, ShownIfFilled, Fills, Whole
    <3>4. \A k : AfterPackets(k) => AfterPackets(k)'
      BY <3>1, <3>2 DEF AfterPackets
    <3> QED
      BY <3>1, <3>3, <3>4 DEF ImageInv
  <2> QED
    BY <2>1, <2>2, DecodeKeeps, JudgeKeeps
<1>3. ImageInv => DecodesWhatWasEncoded
  BY OutputIsPrefix DEF ImageInv, ShownIfFilled, DecodesWhatWasEncoded
<1> QED
  BY <1>1, <1>2, <1>3, PTL DEF Spec

=============================================================================
