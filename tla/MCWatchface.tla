---------------------------- MODULE MCWatchface ----------------------------
(***************************************************************************)
(* Instances of the parts behind the watchface page: the page and its      *)
(* calls, the store of pictures, and the decoder of a picture.  A          *)
(* behaviour is of one part, and the others have nothing to do.            *)
(***************************************************************************)
EXTENDS WatchfacePreviews, WatchfacePage, PreviewImage

VARIABLE part
vars == <<previewVars, pageVars, imageVars, part>>

MCBins == {[id |-> "e", name |-> "n1", hash |-> 1], [id |-> "e", name |-> "n1", hash |-> 2],
           [id |-> "zero", name |-> "n1", hash |-> 3], [id |-> "d1", name |-> "n2", hash |-> 4]}
Hashed(hashes) == {bin \in MCBins : bin.hash \in hashes}
MCSeedSets == {Hashed({1, 3}), Hashed({2, 4})}
MCDevices == {[d1 |-> "none", d2 |-> "n1"]}

NoPreviews == PreviewsInit /\ seeds = Hashed({1, 3})
NoPage == WatchfacePageInit /\ onBand.has = PageFaces
NoImage ==
  /\ packets = <<>> /\ wanted = 0 /\ cut = 0 /\ bytesPerPixel = 1
  /\ pixelCount = 1 /\ at = 0 /\ output = <<>> /\ verdict = "error"

Init ==
  \/ part = "previews" /\ PreviewsInit /\ NoPage /\ NoImage
  \/ part = "page" /\ WatchfacePageInit /\ NoPreviews /\ NoImage
  \/ part = "image" /\ ImageInit /\ NoPreviews /\ NoPage

Next ==
  \/ part = "previews" /\ PreviewsNext /\ UNCHANGED <<pageVars, imageVars, part>>
  \/ part = "page" /\ WatchfacePageNext /\ UNCHANGED <<previewVars, imageVars, part>>
  \/ part = "image" /\ ImageNext /\ UNCHANGED <<previewVars, pageVars, part>>

Spec == Init /\ [][Next]_vars
=============================================================================
