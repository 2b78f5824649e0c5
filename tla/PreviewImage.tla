---------------------------- MODULE PreviewImage ----------------------------
(***************************************************************************)
(* The picture inside a watchface .bin (watchface-preview-decoder.ts): the *)
(* two run-length decoders, a packet per step, and what                    *)
(* decodeWatchfacePreview asks of the bytes they return before it reads    *)
(* the pixels.                                                             *)
(*                                                                         *)
(* The input is what an encoder writes for some packets, then cut short or *)
(* declared with another length.  A byte is a number below                 *)
(* 2 * (MaxCount + 1): the header byte of a packet is its count, and its   *)
(* high bit says that the pixels follow one by one.                        *)
(***************************************************************************)
EXTENDS Naturals, Sequences, SequencesExt

CONSTANTS
  Pixels,     \* values of a byte
  MaxPackets, \* bound: packets of an input
  MaxCount,   \* the largest count of a packet (0x7f)
  PaletteBytes,  \* the bytes of a palette (256 * 4)
  MaxPixels   \* bound: pixels of a picture

ASSUME PreviewImageAssumption ==
  MaxPackets \in Nat /\ MaxCount \in Nat /\ PaletteBytes \in Nat /\ MaxPixels \in Nat

VARIABLES
  packets, wanted, cut,  \* the input: its packets, the declared length, bytes missing
  bytesPerPixel, pixelCount,  \* 1: an index into a palette, and decodeRleV2
  at, output, verdict

imageVars == <<packets, wanted, cut, bytesPerPixel, pixelCount, at, output, verdict>>
input == <<packets, wanted, cut, bytesPerPixel, pixelCount>>

\* A packet repeats one pixel, or has `count` of its own; count 0 is no packet.
Packets(bpp) ==
  [literal : {FALSE}, count : 0..MaxCount, body : [1..bpp -> Pixels]]
    \cup UNION {[literal : {TRUE}, count : {n}, body : [1..(n * bpp) -> Pixels]] : n \in 1..MaxCount}

Header(p) == p.count + (IF p.literal THEN MaxCount + 1 ELSE 0)
Expanded(p) ==
  IF p.literal THEN p.body ELSE FlattenSeq([i \in 1..p.count |-> p.body])
Picture(ps) == FlattenSeq([i \in DOMAIN ps |-> Expanded(ps[i])])
Encoded(ps) == FlattenSeq([i \in DOMAIN ps |-> <<Header(ps[i])>> \o ps[i].body])

ImageInit ==
  /\ bytesPerPixel \in {1, 2}
  /\ \E n \in 1..MaxPackets : packets \in [1..n -> Packets(bytesPerPixel)]
  /\ wanted \in 1..(Len(Picture(packets)) + 1) /\ cut \in {0, 1}
  /\ pixelCount \in 1..MaxPixels
  /\ at = 0 /\ output = <<>> /\ verdict = "decoding"

encoded == SubSeq(Encoded(packets), 1, Len(Encoded(packets)) - cut)
Control == [literal |-> encoded[at + 1] > MaxCount, count |-> encoded[at + 1] % (MaxCount + 1)]
Rest == Len(encoded) - at - 1     \* bytes behind the header byte
Room == wanted - Len(output)

\* Mutant: the count is taken for bytes.
Body_InBytes == IF Control.literal THEN Control.count ELSE bytesPerPixel
Body == IF Control.literal THEN Control.count * bytesPerPixel ELSE bytesPerPixel
Yield == Control.count * bytesPerPixel

\* A packet that is not whole, or larger than the picture has room for.
Truncated == Rest < Body \/ Yield > Room

DecodeRle ==
  /\ verdict = "decoding" /\ at < Len(encoded) /\ Room > 0
  /\ IF Control.count = 0 \/ Truncated
     THEN verdict' = "error" /\ UNCHANGED <<at, output>>
     ELSE LET body == SubSeq(encoded, at + 2, at + 1 + Body)
          IN /\ output' = output \o (IF Control.literal THEN body
                                     ELSE FlattenSeq([i \in 1..Control.count |-> body]))
             /\ at' = at + 1 + Body
             /\ UNCHANGED verdict
  /\ UNCHANGED input

\* The pixels are read from the bytes: behind a palette when they are indexed.
Needed ==
  IF bytesPerPixel = 1 THEN PaletteBytes + pixelCount ELSE pixelCount * bytesPerPixel

DecodeWatchfacePreview ==
  /\ verdict = "decoding" /\ ~(at < Len(encoded) /\ Room > 0)
  /\ verdict' = IF Room # 0 \/ Len(output) < Needed THEN "error" ELSE "picture"
  /\ UNCHANGED <<input, at, output>>

ImageNext == DecodeRle \/ DecodeWatchfacePreview

-----------------------------------------------------------------------------
\* What is decoded is what was encoded, packet by packet; a picture is shown exactly
\* when packets that are whole, and none of them empty, fill the declared length and
\* that holds every pixel (watchface-preview-decoder.ts:76-163, 242-330).
Whole(k) == Len(Encoded(SubSeq(packets, 1, k))) <= Len(encoded)
Fills(k) ==
  /\ Whole(k) /\ \A i \in 1..k : packets[i].count > 0
  /\ Len(Picture(SubSeq(packets, 1, k))) = wanted

DecodesWhatWasEncoded ==
  /\ IsPrefix(output, Picture(packets))
  /\ verdict \in {"picture", "error"} =>
       (verdict = "picture" <=> ((\E k \in DOMAIN packets : Fills(k)) /\ wanted >= Needed))
=============================================================================
