---------------------------- MODULE AlprPipeline ----------------------------
(***************************************************************************)
(* From a camera frame to plate observations: CameraSource::next() and its *)
(* cadence (server/vision), the detector's decoding, the crops, the text   *)
(* recogniser's decoding and the pairing of both in AlprPipeline::process  *)
(* (server/inference).  The two networks are external: what they return is *)
(* chosen from a small set.                                                *)
(*                                                                         *)
(* Lengths are whole numbers of 1/Unit pixel, chosen so that the divisions *)
(* are exact; the code computes them in floats.  A frame's two axes are    *)
(* treated alike, so the operators below take one axis at a time.          *)
(***************************************************************************)
EXTENDS Naturals, Integers, Sequences, FiniteSetsExt, SequencesExt

CONSTANTS
  Unit,        \* units of length in a pixel
  FrameW, FrameH,   \* frame, in pixels
  Canvas,      \* side of the detector's input, in pixels
  MarginInv,   \* 1 / crop_margin
  MaxPlates,   \* max_plates_per_frame
  ScoreFloor,  \* confidence_floor, in percent
  MinCrop,     \* least width and height the recogniser can use (4)
  Dictionary,  \* number of classes that stand for a character
  RawSets,     \* what the detector may return: sequences of raw detections
  Interval,    \* frame_interval_ms
  ReadRetries, \* read_retries
  FrameLimit,  \* max_frames
  Stalls,      \* how long a frame may take
  MaxClock     \* bound: clock

\* A box on the canvas, its score, and the best class of every time step in its crop.
RawDetection == [x1 : Int, y1 : Int, x2 : Int, y2 : Int, score : Nat, path : Seq(Nat)]

ASSUME PipelineAssumption ==
  /\ {Unit, FrameW, FrameH, Canvas, MarginInv, MinCrop, Dictionary} \subseteq Nat \ {0}
  /\ {MaxPlates, ScoreFloor, Interval, ReadRetries, FrameLimit, MaxClock} \subseteq Nat
  /\ Stalls \subseteq Nat /\ RawSets \subseteq Seq(RawDetection)

VARIABLES
  camera,    \* [at, emitted, due, failures]: the daemon in next()
  clock,     \* steady clock
  raw,       \* what the detector returned for the frame in hand
  found,     \* detections as detect() returns them
  readings,  \* what process() returns
  began      \* history: when the first frame was asked for

alprVars == <<camera, clock, raw, found, readings, began>>

-----------------------------------------------------------------------------
(* The detector (letterbox, unmap_letterbox_box, detect).                  *)

\* scale, as a fraction: the smaller of the two ratios.
Scale == [num |-> Canvas, den |-> Max({FrameW, FrameH})]

Round(n, d) == (2 * n + d) \div (2 * d)

\* An axis of the frame on the canvas: its length, and the border before it.
Resized(len) == Round(len * Scale.num, Scale.den)
Pad(len) == (Canvas - Resized(len)) \div 2

\* A canvas coordinate in the frame's units, before clamping.
Unmapped(c, len) == ((c - Pad(len)) * Unit * Scale.den) \div Scale.num

\* One axis of unmap_letterbox_box(): [lo, hi), empty when hi <= lo.
UnmapAxis(c1, c2, len) ==
  [lo |-> Max({0, Unmapped(c1, len)}), hi |-> Min({len * Unit, Unmapped(c2, len)})]

Empty(a) == a.hi <= a.lo

Detection(d) ==
  [x |-> UnmapAxis(d.x1, d.x2, FrameW), y |-> UnmapAxis(d.y1, d.y2, FrameH),
   score |-> d.score, path |-> d.path]

\* A detection that passes: above the floor and not degenerate.
Reported(d) ==
  d.score >= ScoreFloor /\ ~Empty(Detection(d).x) /\ ~Empty(Detection(d).y)

\* The decoding in detect(): best first.  std::sort leaves equals in any order.
Detect(ds) ==
  LET passed == {i \in DOMAIN ds : Reported(ds[i])}
      sorted == {p \in SetToSeqs(passed) :
                   \A i, j \in DOMAIN p : i < j => ds[p[i]].score >= ds[p[j]].score}
  IN {[i \in DOMAIN p |-> Detection(ds[p[i]])] : p \in sorted}

-----------------------------------------------------------------------------
(* A loop that skips elements and collects the others.                     *)

Collect(s, kept) ==
  LET out[i \in 0..Len(s)] ==
        IF i = 0 THEN <<>>
        ELSE IF i \in kept THEN Append(out[i - 1], s[i]) ELSE out[i - 1]
  IN out[Len(s)]

-----------------------------------------------------------------------------
(* Crops and text (expand_box_with_margin, ctc_greedy_decode).             *)

Clamp(v, len) == Max({0, Min({v, len * Unit})})

Floor(v) == v \div Unit
Ceil(v) == (v + Unit - 1) \div Unit

\* Broken variant: the far edge is not clamped.
CropAxisUnclamped(a, len) ==
  LET d == (a.hi - a.lo) \div MarginInv
      lo == Clamp(a.lo - d, len)
  IN [at |-> Floor(lo), size |-> Ceil(a.hi + d - lo)]

\* One axis of the crop, in whole pixels.
CropAxis(a, len) ==
  LET d == (a.hi - a.lo) \div MarginInv
      lo == Clamp(a.lo - d, len)
      hi == Clamp(a.hi + d, len)
  IN [at |-> Floor(lo), size |-> Ceil(hi - lo)]

Crop(d) == [x |-> CropAxis(d.x, FrameW), y |-> CropAxis(d.y, FrameH)]

\* ctc_greedy_decode() over the best class of every time step: blanks (0) and
\* repetitions of the step before are left out, and so is a class the dictionary
\* has no character for.
Decode(path) ==
  Collect(path, {t \in DOMAIN path : /\ path[t] \in 1..Dictionary
                                     /\ t > 1 => path[t] # path[t - 1]})

\* A crop the recogniser can do something with.
Legible(d) == Crop(d).x.size >= MinCrop /\ Crop(d).y.size >= MinCrop

ReadingOf(d) ==
  [box |-> d, crop |-> Crop(d), score |-> d.score, text |-> Decode(d.path)]

\* process(): the best few, their crops, and the text of each.
Process(ds) ==
  LET top == SubSeq(ds, 1, Min({Len(ds), MaxPlates}))
      kept == Collect(top, {i \in DOMAIN top : Legible(top[i])})
  IN [i \in DOMAIN kept |-> ReadingOf(kept[i])]

\* to_pixel_box(): the box as it goes out on the wire, in whole pixels.
ToPixelBox(d) ==
  LET axis(a) == [at |-> Floor(a.lo), size |-> Ceil(a.hi - a.lo)]
  IN [x |-> axis(d.x), y |-> axis(d.y)]

-----------------------------------------------------------------------------
(* CameraSource::next().                                                   *)

Unset == -1  \* next_due_ before the first frame

\* The next deadline counts from the last one, not from now.
DueAfter(due, now) == (IF due = Unset THEN now ELSE due) + Interval

\* The frame limit, or sleep until the frame is due.
AskFrame ==
  /\ camera.at = "idle" /\ clock < MaxClock
  /\ IF FrameLimit # 0 /\ camera.emitted >= FrameLimit
     THEN camera' = [camera EXCEPT !.at = "ended"] /\ UNCHANGED <<clock, began>>
     ELSE /\ clock' = Max({clock, camera.due})
          /\ began' = IF began = Unset THEN clock ELSE began
          /\ camera' = [camera EXCEPT !.at = "read", !.due = DueAfter(@, clock), !.failures = 0]
  /\ UNCHANGED <<raw, found, readings>>

\* A read that fails is tried again after a pause; too many of them end the stream.
ReadFails ==
  /\ camera.at = "read"
  /\ camera' = [camera EXCEPT !.failures = @ + 1,
                              !.at = IF camera.failures + 1 > ReadRetries THEN "ended" ELSE @]
  /\ clock' = IF camera.failures + 1 > ReadRetries THEN clock ELSE clock + 1
  /\ UNCHANGED <<raw, found, readings, began>>

\* A frame, and what the detector makes of it.
ReadFrame(ds) ==
  /\ camera.at = "read"
  /\ raw' = ds /\ found' \in Detect(ds)
  /\ camera' = [camera EXCEPT !.at = "process"]
  /\ UNCHANGED <<clock, readings, began>>

\* Crops, recognition, and the observations; readings without text are left out.
\* Frame and submission take their time.
EmitFrame(dt) ==
  /\ camera.at = "process"
  /\ LET rs == Process(found)
     IN readings' = Collect(rs, {i \in DOMAIN rs : rs[i].text # <<>>})
  /\ camera' = [camera EXCEPT !.at = "idle", !.emitted = @ + 1]
  /\ clock' = clock + dt
  /\ UNCHANGED <<raw, found, began>>

AlprInit ==
  /\ camera = [at |-> "idle", emitted |-> 0, due |-> Unset, failures |-> 0]
  /\ clock = 0 /\ began = Unset
  /\ raw = <<>> /\ found = <<>> /\ readings = <<>>

AlprNext ==
  \/ AskFrame
  \/ ReadFails
  \/ \E ds \in RawSets : ReadFrame(ds)
  \/ \E dt \in Stalls : EmitFrame(dt)

-----------------------------------------------------------------------------

AlprSpec == AlprInit /\ [][AlprNext]_alprVars

-----------------------------------------------------------------------------

\* Reference: the letters are those of the runs of path that show a character, one for
\* each run, in order.
Spells(text, path) ==
  \E at \in [DOMAIN text -> DOMAIN path] :
    /\ \A i, j \in DOMAIN text : i < j => at[i] < at[j]
    /\ \A i \in DOMAIN text :
         /\ text[i] = path[at[i]] /\ text[i] \in 1..Dictionary
         /\ at[i] = 1 \/ path[at[i] - 1] # text[i]
    /\ \A t \in DOMAIN path : path[t] \in 1..Dictionary =>
         \E i \in DOMAIN text : at[i] <= t /\ \A u \in at[i]..t : path[u] = text[i]

\* How many of the detections that pass have at least (more than) this score.
Contenders(ds, score) == Cardinality({i \in DOMAIN ds : Reported(ds[i]) /\ ds[i].score >= score})
Better(ds, score) == Cardinality({i \in DOMAIN ds : Reported(ds[i]) /\ ds[i].score > score})

\* r is what the frame shows at d: its crop and its box lie inside the frame, and the
\* text is the one of this box.
Sound(r, d) ==
  /\ Reported(d) /\ r.box = Detection(d) /\ r.score = d.score
  /\ \A b \in {r.crop, ToPixelBox(r.box)} :
       /\ b.x.at >= 0 /\ b.x.at + b.x.size <= FrameW
       /\ b.y.at >= 0 /\ b.y.at + b.y.size <= FrameH
  /\ r.text # <<>> /\ Spells(r.text, d.path)

\* d has a crop large enough and shows a character.
Readable(d) ==
  /\ Reported(d) /\ Legible(Detection(d))
  /\ \E t \in DOMAIN d.path : d.path[t] \in 1..Dictionary

\* The readings rs are those of different detections, the best ones, best first; a plate
\* that can be read is missing only when there are more of its score than fit.
ShowsFrame(rs, ds) ==
  \E src \in [DOMAIN rs -> DOMAIN ds] :
    /\ \A i \in DOMAIN rs : Sound(rs[i], ds[src[i]]) /\ Better(ds, rs[i].score) < MaxPlates
    /\ \A i, j \in DOMAIN rs : i < j => src[i] # src[j] /\ rs[i].score >= rs[j].score
    /\ \A k \in DOMAIN ds : Readable(ds[k]) /\ Contenders(ds, ds[k].score) <= MaxPlates
                             => \E i \in DOMAIN rs : src[i] = k

\* Every reading the daemon submits stands on its own: its crop lies inside the
\* frame (OpenCV throws otherwise, which ends the daemon), it carries the text of
\* its own box and not of a neighbour that was dropped, it passed the floor, and the
\* readings are the best ones, best first, no more than max_plates_per_frame and none
\* left out without a reason (detect, process, expand_box_with_margin,
\* ctc_greedy_decode).
ReadingsAreSound ==
  camera.at # "process" => Len(readings) <= MaxPlates /\ ShowsFrame(readings, raw)

\* Frames never come faster than the interval on the whole, however much of it a
\* frame took and however late one was; and they do not drift: after any stall the
\* next one is due a whole number of intervals after the first, so that a stall is
\* followed by a burst (CameraSource::next).
CadenceHolds ==
  camera.emitted > 0 =>
    /\ clock >= began + (camera.emitted - 1) * Interval
    /\ camera.at = "idle" => camera.due = began + camera.emitted * Interval

\* The daemon's frames: both of the above.
PipelineIsSound == ReadingsAreSound /\ CadenceHolds

=============================================================================
