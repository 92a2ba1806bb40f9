--------------------------------- MODULE Display ---------------------------------
(***************************************************************************)
(* What is made of the pings of a sonar: PingRenderer                      *)
(* (python/oculus_python/utils.py), which keeps the geometry of the image  *)
(* from one ping to the next, and the layout each ping is read with        *)
(* (PingLayout).  The sonar may change any parameter between two pings.    *)
(***************************************************************************)
EXTENDS PingLayout

CONSTANTS RangeCounts,  \* numbers of ranges
          Fans,         \* the sequences of the bearings of the beams
          SampleSizes, Modes, FullRanges,
          InvalidSize,  \* a dataSize that is none of the four
          NoPing, NoGeometry

ASSUME InvalidAssumption == InvalidSize \in Nat \ (0 .. 3)

(* The conversion to an image divides by the number of beams less one, by  *)
(* the angle between the first beam and the last, and by the range.        *)
ASSUME SizesAssumption ==
  /\ RangeCounts \subseteq Nat \ {0}
  /\ SampleSizes \subseteq 1 .. 4
  /\ FullRanges \subseteq Nat \ {0}
ASSUME FansAssumption ==
  /\ Fans \subseteq Seq(Int)
  /\ \A bs \in Fans : Len(bs) > 1 /\ bs[1] < bs[Len(bs)]

VARIABLES
  ping,      \* the last ping rendered
  geometry,  \* the cached masterMode, range and bearings, and their range count
  outcome    \* of render: "none", "image", "exception", or "overflow" (of the
             \* stack, which ends the process)

vars == <<ping, geometry, outcome>>

(* What the sonar sends: lines of a gain, if gains are sent, and a sample  *)
(* of size bytes per beam.  gains and size themselves are not sent.        *)
Ping(version, nRanges, bearings, size, gains, dataSize, mode, range) ==
  [version |-> version, nRanges |-> nRanges, nBeams |-> Len(bearings),
   bearings |-> bearings, dataSize |-> dataSize,
   imageSize |-> nRanges * (GainBytes(gains) + Len(bearings) * size),
   gainFlag |-> gains, wideFlag |-> size = 2, mode |-> mode, range |-> range,
   gains |-> gains, size |-> size]

(* dataSize is right or invalid.                                           *)
Pings ==
  {p \in {Ping(v, nr, bs, s, g, d, m, f) :
     v \in {1, 2}, nr \in RangeCounts, bs \in Fans, s \in SampleSizes, g \in BOOLEAN,
     d \in {n - 1 : n \in SampleSizes} \union {InvalidSize}, m \in Modes, f \in FullRanges} :
     p.dataSize \in {p.size - 1, InvalidSize}}

(* What is kept of a ping, the indices of its samples by its counts.       *)
Geometry(p) ==
  [mode |-> p.mode, range |-> p.range, nRanges |-> p.nRanges, bearings |-> p.bearings]

TypeOK ==
  /\ ping \in Pings \union {NoPing}
  /\ geometry \in {NoGeometry} \union
       [mode : Modes, range : FullRanges, nRanges : RangeCounts, bearings : Fans]
  /\ outcome \in {"none", "image", "exception", "overflow"}

Init == ping = NoPing /\ geometry = NoGeometry /\ outcome = "none"

-------------------------------------------------------------------------------
(* Mutant: a new range is not looked at.                                   *)
NewMode(p) == geometry = NoGeometry \/ p.mode # geometry.mode

NeedsGeometryUpdate(p) ==
  geometry = NoGeometry \/ p.mode # geometry.mode \/ p.range # geometry.range

UpdateGeometry(p) == geometry' = IF NeedsGeometryUpdate(p) THEN Geometry(p) ELSE geometry

(* The indices of the cached geometry: no pixel of the fan is as far as    *)
(* the range, so that the last line is never reached.                      *)
MayReach(g) == (0 .. IF g.nRanges > 1 THEN g.nRanges - 2 ELSE 0) \X (0 .. Len(g.bearings) - 1)

(* One that the ping's data does not have is an IndexError, if a pixel     *)
(* uses it.                                                                *)
Fits(g, p) == MayReach(g) \subseteq Cells(p)

Render(p) ==
  /\ outcome # "overflow"
  /\ ping' = p
  /\ UpdateGeometry(p)
  /\ \/ ~Terminates(p) /\ outcome' = "overflow"
     \/ Terminates(p) /\ (~Viewable(p) \/ ~Fits(geometry', p)) /\ outcome' = "exception"
     \/ Terminates(p) /\ Viewable(p) /\ outcome' = "image"

Next == \E p \in Pings : Render(p)

Spec == Init /\ [][Next]_vars

-------------------------------------------------------------------------------
Readable == ping # NoPing /\ Terminates(ping)

(* The size of the samples and the presence of gains are found out for     *)
(* both versions, also from the size of the image alone (208-232,          *)
(* 284-312 of OculusMessage.h).                                            *)
SizeIsFound ==
  Readable => SampleSize(ping) = ping.size /\ HasGains(ping) = ping.gains

(* The raw view, the view of the samples and helpers.h read every sample   *)
(* where the sonar put it, and the gains come right before their line.     *)
ViewsAgree ==
  Readable /\ Viewable(ping) =>
    \A c \in Cells(ping) :
      LET line == c[1] * (GainBytes(ping.gains) + ping.nBeams * ping.size)
          sample == line + GainBytes(ping.gains) + c[2] * ping.size
      IN  /\ DataAddress(ping, c[1], c[2]) = sample
          /\ RawAddress(ping, c[1], GainColumns(ping) + c[2]) = sample
          /\ ping.size \in {1, 2} => SourceAddress(ping, c[1], c[2]) = sample
          /\ ping.gains => GainAddress(ping, c[1]) = line

(* In the image, a pixel of a ping without gains shows the sample, at its  *)
(* range, of a beam none is nearer than to the evenly spaced angle just    *)
(* below its bearing (252-290 of helpers.h).                               *)
PixelsShowTheirBeam ==
  Readable /\ ~ping.gains /\ ping.size \in {1, 2} =>
    \A a \in ping.bearings[1] .. ping.bearings[ping.nBeams], r \in 0 .. ping.range :
      \E e, b \in Beams(ping) :
        /\ (ping.nBeams - 1) * (a - ping.bearings[1]) - Aperture(ping) * e
             \in 0 .. Aperture(ping) - 1
        /\ \A i \in Beams(ping) : Distance(ping, e, b) <= Distance(ping, e, i)
        /\ Pixel(ping, r, ping.range, a) =
             SourceAddress(ping, PixelRange(ping, r, ping.range), b)

RenderedOwn ==
  geometry' = Geometry(ping') /\ (outcome' = "exception" => ping'.size = 3)

RenderedAsBefore ==
  /\ geometry # NoGeometry
  /\ ping.mode = ping'.mode /\ ping.range = ping'.range
  /\ geometry'.mode = ping'.mode /\ geometry'.range = ping'.range

(* Whatever came before, a ping is rendered with its own bearings and      *)
(* counts, which fails on samples of three bytes only, or, if neither mode *)
(* nor range has changed since the ping before it, with those of an        *)
(* earlier ping of that mode and range (18-40, 72-85).                     *)
RenderingIsCurrent == [][RenderedOwn \/ RenderedAsBefore]_vars

-------------------------------------------------------------------------------
(* helpers.h:114-115: "Data is encoded in row major format, a row being    *)
(* the set of bearing results at a given range".                           *)
RowMajor ==
  Readable /\ ping.size \in {1, 2} =>
    \A c \in Cells(ping) :
      AcousticData(ping)[ping.nBeams * c[1] + c[2]] = SourceAddress(ping, c[1], c[2])
===============================================================================
