------------------------------- MODULE PingLayout -------------------------------
(***************************************************************************)
(* Where the samples of a ping are: what PingWrapper1 and PingWrapper2     *)
(* deduce from a message (include/oculus_driver/OculusMessage.h), the      *)
(* views Python is given (python/src/message_utils.h) and the conversions  *)
(* of include/oculus_driver/helpers.h.                                     *)
(*                                                                         *)
(* A ping is a record of the metadata these read: version, nRanges,        *)
(* nBeams, dataSize, imageSize, the flags 0x4 (gainFlag) and 0x2           *)
(* (wideFlag), and the bearings.  Samples are cells <<range, beam>>        *)
(* counted from 0 and addresses are bytes from imageOffset: the values     *)
(* themselves, and the geometry of the image beyond the choice of a cell,  *)
(* are left out.                                                           *)
(***************************************************************************)
EXTENDS Integers, Sequences

Ranges(p) == 0 .. p.nRanges - 1
Beams(p) == 0 .. p.nBeams - 1
Cells(p) == Ranges(p) \X Beams(p)

-------------------------------------------------------------------------------
(* PingWrapper1 and PingWrapper2. *)

(* make_ping_wrapper goes by the version in the header of the message.     *)
IsPing2(p) == p.version = 2

(* dataSize8Bit .. dataSize32Bit; any other value is invalid.              *)
DataSizes == 0 .. 3
Known(p) == p.dataSize \in DataSizes

GainBytes(gains) == IF gains THEN 4 ELSE 0

(* Mutant: the gain of a line is taken for samples.                        *)
WholeLine(p, gains) == p.imageSize \div p.nRanges

SampleBytes(p, gains) == p.imageSize \div p.nRanges - GainBytes(gains)

(* The size of a sample, from that of the image; 0 if it does not divide.  *)
Deduced(p, gains) ==
  LET line == SampleBytes(p, gains)
      size == line \div p.nBeams
  IN  IF p.imageSize % p.nRanges = 0 /\ size * p.nBeams = line THEN size ELSE 0

(* has_gains and sample_size of PingWrapper2 call each other for ever when *)
(* dataSize is invalid, unless the size of the image is too.               *)
Terminates(p) == IsPing2(p) => Known(p) \/ p.imageSize % p.nRanges # 0

HasGains(p) ==
  IF IsPing2(p)
    THEN p.imageSize > (IF Known(p) THEN p.dataSize + 1 ELSE 0) * p.nBeams * p.nRanges
    ELSE p.gainFlag

SampleSize(p) == IF Known(p) THEN p.dataSize + 1 ELSE Deduced(p, HasGains(p))

Step(p) == GainBytes(HasGains(p)) + p.nBeams * SampleSize(p)

-------------------------------------------------------------------------------
(* The views: None is not a buffer, so that instead of returning it they   *)
(* raise an exception.                                                     *)

Viewable(p) == SampleSize(p) \in {1, 2, 4}

(* The gain as columns of samples, at the beginning of each line.          *)
GainColumns(p) == IF HasGains(p) THEN 4 \div SampleSize(p) ELSE 0
RawAddress(p, r, column) ==
  (r * (p.nBeams + GainColumns(p)) + column) * SampleSize(p)

GainAddress(p, r) == r * (p.nBeams * SampleSize(p) + 4)

(* Mutant: the samples of a line are taken from its beginning.             *)
NoOffset(p, r, b) == r * Step(p) + b * SampleSize(p)

DataAddress(p, r, b) ==
  GainBytes(HasGains(p)) + r * Step(p) + b * SampleSize(p)

-------------------------------------------------------------------------------
(* ping_data_to_array, which goes by the flags in both versions. *)

FlagGain(p) == GainBytes(p.gainFlag)
FlagSize(p) == IF p.wideFlag THEN 2 ELSE 1

SourceAddress(p, r, b) ==
  FlagGain(p) + r * (FlagGain(p) + p.nBeams * FlagSize(p)) + b * FlagSize(p)

Destination(p, r, b) ==
  IF p.gainFlag THEN p.nBeams * b + r ELSE p.nBeams * r + b

(* get_ping_acoustic_data: the address each element is converted from, or  *)
(* 0 - 1 if it keeps its initial 0.  Lines are stored in order, so that    *)
(* the last range that reaches an element stays.                           *)
Untouched == 0 - 1
AcousticData(p) ==
  [i \in 0 .. p.nBeams * p.nRanges - 1 |->
     LET to == {c \in Cells(p) : Destination(p, c[1], c[2]) = i}
         last == CHOOSE c \in to : \A d \in to : d[1] <= c[1]
     IN  IF to = {} THEN Untouched ELSE SourceAddress(p, last[1], last[2])]

-------------------------------------------------------------------------------
(* image_from_ping_data.  Angles are integers, and a comparison of two     *)
(* distances to the b-th of nBeams evenly spaced angles is multiplied by   *)
(* nBeams - 1.                                                             *)

Aperture(p) == p.bearings[p.nBeams] - p.bearings[1]
Distance(p, b, i) ==
  LET d == p.bearings[i + 1] * (p.nBeams - 1)
             - (Aperture(p) * b + p.bearings[1] * (p.nBeams - 1))
  IN  IF d < 0 THEN -d ELSE d

(* Mutant: minDiff keeps its first value.                                  *)
MinDiffKept(p, b, i, idx) == Distance(p, b, i) < Distance(p, b, 0)

Closer(p, b, i, idx) == Distance(p, b, i) < Distance(p, b, idx)

(* idx after each turn of the loop over the bearings, and the table of the *)
(* beams nearest to evenly spaced angles.                                  *)
Nearest(p, b) ==
  LET idx[i \in Beams(p)] ==
        IF i = 0 THEN 0 ELSE IF Closer(p, b, i, idx[i - 1]) THEN i ELSE idx[i - 1]
  IN  idx

BearingLut(p) == [b \in Beams(p) |-> Nearest(p, b)[p.nBeams - 1]]

(* The beam and the range of a pixel inside the fan, whose range is r out  *)
(* of full and whose bearing is a.  The fan is taken between its true ends *)
(* (line 280 takes half the aperture to each side of 0, through an abs     *)
(* that may be the integer one); pixels outside it are left out.           *)
PixelBeam(p, a) ==
  BearingLut(p)[((p.nBeams - 1) * (a - p.bearings[1])) \div Aperture(p)]
PixelRange(p, r, full) == ((p.nRanges - 1) * r) \div full

Pixel(p, r, full, a) ==
  AcousticData(p)[p.nBeams * PixelRange(p, r, full) + PixelBeam(p, a)]
===============================================================================
