---------------------------- MODULE CatalogImage ----------------------------
(***************************************************************************)
(* Opening a packed catalog and reading it in place                        *)
(* (openchoice-core/src/catalog.rs): Catalog::parse checks the header and  *)
(* binds four sections, once; every accessor then indexes a section        *)
(* without a check of its own.                                             *)
(*                                                                         *)
(* An image is its size and the fields of its header; what the bytes say   *)
(* beyond that does not decide whether a read is in bounds.  An accessor   *)
(* is the span of bytes it reads, relative to the section it reads from.   *)
(***************************************************************************)
EXTENDS Integers

CONSTANTS
    None,
    USize,      \* 2^32 on the device, 2^64 on a host: usize arithmetic wraps here
    Images      \* the byte strings that may be opened

ASSUME NoneIsNoRecord == None \notin [off : Nat, len : Nat]

HeaderLen == 48
RecordLen == 32
MeasurementLen == 16
CalibrationLen == 8
FormatVersion == 2

SectionName == {"records", "strings", "measurements", "calibrations"}

Stride == [s \in SectionName |->
             CASE s = "records"      -> RecordLen
               [] s = "strings"      -> 1
               [] s = "measurements" -> MeasurementLen
               [] s = "calibrations" -> CalibrationLen]

\* A header's fields are u32, which a usize holds.
Image == [size    : 0..(USize - 1),
          magic   : BOOLEAN,
          version : Nat,
          recSize : Nat,
          off     : [SectionName -> 0..(USize - 1)],
          count   : [SectionName -> 0..(USize - 1)]]

ASSUME USizeAssumption == USize \in Nat /\ USize > HeaderLen
ASSUME ImagesAssumption == Images \subseteq Image

VARIABLES
    image,      \* the bytes, never changed
    pc,         \* "closed", "open" or "refused"
    error,      \* the CatalogError of a refusal
    bound,      \* the sections bound: offset and length of each
    read        \* history: the span the last accessor read

vars == <<image, pc, error, bound, read>>

-----------------------------------------------------------------------------
\* Mutant: the length of a section is multiplied without a check.
Section_Wraps(s) ==
    LET len == (image.count[s] * Stride[s]) % USize
        end == (image.off[s] + len) % USize
    IN  IF image.count[s] = 0 THEN [off |-> 0, len |-> 0]
        ELSE IF end > image.size THEN None
        ELSE [off |-> image.off[s], len |-> len]

\* section: the bytes of a section, or None when it runs past the image.
Section(s) ==
    LET len == image.count[s] * Stride[s]
        end == image.off[s] + len
    IN  IF image.count[s] = 0 THEN [off |-> 0, len |-> 0]
        ELSE IF len >= USize \/ end >= USize \/ end > image.size THEN None
        ELSE [off |-> image.off[s], len |-> len]

Truncated == \E s \in SectionName : Section(s) = None

\* The first check the image fails, in the order parse makes them.
Complaint ==
    IF image.size < HeaderLen THEN "TooShort"
    ELSE IF ~image.magic THEN "BadMagic"
    ELSE IF image.version # FormatVersion THEN "UnsupportedVersion"
    ELSE IF image.recSize # RecordLen THEN "BadRecordSize"
    ELSE IF Truncated THEN "Truncated"
    ELSE "none"

Init ==
    /\ image \in Images
    /\ pc = "closed"
    /\ error = "none"
    /\ bound = [s \in SectionName |-> [off |-> 0, len |-> 0]]
    /\ read = None

Refuse ==
    /\ pc = "closed"
    /\ Complaint # "none"
    /\ pc' = "refused"
    /\ error' = Complaint
    /\ UNCHANGED <<image, bound, read>>

Open ==
    /\ pc = "closed"
    /\ Complaint = "none"
    /\ pc' = "open"
    /\ bound' = [s \in SectionName |-> Section(s)]
    /\ UNCHANGED <<image, error, read>>

-----------------------------------------------------------------------------
(***************************************************************************)
(* Accessors of an open catalog                                            *)
(***************************************************************************)
Reads(s, from, to) ==
    /\ pc = "open"
    /\ read' = [section |-> s, from |-> from, to |-> to]
    /\ UNCHANGED <<image, pc, error, bound>>

\* Mutant: the bound is one record too generous.
Get_OnePast(index) ==
    /\ index <= image.count["records"]
    /\ Reads("records", index * RecordLen, index * RecordLen + RecordLen)

\* Catalog::get and the iterator's next: beyond `count` there is no model.
Get(index) ==
    /\ index < image.count["records"]
    /\ Reads("records", index * RecordLen, index * RecordLen + RecordLen)

\* Model::name: an offset beyond the table is an empty name; within it, the
\* name runs to a NUL byte, or to the end of the table if there is none.
Name(offset) ==
    /\ offset < bound["strings"].len
    /\ \E end \in offset..bound["strings"].len : Reads("strings", offset, end)

\* Catalog::measurement probes the rows below measurement_count: the key of
\* one, or all of it that is meaningful.
ProbeMeasurement(mid, bytes) ==
    /\ mid < bound["measurements"].len \div MeasurementLen
    /\ Reads("measurements", mid * MeasurementLen, mid * MeasurementLen + bytes)

\* Catalog::calibration probes the rows below calibration_count.
ProbeCalibration(mid) ==
    /\ mid < bound["calibrations"].len \div CalibrationLen
    /\ Reads("calibrations", mid * CalibrationLen, mid * CalibrationLen + 7)

\* Indices and offsets a caller, or a record, may hold: any usize.
Next ==
    \/ Refuse
    \/ Open
    \/ \E i \in 0..(USize - 1) :
          \/ Get(i)
          \/ ProbeMeasurement(i, 8) \/ ProbeMeasurement(i, 15)
          \/ ProbeCalibration(i)
          \/ Name(i)

Spec == Init /\ [][Next]_vars

-----------------------------------------------------------------------------
(***************************************************************************)
(* Properties                                                              *)
(***************************************************************************)
TypeOK ==
    /\ image \in Images
    /\ pc \in {"closed", "open", "refused"}
    /\ error \in {"none", "TooShort", "BadMagic", "UnsupportedVersion",
                  "BadRecordSize", "Truncated"}
    /\ bound \in [SectionName -> [off : 0..(USize - 1), len : 0..(USize - 1)]]
    /\ read = None \/ read \in [section : SectionName, from : Nat, to : Nat]

\* What a well-formed image is, in unbounded arithmetic.
WellFormed ==
    /\ image.size >= HeaderLen
    /\ image.magic
    /\ image.version = FormatVersion
    /\ image.recSize = RecordLen
    /\ \A s \in SectionName :
          image.count[s] = 0 \/ image.off[s] + image.count[s] * Stride[s] <= image.size

\* parse opens exactly the well-formed images: no offset or count, however
\* large, wraps its way past the checks, and nothing sound is refused
\* (catalog.rs:205-206, 510-515).
OpensExactlyTheWellFormed ==
    /\ pc = "open" => WellFormed
    /\ pc = "refused" => ~WellFormed

\* No accessor of an open catalog reads outside its section, and no section
\* reaches outside the image: the accessors need no check of their own
\* (catalog.rs:510-515).
ReadsStayInBounds ==
    read # None =>
        /\ 0 <= read.from /\ read.from <= read.to
        /\ read.to <= bound[read.section].len
        /\ bound[read.section].off + read.to <= image.size
=============================================================================
