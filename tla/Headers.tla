------------------------------ MODULE Headers ------------------------------
(***************************************************************************)
(* The headers of an LRIT file, octet by octet: what MakePrimaryHeader and *)
(* getNextHeader read, and what is found in the headers afterwards.        *)
(***************************************************************************)
EXTENDS Integers, Sequences, SequencesExt

PrimaryLen == 16

(* Secondary header types. *)
ImageStructure == 1
Annotation == 4
SegmentIdentification == 128
NOAASpecific == 129
RiceCompression == 131
DCSFilename == 132
HeaderTypes == 1..7 \cup 128..132

(* Octets that getNextHeader reads of a header of fixed layout. *)
Fixed == [t \in {1, 2, 5, 7, 128, 129, 131} |->
             CASE t = 1 -> 9 [] t = 2 -> 51 [] t = 5 -> 10 [] t = 7 -> 3
               [] t = 128 -> 17 [] t = 129 -> 14 [] t = 131 -> 7]

(* Octets first..last of data, counted from 0, high octet first. *)
Big(data, first, last) ==
    FoldLeft(LAMBDA n, octet : 256 * n + octet, 0, SubSeq(data, first + 1, last + 1))

NoPrimary == [Type |-> 0, Length |-> 0, FileType |-> 0, AllHeaderLength |-> 0, DataLength |-> 0]

(* Mutant: the file type is read from the octet behind. *)
MakePrimaryHeaderBehind(data) ==
    IF Len(data) < PrimaryLen THEN NoPrimary
    ELSE [Type |-> data[1], Length |-> Big(data, 1, 2), FileType |-> data[5],
          AllHeaderLength |-> Big(data, 4, 7), DataLength |-> Big(data, 8, 15)]

(* With too few octets the header stays the zero value, and an error. *)
MakePrimaryHeader(data) ==
    IF Len(data) < PrimaryLen THEN NoPrimary
    ELSE [Type |-> data[1], Length |-> Big(data, 1, 2), FileType |-> data[4],
          AllHeaderLength |-> Big(data, 4, 7), DataLength |-> Big(data, 8, 15)]

(***************************************************************************)
(* getNextHeader either returns an error, or panics over an index that is  *)
(* out of range, or returns a header; its fields are the octets that are   *)
(* read, behind type and length.  The caller's data[Length:] is counted in *)
(* with the panics: data[:Length] may read on into the slice's capacity.   *)
(***************************************************************************)
HeaderError(data) == ~(Len(data) >= 3 /\ data[1] \in HeaderTypes)

Length(data) == Big(data, 1, 2)
HeaderEnd(data) == IF data[1] \in DOMAIN Fixed THEN Fixed[data[1]] ELSE Length(data)
HeaderPanic(data) ==
    ~HeaderError(data) /\ (HeaderEnd(data) \notin 3..Len(data) \/ Length(data) > Len(data))

getNextHeader(data) ==
    [Type |-> data[1], Length |-> Length(data), fields |-> SubSeq(data, 4, HeaderEnd(data))]

(* HeaderType as the methods have it: a DCS filename says it is a Rice      *)
(* compression header.                                                      *)
HeaderType(h) == IF h.Type = DCSFilename THEN RiceCompression ELSE h.Type

(* FindSecondaryHeader: the first header of a type, if there is one. *)
Has(made, type) == \E i \in DOMAIN made : HeaderType(made[i]) = type
FindSecondaryHeader(made, type) == SelectSeq(made, LAMBDA h : HeaderType(h) = type)[1]

(* IsImageFile and ContainsZipArchive; the latter needs a NOAA header. *)
IsImageFile(ph, made) == ph.FileType = 0 /\ Has(made, ImageStructure)
ContainsZipArchive(ph, made) ==
    ph.FileType # 0 /\ FindSecondaryHeader(made, NOAASpecific).fields[11] = 10

ProductID(made) == Big(FindSecondaryHeader(made, NOAASpecific).fields, 4, 5)

(* GetName: the text of the first annotation that contains ".lrit". *)
DotLrit == <<46, 108, 114, 105, 116>>
Names(made) ==
    SelectSeq(made, LAMBDA h : HeaderType(h) = Annotation
                               /\ \E i \in DOMAIN h.fields : SubSeq(h.fields, i, i + 4) = DotLrit)
HasName(made) == Names(made) # << >>
GetName(made) == Names(made)[1].fields
=============================================================================
