----------------------------- MODULE Assembler -----------------------------
(***************************************************************************)
(* Putting LRIT files together from SDUs: TransportAssembler.              *)
(* ProcessAllAPIDs and the helpers it calls.                               *)
(*                                                                         *)
(* The SDUs come from the demultiplexer, one batch per frame: good ones,   *)
(* with any of those that were sent lost in between, and among them SDUs   *)
(* that are not what was sent and whose header may say anything.  Only     *)
(* SDUs that are what was sent pass the CRC.                               *)
(*                                                                         *)
(* An SDU that lies whole in a frame is a slice of the frame's buffer, and *)
(* so is the file it begins: appending to the file writes over what lies   *)
(* behind it.  FrameMemory says octet for octet what that does; here it is *)
(* said by which SDUs may be written over (spoilt), and which files may    *)
(* hold octets that are not theirs (exposed).  Of the data of an exposed   *)
(* file, LritFile's chunks only say how long it is and where it came from. *)
(***************************************************************************)
EXTENDS LritFile, FiniteSets, Packets

CONSTANTS
    Streams,     \* the sequences of SDUs <<file, part>> that may be sent
    CtrMod,      \* the packet sequence counter counts modulo this (16384)
    MaxRun,      \* bound: good SDUs in one frame
    MaxBad,      \* bound: bad SDUs in a behaviour
    Losable,     \* the SDUs <<file, part>> that may be lost
    DecodeFails, \* whether a compressed row may fail to decode
    BufferSize   \* capacity of a channel between two layers

ASSUME AssemblerAssumption ==
    /\ \A S \in Streams : S \in Seq(Nat \X Nat) /\ IsStream(S)
    /\ CtrMod \in Nat \ {0, 1}
    /\ MaxRun \in Nat \ {0}
    /\ MaxBad \in Nat
    /\ Losable \subseteq Sent \X (Nat \ {0})
    /\ DecodeFails \in BOOLEAN
    /\ BufferSize \in Nat \ {0}

VARIABLES
    stream,          \* the SDUs that are sent; never changes
    pos,             \* how many of them were delivered or lost
    bads,            \* how many bad SDUs there were
    hurt,            \* files that loss, damage or another file has touched (history)
    inWay,           \* pairs of a file begun in the frame and an SDU in its way
    spoilt,          \* the SDUs of the frame that files were written over
    exposed,         \* the files whose octets may be other files' too
    APIDs,           \* the SDUs of each APID in the frame being processed
    cur,             \* the APID being processed, or Nil
    lastAppliedSDU,  \* the counter of the SDU applied last, per APID, or Nil
    Files,           \* the file each APID has open, or Nil
    TransportOutput  \* channel to the session layer

link == <<stream, pos, bads>>
shared == <<inWay, spoilt, exposed>>
assembly == <<APIDs, cur, lastAppliedSDU, Files>>
assemblerVars == <<link, hurt, shared, assembly, TransportOutput>>
-----------------------------------------------------------------------------
(* The SDUs. *)

ApidOf(k) == Meta[stream[k][1]].apid
Ctr(k) == Cardinality({j \in 1..k-1 : ApidOf(j) = ApidOf(k)}) % CtrMod

(* A bad SDU carries no file. *)
MSDU == {s \in [ctr : 0..CtrMod-1, file : Sent \cup {Nil}, part : Nat] :
           s.file # Nil => s.part \in 1..Parts(s.file)}
GoodSDU(k) == [ctr |-> Ctr(k), file |-> stream[k][1], part |-> stream[k][2]]
BadSDU(c) == [ctr |-> c, file |-> Nil, part |-> 0]

FirstPart(s) == s.file # Nil /\ s.part = 1
LastPart(s) == s.file # Nil /\ s.part = Parts(s.file)

Idle == cur = Nil /\ \A a \in Apids : APIDs[a] = {}

(***************************************************************************)
(* The files that suffer from a batch that brings the good SDUs in come    *)
(* and the bad ones in bad, the others up to now being lost: those with a  *)
(* lost SDU; those a bad SDU falls into, behind or level with some of      *)
(* their SDUs and ahead or level with others; and those whose SDUs in the  *)
(* batch straddle a wrap of the counter.                                   *)
(***************************************************************************)
Suffering(come, now, bad) ==
    LET Before(f, c) == \E k \in 1..pos \cup come :
                           stream[k][1] = f /\ (k <= pos \/ Ctr(k) <= c)
        After(f, c) == \E k \in come \cup now+1..Len(stream) :
                          stream[k][1] = f /\ (k > now \/ Ctr(k) >= c)
    IN {stream[k][1] : k \in (pos+1..now) \ come}
       \cup {f \in Sent : \E b \in bad :
                Meta[f].apid = b[1] /\ Before(f, b[2]) /\ After(f, b[2])}
       \cup {stream[k][1] : k \in {k \in come :
                \E i, j \in come :
                    i < j /\ ApidOf(i) = ApidOf(k) /\ ApidOf(j) = ApidOf(k) /\ Ctr(i) >= Ctr(j)}}

(***************************************************************************)
(* SDU j begins a file in the buffer of the frame that holds the SDUs in   *)
(* zone, and SDU k lies in its way: it is of another APID; or the file's   *)
(* rows grow when they are unpacked; or the SDUs of the APID do not follow *)
(* one another, so that rows are filled in or SDUs applied out of order.   *)
(***************************************************************************)
Orderly(zone, a) ==
    \A i, j \in {k \in zone : ApidOf(k) = a} : i < j =>
        Ctr(i) < Ctr(j) /\ \A k \in i..j : ApidOf(k) = a => k \in zone

InTheWay(zone, j, k) ==
    /\ {j, k} \subseteq zone /\ j < k /\ stream[j][2] = 1
    /\ ApidOf(j) # ApidOf(k) \/ Meta[stream[j][1]].packed \/ ~Orderly(zone, ApidOf(j))

(* The files with an SDU in the way of another's, or begun both in one      *)
(* buffer, the one in the way of the other (FrameMemory!SpoiltOnlyInTheWay). *)
Exposed(zone) ==
    {f \in Sent : \E j, k \in zone :
        InTheWay(zone, j, k) /\ (f = stream[k][1] \/ (f = stream[j][1] /\ stream[k][2] = 1))}

(***************************************************************************)
(* The batch of one frame: the SDUs in come arrive, the others up to now   *)
(* are lost.  The SDU that was cut by the end of an earlier frame, if any, *)
(* is handed over ahead of the others and has a buffer of its own          *)
(* (lastSDU), even if frames between the two were lost; the others lie in  *)
(* the frame's buffer.  The lost SDUs may leave bad ones behind.           *)
(***************************************************************************)
Deliver(come, carried, now, bad) ==
    /\ Idle
    /\ \A k \in (pos+1..now) \ come : stream[k] \in Losable
    /\ bad # {} => come # pos+1..now
    /\ pos' = now
    /\ bads' = bads + Cardinality(bad)
    /\ exposed' = exposed \cup Exposed(come \ carried)
    /\ hurt' = hurt \cup Suffering(come, now, bad) \cup Exposed(come \ carried)
    /\ inWay' = {<<stream[p[1]][1], stream[p[2]]>> :
                    p \in {p \in come \X come : InTheWay(come \ carried, p[1], p[2])}}
    /\ spoilt' = {}
    /\ APIDs' = [a \in Apids |-> {GoodSDU(k) : k \in {k \in come : ApidOf(k) = a}}
                                     \cup {BadSDU(b[2]) : b \in {b \in bad : b[1] = a}}]
    /\ UNCHANGED <<stream, cur, lastAppliedSDU, Files, TransportOutput>>

(* What the headers of the bad SDUs in a frame say: an APID and a counter. *)
BadHeaders ==
    UNION {{ToSet(b) : b \in [1..n -> Apids \X (0..CtrMod-1)]} : n \in 0..MaxBad - bads}

Foremost(come) == {k \in come : \A j \in come : k <= j}

Frames ==
    \E now \in pos+1 .. Len(stream) :
        \E come \in {c \in SUBSET (pos+1..now) : Cardinality(c) <= MaxRun} :
            \E carried \in {{}, Foremost(come)}, bad \in BadHeaders :
                Deliver(come, carried, now, bad)
-----------------------------------------------------------------------------
(* ProcessAllAPIDs: APIDs come in any order, their SDUs sorted by counter. *)

PickAPID(a) ==
    /\ cur = Nil /\ APIDs[a] # {}
    /\ cur' = a
    /\ UNCHANGED <<link, hurt, shared, APIDs, lastAppliedSDU, Files, TransportOutput>>

(* The next SDU to apply, any of those with the lowest counter. *)
Applies(s) ==
    /\ cur # Nil
    /\ s \in APIDs[cur]
    /\ \A t \in APIDs[cur] : s.ctr <= t.ctr
    /\ APIDs' = [APIDs EXCEPT ![cur] = @ \ {s}]
    /\ UNCHANGED <<link, inWay, exposed, cur>>

(* Mutant: neighbours count as a gap of one. *)
SkippedUnadjusted(s) == CounterDiff(CtrMod, lastAppliedSDU[cur], s.ctr)

(***************************************************************************)
(* processAnySkippedSDU: the open file once the gap between s and the SDU  *)
(* applied before it is dealt with.  The subtraction is unsigned.          *)
(***************************************************************************)
Skipped(s) == (CounterDiff(CtrMod, lastAppliedSDU[cur], s.ctr) - 1) % Word

processAnySkippedSDU(s) ==
    LET f == Files[cur] IN
    IF f = Nil \/ lastAppliedSDU[cur] = Nil THEN f
    ELSE IF Skipped(s) = 0 THEN f
    ELSE IF IsImageFile(f) /\ Skipped(s) <= MissingRows(f) THEN Fill(f, Skipped(s))
    ELSE Nil

(* The SDUs that are written over when file f grows to be g. *)
Over(f, g) == IF g \in {f, Nil} THEN {} ELSE {w[2] : w \in {w \in inWay : w[1] = f.file}}
WrittenOver(f, g) == spoilt' = spoilt \cup Over(f, g)

(* Drop, and a file in the place of the one that was dropped (or none). *)
DropThen(f) ==
    /\ Files' = [Files EXCEPT ![cur] = f]
    /\ lastAppliedSDU' = [lastAppliedSDU EXCEPT ![cur] = Nil]

Applied(s, f) ==
    /\ Files' = [Files EXCEPT ![cur] = f]
    /\ lastAppliedSDU' = [lastAppliedSDU EXCEPT ![cur] = s.ctr]

(* Mutant: the file is dropped ahead of the send. *)
SendDropped(f) ==
    /\ Len(TransportOutput) < BufferSize
    /\ TransportOutput' = Append(TransportOutput, Nil)

(* The blocking send of a closed file. *)
Send(f) ==
    /\ Len(TransportOutput) < BufferSize
    /\ TransportOutput' = Append(TransportOutput, Close(f))

(* Less than a CRC's worth of data. *)
SkipShort(s) ==
    /\ Applies(s)
    /\ s.file = Nil
    /\ UNCHANGED <<hurt, spoilt, lastAppliedSDU, Files, TransportOutput>>

(* Mutant: a CRC mismatch drops the files of all APIDs. *)
BadCRCDropsAll(s) ==
    /\ Applies(s)
    /\ WrittenOver(Files[cur], processAnySkippedSDU(s))
    /\ s.file = Nil \/ <<s.file, s.part>> \in spoilt'
    /\ Files' = [a \in Apids |-> Nil]
    /\ lastAppliedSDU' = [lastAppliedSDU EXCEPT ![cur] = Nil]
    /\ UNCHANGED <<hurt, TransportOutput>>

(* A CRC mismatch, of a bad SDU or of a good one that was written over, if *)
(* only by the rows just filled in for the SDUs ahead of it.  It drops the *)
(* file; whatever the sequence flag says, nothing is open after that:      *)
(* OpenNew refuses the SDU.                                                *)
BadCRC(s) ==
    /\ Applies(s)
    /\ WrittenOver(Files[cur], processAnySkippedSDU(s))
    /\ s.file = Nil \/ <<s.file, s.part>> \in spoilt'
    /\ DropThen(Nil)
    /\ UNCHANGED <<hurt, TransportOutput>>

(***************************************************************************)
(* The open file f with s appended.  If f is exposed, its headers may fail *)
(* to parse, and the octets are kept as they came; a row that is to be     *)
(* unpacked may fail to decode.                                            *)
(***************************************************************************)
Appended(f, s, parses, decodes) ==
    LET chunk == SentChunk(s.file, s.part) IN
    IF parses THEN AppendSDU(f, chunk, decodes) ELSE [f EXCEPT !.data = @ \o NonEmpty(chunk)]

(* A row that fails to decode hurts its file. *)
Appending(s, f, parses, decodes) ==
    /\ parses \/ (f.file \in exposed /\ ~f.ready)
    /\ decodes \/ (Meta[s.file].packed /\ (DecodeFails \/ f.file \in exposed))
    /\ hurt' = IF decodes THEN hurt ELSE hurt \cup {f.file, s.file}

ContinueFile(s) ==
    /\ Applies(s)
    /\ s.file # Nil /\ ~FirstPart(s) /\ ~LastPart(s)
    /\ \E f \in {processAnySkippedSDU(s)} :
       \/ /\ f = Nil
          /\ Applied(s, Nil)
          /\ UNCHANGED <<hurt, spoilt, TransportOutput>>
       \/ /\ f # Nil
          /\ \E parses, decodes \in BOOLEAN :
              \E g \in {Appended(f, s, parses, decodes)} :
                /\ Appending(s, f, parses, decodes)
                /\ WrittenOver(Files[cur], g)
                /\ Applied(s, g)
          /\ UNCHANGED TransportOutput

(* Mutant: a file that is still open goes on. *)
StartFileKeepingOpen(s) ==
    /\ Applies(s)
    /\ FirstPart(s) /\ ~LastPart(s)
    /\ IF Files[cur] = Nil THEN DropThen(OpenNew(s.file))
       ELSE Applied(s, AppendSDU(Files[cur], SentChunk(s.file, 1), TRUE))
    /\ UNCHANGED <<hurt, spoilt, TransportOutput>>

(* A first SDU clears out whatever was open, even if rows were filled in   *)
(* there for SDUs missing ahead of it.                                     *)
StartFile(s) ==
    /\ Applies(s)
    /\ FirstPart(s) /\ ~LastPart(s)
    /\ WrittenOver(Files[cur], processAnySkippedSDU(s))
    /\ DropThen(OpenNew(s.file))
    /\ UNCHANGED <<hurt, TransportOutput>>

FinishFile(s) ==
    /\ Applies(s)
    /\ LastPart(s) /\ ~FirstPart(s)
    /\ \E f \in {processAnySkippedSDU(s)} :
       \/ /\ f = Nil
          /\ Applied(s, Nil)
          /\ UNCHANGED <<hurt, spoilt, TransportOutput>>
       \/ /\ f # Nil
          /\ \E parses, decodes \in BOOLEAN :
              \E g \in {Appended(f, s, parses, decodes)} :
                /\ Appending(s, f, parses, decodes)
                /\ WrittenOver(Files[cur], g)
                /\ IF HeadersPopulated(g) THEN Send(g) ELSE UNCHANGED TransportOutput
          /\ DropThen(Nil)

SingleFile(s) ==
    /\ Applies(s)
    /\ FirstPart(s) /\ LastPart(s)
    /\ \E f \in {OpenNew(s.file)} :
        /\ IF HeadersPopulated(f) THEN Send(f) ELSE UNCHANGED TransportOutput
        /\ spoilt' = spoilt \cup Over(Files[cur], processAnySkippedSDU(s))
                           \cup (IF HeadersPopulated(f) THEN Over(f, Close(f)) ELSE {})
    /\ DropThen(Nil)
    /\ UNCHANGED hurt

(* The end of an APID: nothing is remembered of its counters. *)
EndAPID ==
    /\ cur # Nil /\ APIDs[cur] = {}
    /\ cur' = Nil
    /\ lastAppliedSDU' = [lastAppliedSDU EXCEPT ![cur] = Nil]
    /\ UNCHANGED <<link, hurt, shared, APIDs, Files, TransportOutput>>

AssemblerInit ==
    /\ stream \in Streams
    /\ pos = 0
    /\ bads = 0
    /\ hurt = {} /\ inWay = {} /\ spoilt = {} /\ exposed = {}
    /\ APIDs = [a \in Apids |-> {}]
    /\ cur = Nil
    /\ lastAppliedSDU = [a \in Apids |-> Nil]
    /\ Files = [a \in Apids |-> Nil]
    /\ TransportOutput = << >>

ProcessAllAPIDs ==
    \/ \E a \in Apids : PickAPID(a)
    \/ \E s \in (IF cur = Nil THEN {} ELSE APIDs[cur]) :
          \/ SkipShort(s) \/ BadCRC(s)
          \/ ContinueFile(s) \/ StartFile(s) \/ FinishFile(s) \/ SingleFile(s)
    \/ EndAPID

AssemblerTypeOK ==
    /\ stream \in Streams
    /\ pos \in 0..Len(stream)
    /\ hurt \subseteq Sent /\ exposed \subseteq Sent
    /\ spoilt \subseteq Sent \X Nat /\ inWay \subseteq Sent \X (Sent \X Nat)
    /\ APIDs \in [Apids -> SUBSET MSDU]
    /\ cur \in Apids \cup {Nil}
    /\ lastAppliedSDU \in [Apids -> (0..CtrMod-1) \cup {Nil}]
    /\ Files \in [Apids -> FileType \cup {Nil}]
    /\ TransportOutput \in Seq(FileType)
    /\ Len(TransportOutput) <= BufferSize
=============================================================================
