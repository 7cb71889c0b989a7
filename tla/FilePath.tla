------------------------------ MODULE FilePath ------------------------------
(***************************************************************************)
(* The way of a file from its SDUs to the application: the transport       *)
(* layer's Assembler and the session layer, two goroutines joined by a     *)
(* bounded channel, and the application that reads the last channel.       *)
(***************************************************************************)
EXTENDS Assembler

VARIABLES lf, LRITOutput,
    received                 \* what the application read (history)

vars == <<assemblerVars, lf, LRITOutput, received>>

Layer == INSTANCE Session WITH TransportInput <- TransportOutput

Init == AssemblerInit /\ Layer!SessionInit /\ received = << >>

TransportStep ==
    (Frames \/ ProcessAllAPIDs) /\ UNCHANGED <<lf, LRITOutput, received>>

SessionStep ==
    /\ Layer!ProcessTransportFile \/ Layer!SendFile
    /\ UNCHANGED <<link, hurt, inWay, spoilt, assembly, received>>

(* The application reads a file. *)
Consume ==
    /\ LRITOutput # << >>
    /\ received' = Append(received, Head(LRITOutput))
    /\ LRITOutput' = Tail(LRITOutput)
    /\ UNCHANGED <<assemblerVars, lf>>

Next == TransportStep \/ SessionStep \/ Consume

Spec == Init /\ [][Next]_vars

(***************************************************************************)
(* Both layers loop for ever, receiving when there is something to         *)
(* receive; the application is assumed to keep reading.  Nothing obliges   *)
(* the link to bring another frame.                                        *)
(***************************************************************************)
FairSpec ==
    /\ Spec
    /\ WF_vars(ProcessAllAPIDs /\ UNCHANGED <<lf, LRITOutput, received>>)
    /\ WF_vars(SessionStep)
    /\ WF_vars(Consume)
-----------------------------------------------------------------------------
TypeOK ==
    /\ AssemblerTypeOK
    /\ lf = Nil \/ lf \in FileType
    /\ LRITOutput \in Seq(FileType) /\ Len(LRITOutput) <= BufferSize
    /\ received \in Seq(FileType)

(***************************************************************************)
(* The promise of FileDelivery, to the files that are not exposed.  It     *)
(* depends on the first SDUs of files getting through and on no batch      *)
(* straddling a wrap of the counter.                                       *)
(***************************************************************************)
Promise == INSTANCE FileDelivery
DeliverySpec == Promise!DeliverySpec

(***************************************************************************)
(* Files that the receiver can pass on at all: the archive unpacks; the    *)
(* secondary headers are parsed with some SDU (OpenNew does it only if the *)
(* packet's SecondaryHeaderFlag is set, Append only if there is data       *)
(* behind them already); and no row that came with the headers of a        *)
(* flagged packet is left compressed.                                      *)
(***************************************************************************)
Deliverable(f) ==
    /\ Meta[f].zip # "broken"
    /\ \/ Parts(f) > 2
       \/ Meta[f].lens[1] > 0 /\ (Parts(f) = 2 \/ Meta[f].flagged)
    /\ ~(Meta[f].packed /\ Meta[f].flagged /\ Meta[f].lens[1] > 0)

(* The files whose SDUs all arrived undisturbed. *)
Undisturbed == {f \in Sent \ hurt : \E k \in 1..pos : stream[k] = <<f, Parts(f)>>}

(* The files the application has whole, and that no other file writes into. *)
Whole ==
    {received[i].file : i \in {i \in DOMAIN received : Promise!Whole(received[i])}} \ exposed

Quiet == Idle /\ TransportOutput = << >> /\ lf = Nil /\ LRITOutput = << >>

(***************************************************************************)
(* Damage stays where it is: whatever happens to other files, of this APID *)
(* or of another, in this frame or before, a file whose own SDUs arrive,   *)
(* undisturbed by loss, damage or a file in whose way they lie, reaches    *)
(* the application whole.                                                  *)
(***************************************************************************)
UndisturbedDelivered ==
    Quiet => \A f \in Undisturbed : Deliverable(f) => f \in Whole

(***************************************************************************)
(* A file that was undisturbed when the frame with its last SDU came in    *)
(* reaches the application in the end (unless a row fails to decode): full *)
(* channels delay it, and never for ever.                                  *)
(***************************************************************************)
EventuallyDelivered ==
    \A f \in Sent :
        f \in Undisturbed /\ Deliverable(f) ~> f \in Whole \cup hurt
-----------------------------------------------------------------------------
(***************************************************************************)
(* Why UndisturbedDelivered holds.  An SDU is named by its place in the    *)
(* stream.  It waits while it is in the frame at hand; it is done when it  *)
(* came up and was dealt with, or was lost.  A place is safe if its file   *)
(* is not hurt.                                                            *)
(***************************************************************************)
Places == DOMAIN stream
SduAt == [k \in Places |-> GoodSDU(k)]
ApidAt == [k \in Places |-> ApidOf(k)]
CtrAt == [k \in Places |-> Ctr(k)]

Waiting == {k \in 1..pos : SduAt[k] \in APIDs[ApidAt[k]]}
Done == (1..pos) \ Waiting
Safe == {k \in Places : stream[k][1] \notin hurt}

(* What waits is an SDU that was sent, or a bad one. *)
WaitingInv ==
    \A a \in Apids : \A s \in APIDs[a] :
        s.file # Nil => \E k \in Waiting : ApidAt[k] = a /\ s = SduAt[k]

(* Around a safe SDU the counters ascend. *)
Ascending ==
    \A k \in Waiting \cap Safe, j \in Waiting : ApidAt[j] = ApidAt[k] =>
        /\ j < k => CtrAt[j] < CtrAt[k]
        /\ k < j => CtrAt[k] < CtrAt[j]

(* Nothing waits ahead of a safe SDU that is done. *)
DoneInOrder ==
    \A k \in Done \cap Safe, j \in Waiting : ApidAt[j] = ApidAt[k] => k < j

(* No bad SDU is due between SDUs i and j of a safe file, or level with one *)
(* of them: i waits behind it, or j is done or waits ahead of it.           *)
BadApart ==
    \A a \in Apids : \A b \in APIDs[a] : b.file = Nil =>
        \A i, j \in Safe :
            ApidAt[i] = a /\ stream[i][1] = stream[j][1] /\ i <= pos =>
                \/ i \in Waiting /\ b.ctr < CtrAt[i]
                \/ j \in Done
                \/ j \in Waiting /\ CtrAt[j] < b.ctr

(* The file f after its first p parts: the secondary headers are parsed    *)
(* with the first SDU that comes behind some data.                         *)
Parsed(f, p) == IF p = 1 THEN Meta[f].flagged /\ Meta[f].lens[1] > 0
                ELSE p > 2 \/ Meta[f].lens[1] > 0
Partial(f, p) ==
    [file |-> f, ready |-> Parsed(f, p),
     data |-> NonEmpty(Unpacked(SentChunk(f, 1), Parsed(f, p)))
              \o [i \in 1..p-1 |-> Unpacked(SentChunk(f, i + 1), Parsed(f, p))]]

(* What files may be written over, and whose, is counted as hurt. *)
SharedInv ==
    /\ exposed \subseteq hurt
    /\ \A w \in inWay : w[2][1] \in hurt
    /\ \A e \in spoilt : e[1] \in hurt

(* Between two parts of a safe file, what its APID has open is the file as *)
(* far as it came, and no other SDU was applied since.                     *)
OpenInv ==
    \A k \in Done \cap Safe, j \in Safe \ Done :
        stream[j] = <<stream[k][1], stream[k][2] + 1>> /\ Deliverable(stream[k][1])
            => /\ Files[ApidAt[k]] = Partial(stream[k][1], stream[k][2])
               /\ lastAppliedSDU[ApidAt[k]] \in {Nil, CtrAt[k]}

(* Once its last part is done, a safe file is on its way or received. *)
OnTheWay == ToSet(TransportOutput) \cup ({lf} \ {Nil}) \cup ToSet(LRITOutput) \cup ToSet(received)
DoneInv ==
    \A k \in Done \cap Safe :
        stream[k][2] = Parts(stream[k][1]) /\ Deliverable(stream[k][1])
            => \E g \in OnTheWay : g.file = stream[k][1] /\ g.data = Original[stream[k][1]]

DeliveryInv ==
    WaitingInv /\ Ascending /\ DoneInOrder /\ BadApart /\ SharedInv /\ OpenInv /\ DoneInv
-----------------------------------------------------------------------------
(* What messages and comments in the code say of it. *)

(***************************************************************************)
(* assembler.go:46, "Missing SDU! Last packet: %d, current packet: %d", is *)
(* said of the next SDU only when some SDU is missing.                     *)
(***************************************************************************)
GapOnlyIfMissing ==
    Losable = {} /\ MaxBad = 0 /\ cur # Nil =>
        \A s \in APIDs[cur] :
            (\A t \in APIDs[cur] : s.ctr <= t.ctr) /\ lastAppliedSDU[cur] # Nil
                => Skipped(s) = 0

(***************************************************************************)
(* file.go:71, "If decompression fails, just insert black lines": no row   *)
(* of an open image whose headers are known is left compressed.            *)
(***************************************************************************)
NoCompressedRows ==
    \A a \in Apids : Files[a] # Nil /\ IsImageFile(Files[a]) =>
        \A i \in DOMAIN Files[a].data : Files[a].data[i].kind # "packed"
=============================================================================
