# Verification of ccsds_tools

ccsds_tools receives LRIT/HRIT broadcasts (GOES and similar): samples go in at
one end, LRIT files come out at the other. This directory holds TLA+ models of
the parts of the receiver that carry its logic, TLC configurations that check
them on small instances, and TLAPS proofs for every value of the constants.
Source lines are named relative to the repository's root.

Contents:

1. The system
2. Modules and how they correspond to the code
3. Assumptions
4. What the runs check
5. What is proved
6. Disagreements between code and text
7. Not modelled
8. Plan

## 1. The system

The receiver is a chain of *layers*, each a goroutine that loops for ever,
joined by Go channels. A layer polls its input (`select` with `default` and a
millisecond's sleep) and sends with a plain, blocking send.

    samples -> Demodulator -> Decoder -> TransportLayer -> LRITGen -> application
               (physical)     (datalink)  (transport)      (session)
                     symbols        frames          lrit.File   *lrit.File

| Component | State | Operations | Hard behaviour | What makes it correct |
|---|---|---|---|---|
| `layers/physical` Demodulator | AGC, filters, loops; `CurrentFFT`, `FFTWorking`, `Stopping`, last average | `Start`, `demodBlock`, `doFFT`, `Flush`, `Close`, `Destroy` | a goroutine per spectrum against the sample loop; `Close` closes the channel the loop sends on | one spectrum at a time, in order; no send on a closed channel |
| `layers/datalink` Decoder | Viterbi/encoded buffers, `FrameLock`, counters, RS buffers, statistics mutex | `Start`, `Reset`, `Flush`, statistics getters | lock and resynchronisation; `Reset`/`Flush` from other goroutines; reused buffers | lock is lost when correlation is lost; a frame passed on has at least one corrected block; counters stay consistent |
| `layers/transport` TransportLayer | one `TransportAssembler` per VCID, ignored channels | `ProcessFrame` | frames of several channels interleaved | a channel is not disturbed by another |
| demultiplexing (`assembler.go`, `ParseFrame`, `ParseMSDUs`) | `lastSDU`, `lastVCDU` | one call per frame | packets cut across frames; lost, damaged, repeated frames; counter wrap | see `SduStream` and the properties of `Demux` |
| file assembly (`ProcessAllAPIDs`) | `APIDs`, `Files`, `lastAppliedSDU` per APID | one call per frame | lost and bad SDUs; counter wrap; files left open; blocking send | see `FileDelivery` and the properties of `FilePath` |
| `lrit.File` | `RawData`, `Data`, headers and their "populated" flags | `OpenNew`, `Append`, `Close`, `IsValid`, fill rows | headers parsed at one of three moments; rows that do not decode; unsigned lengths | a file passed on has the length it declares |
| `lrit` headers | none | parse primary and secondary headers, look things up in them | lengths from the data itself; unsigned checks; headers that are absent | a file ends up with the headers it was sent with |
| `packets` | none | `CalcCRCBuffer`, `CounterDiff`, frame and packet headers | table-driven CRC; wrap | accepts what is undamaged, and no burst of errors; distance modulo the range |
| frame buffers | the octets of each frame, which SDUs and files are slices of | `append` in place | files that grow over octets not read yet | a file holds its own octets |
| `layers/session` LRITGen | the file in hand | validate, unzip, send | blocks when the application lags | nothing valid is lost |
| `pipeline` | layer slots, channels | `Register`, `Start`, `Flush`, `Reset`, `Destroy` | registration order; destroying while running | what is started is a chain; nothing is closed under a running layer |
| file I/O | none | `WriteFile`, `NewExistingFile` | headers looked up once more, parsed a second way | a file written is read again as it was |
| configuration, library calls | none | ZIP, Rice, file names | | |

Interaction is by channels only from Decoder on; inside the transport layer the
demultiplexer hands a frame's SDUs to the file assembly through the map `APIDs`
in one call chain (`ProcessVCDU`), which `ProcessAllAPIDs` empties again before
the next frame is received. The two halves therefore meet in a simple
interface, and each is modelled with the other replaced by what it promises.

The list of hazards, at the lines where they bite, is in `PROJECT.json`.

## 2. Modules and how they correspond to the code

    Decoder --- DecoderProofs                  Decoder implements SduStream (frames)
    Packets ---- Demux ---- MCDemux            Demux implements SduStream (SDUs)
                   |
                   +-- DemuxProofs -- DemuxRecoveryProofs

    LritFile --- Assembler --- FilePath --- MCFilePath
        |                        |  |  |    FilePath implements FileDelivery
        |                        |  |  +--- FilePathProofs -- FileDeliveryProofs
        +--- Session ------------+  |            |
        +--- FileDelivery ----------+            |
        +--- LritFileProofs ---------------------+
        |        |
        |        +--------- FrameMemoryProofs
        |                        |
        +--- FrameMemory --------+--- MCFrameMemory
        +--- MCFiles, the files that MCFilePath and MCFrameMemory send

    Headers, Crc ---- HeaderPath ---- MCHeaderPath
    Demodulator, Statistics ---- Pipeline ---- MCPipeline
                                    |
                                    +--- PipelineProofs

**Decoder** models `Decoder.Start`: the test for a block's worth of symbols,
the receives one by one, `checkIfFrameLocked`, `correlate` with its backfill,
decoding, the send and `clearBuffers`. A symbol is its offset in what the
satellite sends, a block a sequence of symbols. What the correlator, Viterbi
and Reed-Solomon find are choices: a whole sync word is found, without one
anything may be, and symbols that do not start a frame cannot be corrected.
Frames are passed by reference, so `heap` says what each buffer holds. The
demodulator sends symbols, good or damaged, or loses a run of them; another
goroutine flushes the channels, testing a length and then receiving as `Flush`
does, and may then call `Reset`; the transport layer receives a frame and reads
it later. What the decoder counts is in **Statistics**.

| code | model |
|---|---|
| `d.EncodedBytes` | `EncodedBytes`, the part of it that is filled |
| `d.lastFrameOk`, `d.recheckCounter`, `d.FrameLock` | the variables of those names |
| `d.currentFrameCorrupt` | whether `errorCorrectPacket` goes on to "send" or "clear" |
| `d.RSCorrectedData` | `RSCorrectedData`, a buffer of `heap` |

**Packets** is `CounterDiff`, the distance between two readings of a counter
that wraps.

**Demux** models one virtual channel of the demultiplexer: `ParseFrame`'s
fields, `checkForSkippedVCDU`, `ParseMSDUs`, `saveContinuationPacket`,
`savePartialPacketEnd`, and the hand-over to `ProcessAllAPIDs`. The ground
segment lays packets end to end and cuts them into zones. An octet is named by
its offset in that stream, so a slice is an interval of offsets; `lastSDU`,
which may splice octets from both sides of a gap, is described by where its
first octet comes from, its length, and how many leading octets are
consecutive and undamaged. Every pass of the packet loop is one step
(`SkipFill`, `FillPastEnd`, `SavePartial`, `TakePacket`, `EndScan`). The link
may lose any frames, damage some (every field of the frame arbitrary), and, in
one run, repeat one. `seen`, `damaged`, `report` and `out` are history.

| code | model |
|---|---|
| `t.lastSDU` | `lastSDU` (from, len, intact) |
| `t.lastVCDU` | `lastVCDU` |
| local `data` in `ParseMSDUs` | `at`, the offset in the zone where it starts |
| local `ret` | `ret` |
| the log lines of `checkForSkippedVCDU` | `report` |
| calls of `ProcessAllAPIDs` | `out`, everything it was given |

**SduStream** is the promise of `Demux` to what follows: good SDUs are packets
that were sent, each at most once, in order; bad ones may stand anywhere.

**LritFile** is `lrit.File`, and what its `RawData` holds. A file's data is a
sequence of chunks, one per SDU or fill row, that remember which SDU they came
in and how many octets they have. `OpenNew`, `AppendSDU`, `MissingRows`,
`Close` and `IsValid` follow the methods of those names, the moment at which
the secondary headers are parsed included, and subtract modulo `Word` as Go's
`uint64` does.

**Assembler** is `ProcessAllAPIDs`. `Frames` brings a batch: some of the SDUs
that were sent next, the others lost, and bad SDUs with any APID and counter.
The SDU that was cut by the end of an earlier frame comes first and may have
lost its neighbours: `ParseMSDUs` hands over what `lastSDU` completes together
with the packets of the next frame that has a header, whatever was lost between
the two (`assembler.go:233-258`). That is when `processAnySkippedSDU` meets a
gap amid a batch, and fills rows in or drops the file. (`Frames` leaves out any
SDUs of a batch, which is more than the parser can.) `PickAPID` is one turn of
the outer loop (Go's map order is any order), the actions on one SDU are the
turns of the inner loop, and `EndAPID` deletes what the code deletes after it.
One SDU is one action, since nothing else can see the assembler's maps; but an
action that sends is enabled only when the channel has room. The history `hurt`
collects the files that loss or damage has touched, so that properties can speak
about the others.

In the code the SDUs of a frame, and the files begun with them, are slices of
one buffer, and `append` writes in place over what lies behind
(`file.go:21,112,122`, `assembler.go:58`). **FrameMemory**, below, has the
octets; Assembler has what follows from them for whole SDUs and files, so that
loss and damage can be looked at together with it:

* `inWay` says which SDUs of the frame lie in the way of a file begun in it
  (`InTheWay`): those behind its first SDU that belong to another APID; and any
  behind it if its rows grow when they are unpacked, or if its APID's SDUs do
  not follow one another (`Orderly`), since rows are filled in then, or SDUs are
  applied in another order than they lie in. The SDU that `lastSDU` completed
  has a buffer of its own and is in nobody's way.
* When a file grows (`WrittenOver`) those SDUs are `spoilt`, and may fail their
  CRC from then on (`BadCRC`); they need not, as the file may not reach so far.
* A file is `exposed` when an SDU of it lies in another's way, or a first SDU
  in its own: its octets may be another file's. If its headers were not parsed
  yet they may fail to parse or not, its rows to decode or not, its archive to
  unpack or not. Its chunks then say how long it is and which SDUs it took in,
  not what they hold.
* Every exposed file is `hurt`: the properties about contents claim nothing of it.

| code | model |
|---|---|
| `t.APIDs` | `APIDs`, a set per APID (sorting is "lowest counter first", ties in any order as `sort.Slice` is not stable) |
| `t.lastAppliedSDU` | the counter of that SDU |
| `t.Files` | `Files` |
| the buffer under `sdu.Data` and `RawData` | `inWay`, `spoilt`, `exposed` |
| `*t.TransportOutput` | a sequence of at most `BufferSize` files |

**Session** is `LRITGen`: receive and decide, then send. **FilePath** composes
it with the assembler and with an application that reads, so that transport,
session and application interleave freely. **FileDelivery** is the promise to
the application: what it gets was sent, at most once, an APID's files in the
order they were sent. Of files that are not exposed it says more: a text is
whole; an image has the declared size and its rows in order, as many fill rows
between two of them as rows are missing there at most, the others at its end.
And no file comes to be exposed that was handed over already.

**FrameMemory** is the same assembler seen from the buffers. `ParseMSDUs` cuts
SDUs out of the frame's buffer without copying, `OpenNew` makes such a slice
the `RawData` of a file, and Go's `append` then writes behind it, in place, as
long as there is capacity: to the end of the frame. An SDU that is cut by the
end of a frame lives in a buffer of its own. Here nothing is lost and nothing
damaged; `mem` holds the octets of all frames, a file is a position and a
length in it (or has a buffer of its own once it outgrew the frame's), and
carries along the `value` that `LritFile` gives it. The properties compare the
two. `delivered` keeps the slices of files that were sent on: the session layer
and the application read them while the frame's other files still grow.

| code | model |
|---|---|
| a frame's octets, `sdu.Data` | `mem`, and `Octet(m, k)` what SDU k's slice reads in it |
| `RawData`, its length and capacity | `at`, `len`, `ZoneEnd(at)`; `own` after a reallocation |
| `append(RawData, ...)`, `RawData[:n]` | `AppendTo`, `CutTo` |
| `PopulateSecondaryHeaders`, then appending the rest again | `Reappended` |
| rows decoded | `RowsFor`: what was sent decodes to the row, anything else may fail or not |

**Headers** and **Crc** are pure operators on octets: `MakePrimaryHeader`,
`getNextHeader` (an error, a panic, or a header) and the look-ups in what it
makes; `CalcCRCBuffer` with its table as it stands in the code, and the
division by the polynomial that the ground segment does. **HeaderPath** sends
one file through them. Its first SDU may be hit by a burst of errors; then come
`OpenNew`, `Append`, `Close`, the session layer's checks, `WriteFile`, and
`NewExistingFile` on the file that was written. The walk over the headers is
one step per header, as `getNextHeader` may panic at each.

| code | model |
|---|---|
| `RawData`, `PrimaryHeader`, `SecondaryHeaders`, `SecondaryHeadersPopulated` | `raw`, `ph`, `made`, `ready` |
| `data`, `len` and the headers found in `MakeSecondaryHeaders` and `PopulateSecondaryHeaders` | `walk` |
| an error returned, a panic | `phase` |
| the file on disk | `disk` |

**Demodulator** is the loop over blocks of samples: take a block, start a
spectrum if none is being worked on, then for each symbol test `Stopping` and
send. The arithmetic in between is left out; a block yields `SymbolsPerBlock`
symbols, and a symbol in the channel stands for as many as make up a frame.
Each `doFFT` goroutine sets `FFTWorking`, publishes, sleeps and clears the
flag. `Close` is two steps, since the loop runs between them. **Statistics** is
the decoder's counting with `StatsMutex` against `Reset`, which takes no lock:
each read and each write is a step. A map of counts is its sum and an identity,
because `Reset` puts a new map in place of one the decoder may be about to
write to. **Pipeline** joins the two with `Register`, `Start`, `Flush`,
`Reset`, `Destroy` and the application that calls them. `Register` takes any
layer in any order and any number of times. A panic in any goroutine ends the
process (`crashed`).

| code | model |
|---|---|
| `p.Layers`, `p.NumLayersRegistered` | `Layers` (a layer's channels, numbered as they are made), `NumLayersRegistered` |
| `SampleInput`, `SymbolsOutput` | a sequence of block numbers; a number of symbols |
| `d.Stopping`, `d.FFTWorking`, `d.CurrentFFT` | the variables of those names |
| `TotalFramesProcessed`, `RxPacketsPerChannel`, `DroppedPacketsPerChannel` | `TotalFramesProcessed`, `Rx`, `Dropped` |
| the application's goroutine inside a call | `app` |

**MCDemux**, **MCFilePath**, **MCFrameMemory**, **MCHeaderPath** and
**MCPipeline** define the instances that TLC checks. Operators
commented "Mutant" in the component modules are deliberate mistakes, used to
confirm that each property notices one; no specification refers to them.

## 3. Assumptions

* Symbols that do not start a frame fail Reed-Solomon in all four blocks, and a
  whole undamaged sync word correlates better than anything else.
* The symbol channel holds at least one encoded frame (`SymbolBuffer >=
  FrameLen`). Nothing in the code ensures it: `Pipeline.Register` uses the
  configured chunk size. At least one whole frame is sent (`LastSymbol >=
  FrameLen`).
* A packet passes its CRC exactly when its octets are those that were sent; so
  an SDU that was written over and comes through its CRC is as it was sent.
  `HeaderPath` does not assume it: there the CRC is computed, and holds for
  bursts of up to 16 bits, which is what a CRC of 16 bits can promise.
* In `LritFile`, and so in `FilePath` and `FrameMemory`, a file's headers come
  whole with its first SDU and include a NOAA header. `HeaderPath` drops both
  and shows what happens then. The files of one APID are sent one after the
  other, each whole and part by part (`IsStream`, in `LritFile`); files of
  different APIDs mix in any way.
* No file's length comes near the range of a `uint64` (`Word`): `FilePath` needs
  that the declared length fits, `FrameMemory` that it fits together with the
  first SDU, as compressed octets may stand in for a row for a while.
* What is sent is well formed: header lengths are right, images are not empty.
* If the octets of headers were written over and parse all the same, they are
  taken to say what they said, and bring nothing down (`FrameMemory`,
  `FilePath`).
* `FilePath` says of a frame's buffer only what lies in whose way (section 2).
  Where nothing is lost, `SpoiltOnlyInTheWay` shows octet for octet that nothing
  else is written over. Where something is, the argument is by hand. An SDU's
  octets take more room in their packet than laid end to end, so a file whose
  rows stay as they are reaches past the SDU it took in last only if rows are
  filled in, or if it took in SDUs that lie further on in the frame before those
  that lie nearer. While the SDUs of its APID in the zone are `Orderly`, the
  second cannot be, and a gap is met only by an SDU behind all of them: a bad one
  with a high counter, or one of a later frame, when nothing of the frame waits
  any more. Behind the file there is then no SDU of its APID to be written over,
  and no file of it. `Close` fills rows in only if some are missing; a file begun
  in the zone whose last SDU lies in an orderly zone too misses none.
* The application registers layers before it calls `Start`, and makes one call
  at a time. The file system does not fail.
* A frame's damage may make its fields anything, but frames that arrive bring
  their packets in order; the file assembly is not given one SDU twice.
  (`demux_repeat` shows what happens to the demultiplexer when they are.)
* A damaged frame has a packet whose claimed length is at most the zone or runs
  past it: all longer lengths behave alike, so one of each is enough.
* Assemblers of different VCIDs share only the output channel, so one is
  modelled.
* Packets are longer than their header and no longer than `LenMod` can count
  (65535 octets of payload in the code).

## 4. What the runs check

Runs that pass:

| run | shows | bounds |
|---|---|---|
| `decoder_sync` | `Resynchronises`: after a fault, the third intact frame in a row is passed on again. `LinkSpec`: what the transport layer reads, whenever it reads it, are sent frames, once and in order. `TypeOK`. | frames of 4 symbols, sync words of 2, six frames, reception starting anywhere, one symbol damaged or one run lost |
| `decoder_flush` | `Resynchronises` when `Flush` takes symbols at any moment, in the middle of a block too. `SymbolsDrained`: a full symbol channel gets room again. | frames of 3 symbols, nearly five frames, a channel that holds exactly one frame, one flush with or without the reset |
| `demux` | `NothingElseLost`: losing frames costs only the packets they touch. `OneSplicePerGap`: a gap yields at most one bad SDU. `GapReported`: a gap is reported exactly when the wrapped counters show it. `PartialHasFrame`: `lastVCDU`, which is dereferenced unchecked, is set by then. `AlignedScan`: the loop stands at packet headers. `TypeOK`: slices stay in bounds. `StreamSpec`: it implements `SduStream`. | 4 zones of 4 octets, headers of 2, packets of 3, 5 and 10 octets, every choice of fill, every pattern of loss, one frame of arbitrary content; counter modulo 3 |
| `file` | `DeliverySpec` (implements `FileDelivery`) and `UndisturbedDelivered`: a file whose own SDUs arrive, in no other file's way in a frame's buffer, reaches the application, whatever happens around it. `EventuallyDelivered`: full channels delay it, never for ever. `TypeOK`. | three files on two APIDs: a compressed image of four SDUs whose headers are parsed late, an archive behind it, and a broken archive; every interleaving; batches of up to three SDUs with any holes, one of them carried over from an earlier frame; channels of capacity 1; any SDU but the first of a file lost |
| `file_damage` | `UndisturbedDelivered` again. | a compressed image of three SDUs and a text behind it, a text of two SDUs on another APID; batches of up to four SDUs; any SDU lost, a bad SDU with any header, rows that fail to decode, the sequence counter modulo 4, so that it wraps |
| `memory` | `SpoiltOnlyInTheWay`: files hold what `LritFile` says, and SDUs keep their CRC, except in one constellation (below). `TypeOK`. | four files on two APIDs, one of them with rows that grow from 1 octet to 6, headers and CRCs of 1 octet; every interleaving, every alignment to frames of 14 octets |
| `headers` | `AcceptedIffUndamaged`: the CRC stops every burst and nothing else. `HeadersAsSent`: whichever of the four places parses the headers, they are those sent. `ReadBack`: what `WriteFile` wrote is read again. `PanicsOnlyIf`, `RefusedOnlyIf`: the only files that bring the program down, or that `Close` gives up. | every header type, bodies of 0, 2 and 16 octets, one to three SDUs, of which the first ends in seven places before, amid or behind the headers; bursts of 1, 13 and 16 bits at every bit |
| `pipeline` | `Wired`: what survives `Start` is a chain of layers, each reading what the one below writes. `OneSpectrum`, `SpectraInOrder`, `SpectraGoOn`: `FFTWorking` does its work. `SendPanicOnlyCaught`: only an application that calls `Close` itself can make the demodulator panic. `CountsSinceReset`: what `Reset` leaves in the counters. `TypeOK`. | up to three registrations in any order, then two calls of `Flush`, `Reset`, `Destroy` or `Close`; two blocks of one symbol, channels of capacity 1 |

The bounds are enough for the cases to occur. Zones of 4 octets with 2-octet
headers put packet boundaries at every position of a zone, split headers across
frames, make packets end exactly at a zone's end, and (10 octets) span three or
four frames, one of them without a header. A counter modulo 3 wraps within four
frames, so a loss that leaves the counter where it was occurs too. With
capacity 1 and three files both channels fill. An image of four SDUs can lose
its second or third in a batch that holds its neighbours: rows are filled in
amid it (in `file_damage` the counter of a bad SDU may also claim more rows
than `MissingRows` allows, and the file is dropped); and two APIDs in one frame
write over each other's SDUs and files. `file` has 61,585 distinct states,
`file_damage` 778,580; each takes about a minute. `Word` only has to exceed
every file's length. In frames of 14 octets an SDU begins at every place, three
to five frames are needed, a file outgrows its frame, and a packet's end meets
the frame's end exactly. Header fields hold few values because no step but a
look-up depends on them; lengths are the real ones. Three registrations are
enough for every way to fail at `Start`: a slot below the count is empty as
soon as one layer is registered twice or one is left out. Two calls are enough
for a second `Close` (which panics too), a `Reset` behind a `Flush`, and a
`Close` amid a block; two blocks for two spectra at once.

`Resynchronises` is tight: with "the second intact frame" TLC finds a
counterexample (a damaged block that decodes all the same keeps the decoder in
lock, and the block behind it is thrown away for want of correlation at its
front). The sync word that lies across the end of a block is a real exception,
and TLC finds that too when `~split` is taken away: no search can see it, and
if nothing correlates by chance the next block is cut in the same place. In
frames of 4 symbols with sync words of 2, one phase in four is of that kind
(64 in 16384 in the code).

Undisturbed files exclude those in another's way (`Exposed`) since
`memory_crc` shows that such a file may be dropped although nothing is wrong
with it. What remains is not a matter of course: the same SDUs drop, fill and
delay their neighbours, and an SDU that was written over drops whatever its APID
has open.

Why two runs for files: `FileDelivery` is *not* kept when the first SDU of a
file is lost (the next SDUs join the file left open), when a bad SDU's counter
matches, or when a batch straddles a wrap of the counter; `file` states
the conditions under which the receiver keeps the promise, and `file_damage`
shows that without them it still does not spoil undisturbed files.
`Deliverable` excludes the files that the code cannot deliver even when nothing
goes wrong (end of section 6).

Some properties of the newer runs have exceptions, and each was put there by a
counterexample:

* `SpoiltOnlyInTheWay` allows damage between two SDUs of one frame when the
  first begins a file and the second belongs to another APID, or when the
  first begins a compressed image. In the first case the file that is begun
  grows over the other SDU before its turn comes (APIDs are processed one after
  the other), or is overwritten itself, by a file begun behind it. In the second its
  own rows grow over the next.
* `OneSpectrum` and `SpectraInOrder` allow for `raced`: a block is taken before
  the goroutine started for an earlier one has set the flag. Then two spectra
  are worked on and the older may be published last.
* `CountsSinceReset` allows for `overlapped` in the total: the decoder reads it,
  `Reset` writes zero, the decoder writes the old total plus one.
* `PanicsOnlyIf` and `RefusedOnlyIf` name the files; section 6 says why.

Fairness: `file`, `decoder_flush` and `pipeline` use `FairSpec`. The `Start`
loops of decoder, transport and session receive whenever something is there,
and Go's scheduler runs every goroutine that can run; hence weak fairness of
`DecoderStep`, `TransportStep`, `ProcessAllAPIDs` and the session's steps. The
application is assumed to keep reading. In `pipeline` only the goroutines of
the spectra are fair, each for itself: they wait for nothing but the clock.
Demodulator, radio, link and flushing goroutine owe nothing. The system may
stop for good when the stream is over or the process has crashed, so deadlock
is not checked.

Every property of a passing run has a mutant in `PROJECT.json`: a definition
replaced by a plausible mistake (an off-by-one, a missing reset, a dropped
guard) that TLC finds to violate it.

## 5. What is proved

Each theorem holds for every value of the constants that satisfies the
assumption of its model: for `Demux` every zone and header length, counter
modulus, number of frames and packet stream; for `Pipeline` every number of
blocks, symbols, registrations and calls and every channel capacity; for
`Decoder` every frame and sync word length, number of symbols, buffers,
faults and flushes; for `FilePath` every set of files and APIDs, every stream
of their SDUs, every cut into frames and any holes in their batches, every loss
and every bad SDU; for
`FrameMemory` every set of files, every stream, every alignment and every
length of frames, headers and CRC.

| module | theorem | states |
|---|---|---|
| DemuxProofs | `CounterDiffCorrect` | `CounterDiff` is the distance modulo the range, zero only for equal readings |
| | `TypeCorrect` | `Spec => []TypeOK` |
| | `Aligned` | `Spec => []AlignedScan` |
| | `NoNilFrame` | `Spec => []PartialHasFrame` |
| | `ImplementsSduStream` | `Spec /\ Repeats = FALSE => StreamSpec` |
| DemuxRecoveryProofs | `LossIsLocal` | `Spec /\ Repeats = FALSE => []NothingElseLost` |
| | `ReportsGaps` | `Spec => GapReported` |
| | `SplicesBounded` | `Spec /\ Repeats = FALSE => []OneSplicePerGap` |
| DecoderProofs | `DecoderTypeCorrect` | `Spec => []TypeOK` |
| | `SymbolsInOrder` | `Spec => []StreamInv` |
| | `DecoderImplementsLink` | `Spec => LinkSpec` |
| | `DecoderResynchronises` | `Spec => []Resynchronises` |
| FilePathProofs | `FilePathTypes` | `Spec => []TypeOK` |
| | `UndisturbedReachApplication` | `Spec => []UndisturbedDelivered` |
| FileDeliveryProofs | `ImplementsFileDelivery` | `ASSUME Benign PROVE Spec /\ []Unwrapped => DeliverySpec` |
| | `FewImplementFileDelivery` | `ASSUME Benign, FewSDUs PROVE Spec => DeliverySpec` |
| FrameMemoryProofs | `FrameMemoryTypes` | `Spec => []TypeOK` |
| | `SpoiltOnlyInTheWayHolds` | `Spec => []SpoiltOnlyInTheWay` |
| PipelineProofs | `PipelineTypes` | `Spec => []TypeOK` |
| | `StartedIsWired` | `Spec => []Wired` |
| | `PanicNeedsClose` | `Spec => []SendPanicOnlyCaught` |
| | `CountsAreSinceReset` | `Spec => []CountsSinceReset` |
| | `OneSpectrumAtATime` | `Spec => []OneSpectrum` |
| | `SpectraPublishedInOrder` | `Spec => SpectraInOrder` |

**DemuxProofs.** The first three invariants are inductive only together and
with `BufferInv`: that the scan stands at a header depends on the pointer of
the frame (`FirstHeaderFacts`: it names the first header in the zone) and on
packets having no gap between them; that `lastVCDU` is set at the end of a scan
depends on `lastSDU` being empty while it runs. `Safe` is their conjunction and
`SafeInvariant` proves it, one lemma for arrivals (`SafeArrive`), one for the
loop (`SafeLoop`) and one for its end (`SafeEnd`).

For the refinement, in the same module, `OrderInv` adds the order: good SDUs lie before `Limit`,
the first octet the parser has not dealt with, and before the packet in
`lastSDU`. With it each step hands over only packets behind the earlier ones,
so the step maps to `HandOver` or to a stutter. Where frames may come twice this
is false, hence the hypothesis.

**DemuxRecoveryProofs.** `RecoveryInv` says what becomes of a packet none of
whose frames was lost so far: it has been handed over, or `lastSDU` holds
exactly its octets up to the next frame due. A frame that arrives extends it or
completes it (`PendingCompletes`); the loop hands over the packets that fit and
saves the last (`RecoverLoop`, `RecoverEnd`).

In the same module, that a gap is reported exactly when the counters show it is
arithmetic of remainders (`CounterDistance`) on top of `CounterInv`: `lastVCDU`
is an earlier frame, and its counter is the one that frame was sent with. That a
gap costs at most one bad SDU (while no frame is damaged)
needs `SpliceInv`: a buffer that holds a packet as far as frames came
(`Whole`) can only become a packet that was sent, so every bad SDU, and a buffer
that is `Spoilt`, is charged to a gap of its own, the one that spoilt the buffer.

**DecoderProofs.** `LoopInv` says how full `EncodedBytes` is at each place of
the loop. `StreamInv` looks at it and the channel as one line of symbols:
offsets ascend along it, and what is missing or spoilt belongs to frames
already counted as hurt. A search that moves the start of a block and a flush
in the middle of a fill both only take from that line. `OwnerInv` gives every
buffer one owner (the loop, the channel, or the transport layer): that is what
`clearBuffers` allocating a new one is for, and why a frame that is read late
is still the frame that was sent. `OrderInv` orders the buffers on their way
before the symbols that wait, so each read maps to a step of `SduStream`, the
link that `Demux` assumes.

`SyncInv`, in the same module, follows two undamaged frames in a row. Behind
one, a block that ends in the middle of the next was not corrected, so the
search after it is a whole one; behind two, no block begins in the middle any
more, and the third frame is on its way when the decoder has passed its end.
`~split` excludes the sync word that lies across the end of a block (section 4).

**LritFileProofs** has what both views of the file assembly need: the types of
the operations on files, that the fold `Octets` is the sum of the chunks'
lengths (`SumsExist`, `OctetsFacts`, `OctetsGrow`), that a file made of its
parts in order has the length it declares (`PiecesOctets`), and where in a
stream the parts of a file lie (`PlacesOf`, `Ascends`, `SentOnce`).

**FilePathProofs.** SDUs are named by their places in the stream, `Waiting` and
`Done`, and a place is safe while its file is not hurt. `DeliveryInv` has one
part for each way in which a neighbour could spoil a safe file:

* `WaitingInv`: all that waits is SDUs that were sent, and bad ones.
* `Ascending` and `DoneInOrder`: the raw counter, which is what the code sorts
  by, orders the SDUs around a safe one as they were sent, although it wraps.
* `BadApart`: no bad SDU comes up between two parts of a safe file. Here the
  definition of `Suffering` pays off: each of its disjuncts is needed.
* `SharedInv`: what is written over, or may hold octets of others, is counted as
  hurt; so an SDU of a safe file passes its CRC (`SafeApplied`), and a safe file's
  headers parse.
* `OpenInv`: between two parts, what the APID has open is the file as far as it
  came (`Partial`), whatever it had open before, and the counter check that
  the next part meets sees either nothing or its neighbour's counter.
* `DoneInv`: behind its last part the file is in a channel, in the session
  layer's hand, or received, and passes the session layer's checks.

The step lemmas say what one SDU does to its own file (`StillDone`,
`NextIsDue`, `OpenBehind`, `SentBehind`), to others of its APID (`OrderKept`,
`StillWaiting`) and to other APIDs (`OthersKeep`). That the session layer finds
the length the file declares needs the value of `Octets`, a fold. Induction
over data is out of the prover's reach, so `SumsExist` constructs the sums of
all subsets with the help of a least counterexample (`LeastOf`), and
`OctetsFacts` reads the fold off them.

**FileDeliveryProofs.** The refinement of `FileDelivery` needs what section 4
says of the run `file`. `Benign` is about the constants: first SDUs are not
among the `Losable`, there are no bad SDUs, every row decodes, and no row comes
with the headers of a flagged compressed image (it would be left packed).
`Unwrapped` is about the states: amid the SDUs of an APID that wait, the
counters ascend. `FewSDUs` says that no APID has more SDUs than the counter has
values (16384 in the code); then `Unwrapped` holds in every state
(`FewNeverWrap`), and the second theorem assumes nothing of a behaviour. Both
sets of hypotheses hold of the instance that `file` checks. Any other SDUs may
be lost, in any number. `PromiseInv` says:

* `ArrivalInv`: nothing bad is under way, and first SDUs come up in order. And
  (`Remembered`) a counter that is remembered is that of an SDU of the batch at
  hand, ahead of all that wait of its APID, and the open file, if there is one,
  has grown by just that SDU.
* `OpenIs`: while parts of a file whose first part is done are to come, its APID
  has that file open, or nothing. Hence (`OpenIsOwn`) no SDU is
  ever appended to a file that is not its own.
* `Grown`: a file that is open and not exposed consists of some of its own parts
  so far, in order, and of fill rows, not more between two parts, or behind the
  last, than parts are missing there; a text that lacks one has fewer octets than
  it should, for ever, so the session layer's comparison of lengths will refuse
  it. That takes two more facts about the fold `Octets`: one more chunk adds its
  length (`OctetsGrow`), and more parts have more octets (`OctetsAscend`).

  That filling keeps this (`GrownFill`) rests on the counters: from one part of a
  file to another they rise by no more than the part numbers (`CountersRise`).
  The remembered counter and the open file are of the same SDU (`Remembered`),
  the open file is that of the part that is due (`OpenIsOwn`), so no more rows
  are filled in than parts are missing (`FilledIsOwn`).
* `AheadOfRest` and `LineInv`: the files in the channels, in hand and received
  are one line, in the order in which they were sent, ahead of all to come.
* `GoodInv`: what the session layer will let pass, or has, is acceptable or
  exposed.

Reading a file then maps to `DeliverFile`, a frame whose files come to share its
buffer to `Expose` (their first SDUs are only then arriving, so none was handed
over), every other step to a stutter (`StepDelivers`).

**FrameMemoryProofs.** The types come first: `TypeInv` says where slices lie and
how long they are, and one lemma per operation (`AppendFacts`, `CutFacts`,
`ReappendedFacts`, `ClosedFacts`) says which octets it writes: behind the file,
and not beyond its frame.

`SpoiltOnlyInTheWay` is not inductive. It says that a file whose SDUs lie in
nobody's way is intact, but not that the octets of SDUs still to come are; and
what happens to those depends on files that are spoilt themselves, whose length
must be known nevertheless. `Inv` adds:

* `MemInv`: an octet of a frame differs from what was sent only if it is
  `Exposed`: it lies behind the headers of a file begun in its frame, and that
  file is compressed, or a packet of it that was processed ends behind the
  octet. That is the heart of it: a file whose rows do not grow never reaches
  past the packet it took in last, since the packets its octets came in take
  more room than the octets laid end to end (`Within`).
* `PendingInv`: what waits arrived with the last frame, and each APID's SDUs are
  processed in the order in which they were sent. So a packet of the same APID
  as the file that might reach it comes behind all that the file took in.
* `SliceInv`, for every file open or handed on: which parts came (`ValueAt`),
  where its slice begins, `Within` unless it is compressed, and `Intact` if it is
  `Calm`, which is what the property promises.
* `OpenInv`: an APID's open file waits for the very next part; and `ApartInv`: a
  file handed on was sent before the one its APID has open, so what is open
  writes behind what was delivered.

`InvKept` shows that a turn of `ProcessAllAPIDs` keeps all this, given what the
turn did to its own file; `Elsewhere` that it wrote over no calm file. What an
operation does to its own calm file is `JoinedIntact` and `SliceClosed`: the
octets behind the headers are cut off, decoded and appended over themselves, and
come out as `LritFile` says (`ValueJoin`). `Expected` and the positions of
packets are folds and joins, whose equations are shown to have exactly one
solution by a least counterexample, as above (`JoinsExist`).

**PipelineProofs** has an invariant per question, as the parts hardly depend on
each other. `CloseInv`: Close is under way only if the application asked
(`Destroy` never reaches slot 0), `Stopping` is set before the channel is
closed, and a symbol that was tested while `Stopping` is set now was overtaken.
`CounterInv`: during a reset it holds only of the maps emptied so far
(`MapsInv`), and a frame on its way to be counted is in the total one step
before it is in a map (`TotalInv`). `SpectrumInv`: a goroutine past its start
has set the flag; so a block that finds it unset, with none just starting,
finds no goroutine. `OrderInv` adds that what waits in the queue came after
what is worked on. `ChainInv`: registrations are at least as many as filled
slots, and if just as many, each slot was filled once and its layer after the
one below; `Start` needs as many filled slots as registrations.

Only model-checked: the five invariants of `HeaderPath` (`AcceptedIffUndamaged`,
`HeadersAsSent`, `PanicsOnlyIf`, `RefusedOnlyIf`, `ReadBack`), since it computes
the CRC with exclusive or on bits, which is recursive and out of the prover's
reach; and `SymbolsDrained`, `EventuallyDelivered` and `SpectraGoOn`: liveness under
fairness is out of the prover's reach.

## 6. Disagreements between code and text

Each has a run that TLC ends with a counterexample:

| run | the text | the code |
|---|---|---|
| `demux_repeat` | "Duplicate VCDU found!" (`assembler.go:180`) | cannot be reached: equal counters differ by 0, and the check is inside "differ by more than 1" |
| `file_wrap` | "Missing SDU!" (`assembler.go:46`) | said also when the counter wraps inside one frame, because the raw counter is the sort key; the file is then dropped or reordered |
| `file_decode` | "If decompression fails, just insert black lines" (`file.go:71`) | the compressed octets are appended |
| `memory_crc` | "CRC Mismatch" (`assembler.go:90`) | said of an SDU that arrived undamaged, because appending to a file begun ahead of it in the frame wrote over it; its file is dropped. In `FilePath` such an SDU is `spoilt` and its file not among the undisturbed |

The models show some more that no text denies. A file that lost SDUs between
two frames is closed and sent on as if it were whole, because `lastAppliedSDU`
lives for one frame; the session layer's comparison of lengths stops it.
`OpenNew` parses the secondary headers only if the *packet's*
`SecondaryHeaderFlag` is set, and `MakeSecondaryHeaders` refuses data that ends
where the headers end. (The comment at `packets.go:50` says of the flag that it
"does not seem to refer to the LRIT secondary headers"; `file.go:36` uses it as
if it did.) So a single-packet file without the flag, and a file of
two SDUs of which the first holds just the headers, are always dropped.
`Deliverable` names the files that are not, and `RefusedOnlyIf` says it once
more, octet by octet.

* The branch "file is an image, so we're attempting to continue" (`file.go:92`)
  is dead: `ProcessAllAPIDs` drops the file before `Append` sees the bad SDU.
* After "No packet lock" (`datalink.go:209`) `FrameLock` stays as it was; only a
  frame that was found and could not be corrected turns it off.
* `ContainsZipArchive` asserts the type of a NOAA header, and panics for a file
  that has none; the session layer asks it of every valid file.
* The check for enough data (`headers.go:170`) subtracts unsigned numbers and
  refuses only an exact match. A file whose first SDU ends amid the headers
  makes `getNextHeader` index past the data.
* `NewExistingFile` cuts the primary header off before that check, so it fails
  for a file whose body has exactly 16 octets.
* `Destroy` counts down to 1 and never destroys layer 0, the only one whose
  `Destroy` does anything. Were it otherwise, destroying a running pipeline
  could make the demodulator send on a closed channel, as calling `Close` can.
* A pipeline with a layer registered twice panics at `Start`.

## 7. Not modelled

* Signal processing, Viterbi, Reed-Solomon, correlation, Rice and ZIP: floating
  point or library code. Their outcomes (a frame is damaged, a row does not
  decode, an archive does not unpack) are nondeterministic choices.
* Configuration types and what `Register` reads from the configuration: plain
  data. File names beyond whether there is one.
* `ContinueOnCRCFailure` and `FillMissingSDUWithNull`, which no code reads.
* The decoder's averages for display, and that Reed-Solomon's output is longer
  than the buffer `clearBuffers` allocates once parity has been cut off
  (`datalink.go:112,273,293`): a library writes there behind Go's back. `LinkSpec`
  holds of the frames themselves, not of the memory behind them.
* The transport layer's map from VCID to assembler, and the ignored channel: its
  entries share nothing but the output channel, and `Demux` and `Assembler` are
  one entry.
* Images with `NumCols` or `NumRows` zero (a division by zero), packets of 65536
  octets, and a compressed image with a DCS filename header (whose `HeaderType`
  is wrong): the ground segment sends none. The hazards list them.
* Loss in `FrameMemory`: it is in `FilePath`, with what is written over for whole
  SDUs and files (section 3). Compressed rows in `HeaderPath`: they are in
  `FilePath` and `FrameMemory`.
* What the octets of a file that was written over are, beyond its length: in
  `FilePath` nothing is claimed of them.

## 8. Plan

Done, in this order: Demux and its abstract specification (the parser every
octet goes through), its proofs, then Assembler, Session and their
composition, then Decoder; then FrameMemory, Headers with CRC and the way to
disk, and Pipeline with Demodulator and Statistics and their proofs; then the
proofs about gaps, Decoder and FilePath, that FilePath implements
`FileDelivery`, last those about FrameMemory.

What could follow:

1. **Transport**: `Demux` and `Assembler` end to end, several VCIDs and the
   ignored channel, with `SduStream` as the seam; Decoder in front of them.
2. **HeaderPath** with the CRC as a constant that accepts what is undamaged, so
   that what does not depend on it can be proved.
3. **Decoder** with two faults in one run.
4. **FrameMemory** with losses, so that the argument by hand in section 3 becomes a
   proof that it implements what `Assembler` says of shared buffers.
