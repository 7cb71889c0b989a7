---------------------------- MODULE MCHeaderPath ----------------------------
(***************************************************************************)
(* Small instances of HeaderPath: every kind of header, bodies of a few    *)
(* octets, and SDUs that end before, amid and behind the headers.          *)
(***************************************************************************)
EXTENDS HeaderPath, FiniteSets

Header(type, fields) == [Type |-> type, Length |-> Len(fields) + 3, fields |-> fields]
Longer(h) == [h EXCEPT !.Length = @ + 2]
Zeros(n) == [i \in 1..n |-> 0]

(* Agency, product, sub-product and parameter, and the compression. *)
NOAA(product, compression) == Header(NOAASpecific, Zeros(4) \o <<0, product>> \o Zeros(4) \o <<compression>>)
Structure == Header(ImageStructure, <<8, 0, 4, 0, 2, 0>>)
Name == Header(Annotation, <<97>> \o DotLrit)
Segment == Header(SegmentIdentification, Zeros(14))
DCS == Header(DCSFilename, <<97, 98>>)
Others == <<Header(3, <<7>>), Header(6, <<8>>), Longer(Header(5, Zeros(7))), Header(7, << >>),
            Header(130, <<9>>), Header(RiceCompression, Zeros(4)), Header(2, Zeros(48))>>

Text == <<Name, NOAA(1, 0)>>
Archive == <<NOAA(1, 10), Name>>
Kinds == { <<2, Text>>, <<2, Archive>>, <<2, <<Name, DCS>> >>, <<2, <<NOAA(1, 0), DCS>> >>,
           <<0, <<Structure, Segment, NOAA(16, 0)>> >>, <<0, <<Structure, NOAA(17, 0), Name>> >>,
           <<0, <<Structure>> \o Others \o Text>> }

Uncut(kind, body, flagged, zip) ==
    [fileType |-> kind[1], headers |-> kind[2], body |-> body, flagged |-> flagged, zip |-> zip,
     cuts |-> <<1>>]

(* In one SDU, or in two or three of which the first ends in various places. *)
Cuts(f) ==
    LET all == Len(Sent(f)) h == AllHeaderLength(f)
        firsts == {n \in {12, PrimaryLen, PrimaryLen + 2, PrimaryLen + 8, h - 1, h, h + 1} : n < all}
    IN {<<all>>} \cup {<<n, all - n>> : n \in firsts}
       \cup {<<n, 1, all - n - 1>> : n \in {n \in firsts : n + 1 < all}}

MCFiles ==
    UNION {{[f EXCEPT !.cuts = c] : c \in Cuts(f)} :
        f \in {Uncut(k, b, flagged, "sound") : k \in Kinds, b \in {0, 2, 16}, flagged \in BOOLEAN}
              \cup {Uncut(<<2, Archive>>, 2, TRUE, "broken")}}

MCFragile ==
    {f \in MCFiles : f.headers = Text /\ f.body = 2 /\ f.flagged /\ f.zip = "sound" /\ Parts(f) < 3
                     /\ f.cuts[1] \in {PrimaryLen + 8, Len(Sent(f))}}

(* Bursts of 1, 13 and 16 bits at every place. *)
MCBursts == (1..60) \X {1, 4129, 65535} \X (0..7)
=============================================================================
