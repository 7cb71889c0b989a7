-------------------------------- MODULE Crc --------------------------------
(***************************************************************************)
(* The CRC behind every SDU: CalcCRCBuffer, which goes through a table of  *)
(* 256 words, and the polynomial division it stands for, which the ground  *)
(* segment is taken to do.                                                 *)
(***************************************************************************)
EXTENDS Integers, Sequences, Bitwise

Octet == 0..255

(* Entry i is at position i + 1. *)
crcTable ==
    << \H0000, \H1021, \H2042, \H3063, \H4084, \H50A5, \H60C6, \H70E7, \H8108, \H9129, \HA14A,
      \HB16B, \HC18C, \HD1AD, \HE1CE, \HF1EF, \H1231, \H0210, \H3273, \H2252, \H52B5, \H4294,
      \H72F7, \H62D6, \H9339, \H8318, \HB37B, \HA35A, \HD3BD, \HC39C, \HF3FF, \HE3DE, \H2462,
      \H3443, \H0420, \H1401, \H64E6, \H74C7, \H44A4, \H5485, \HA56A, \HB54B, \H8528, \H9509,
      \HE5EE, \HF5CF, \HC5AC, \HD58D, \H3653, \H2672, \H1611, \H0630, \H76D7, \H66F6, \H5695,
      \H46B4, \HB75B, \HA77A, \H9719, \H8738, \HF7DF, \HE7FE, \HD79D, \HC7BC, \H48C4, \H58E5,
      \H6886, \H78A7, \H0840, \H1861, \H2802, \H3823, \HC9CC, \HD9ED, \HE98E, \HF9AF, \H8948,
      \H9969, \HA90A, \HB92B, \H5AF5, \H4AD4, \H7AB7, \H6A96, \H1A71, \H0A50, \H3A33, \H2A12,
      \HDBFD, \HCBDC, \HFBBF, \HEB9E, \H9B79, \H8B58, \HBB3B, \HAB1A, \H6CA6, \H7C87, \H4CE4,
      \H5CC5, \H2C22, \H3C03, \H0C60, \H1C41, \HEDAE, \HFD8F, \HCDEC, \HDDCD, \HAD2A, \HBD0B,
      \H8D68, \H9D49, \H7E97, \H6EB6, \H5ED5, \H4EF4, \H3E13, \H2E32, \H1E51, \H0E70, \HFF9F,
      \HEFBE, \HDFDD, \HCFFC, \HBF1B, \HAF3A, \H9F59, \H8F78, \H9188, \H81A9, \HB1CA, \HA1EB,
      \HD10C, \HC12D, \HF14E, \HE16F, \H1080, \H00A1, \H30C2, \H20E3, \H5004, \H4025, \H7046,
      \H6067, \H83B9, \H9398, \HA3FB, \HB3DA, \HC33D, \HD31C, \HE37F, \HF35E, \H02B1, \H1290,
      \H22F3, \H32D2, \H4235, \H5214, \H6277, \H7256, \HB5EA, \HA5CB, \H95A8, \H8589, \HF56E,
      \HE54F, \HD52C, \HC50D, \H34E2, \H24C3, \H14A0, \H0481, \H7466, \H6447, \H5424, \H4405,
      \HA7DB, \HB7FA, \H8799, \H97B8, \HE75F, \HF77E, \HC71D, \HD73C, \H26D3, \H36F2, \H0691,
      \H16B0, \H6657, \H7676, \H4615, \H5634, \HD94C, \HC96D, \HF90E, \HE92F, \H99C8, \H89E9,
      \HB98A, \HA9AB, \H5844, \H4865, \H7806, \H6827, \H18C0, \H08E1, \H3882, \H28A3, \HCB7D,
      \HDB5C, \HEB3F, \HFB1E, \H8BF9, \H9BD8, \HABBB, \HBB9A, \H4A75, \H5A54, \H6A37, \H7A16,
      \H0AF1, \H1AD0, \H2AB3, \H3A92, \HFD2E, \HED0F, \HDD6C, \HCD4D, \HBDAA, \HAD8B, \H9DE8,
      \H8DC9, \H7C26, \H6C07, \H5C64, \H4C45, \H3CA2, \H2C83, \H1CE0, \H0CC1, \HEF1F, \HFF3E,
      \HCF5D, \HDF7C, \HAF9B, \HBFBA, \H8FD9, \H9FF8, \H6E17, \H7E36, \H4E55, \H5E74, \H2E93,
      \H3EB2, \H0ED1, \H1EF0 >>

(* crc << 8, as a uint16. *)
Shifted(crc) == (crc * 256) % 65536

(* The register after all octets of data: after the first half of them and  *)
(* then the second, which TLC evaluates without recursing over every octet. *)
Through(Step(_, _), data) ==
    LET crc[r \in 0..65535, from \in 1..Len(data) + 1, n \in 0..Len(data)] ==
            IF n = 0 THEN r
            ELSE IF n = 1 THEN Step(r, data[from])
            ELSE crc[crc[r, from, n \div 2], from + n \div 2, n - n \div 2]
    IN crc[65535, 1, Len(data)]

TableStep(crc, octet) == Shifted(crc) ^^ crcTable[((crc \div 256) ^^ octet) + 1]

(* Mutant: the last octet is left out. *)
CalcCRCBufferShort(data) == Through(TableStep, SubSeq(data, 1, Len(data) - 1))

CalcCRCBuffer(data) == Through(TableStep, data)

(* Division by x^16 + x^12 + x^5 + 1, bit by bit, from all ones. *)
DivideStep(r, octet) ==
    LET bit[i \in 0..8] ==
            IF i = 0 THEN r ^^ (256 * octet)
            ELSE LET b == bit[i - 1] IN IF b >= 32768 THEN ((2 * b) % 65536) ^^ 4129 ELSE 2 * b
    IN bit[8]
Divide(data) == Through(DivideStep, data)

(* An SDU as it is sent: its data and the CRC, high octet first. *)
WithCRC(data) == LET r == Divide(data) IN data \o <<r \div 256, r % 256>>

(* The CRC at the end of an SDU against that of the octets ahead of it. *)
CRCMatches(sdu) ==
    LET n == Len(sdu) IN
    CalcCRCBuffer(SubSeq(sdu, 1, n - 2)) = 256 * sdu[n - 1] + sdu[n]

(* A burst of errors in three octets from octet o on: 16 adjacent bits at   *)
(* most, where the bits of pattern p, shifted by s, are inverted.           *)
Inverted(sdu, o, p, s) ==
    LET mask == <<(p * 2^s) \div 65536, ((p * 2^s) \div 256) % 256, (p * 2^s) % 256>>
    IN [i \in DOMAIN sdu |-> IF i \in o .. o + 2 THEN sdu[i] ^^ mask[i - o + 1] ELSE sdu[i]]
=============================================================================
