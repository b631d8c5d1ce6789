---------------------------- MODULE MC_EventLog ----------------------------
(***************************************************************************)
(* Logs for checking EventLog.  A log is written field by field, as the   *)
(* firmware writes it, and handed to the parser whole and cut at every    *)
(* field boundary and one byte short of every field end.  Digest and      *)
(* event payloads are zero bytes: the parser reads none of them except    *)
(* the UEFI variable lengths, which are written as fields.                *)
(***************************************************************************)
EXTENDS EventLog
LOCAL INSTANCE SequencesExt

\* n as k little-endian bytes.
RECURSIVE LE(_, _)
LE(n, k) == IF k = 0 THEN <<>> ELSE <<n % 256>> \o LE(n \div 256, k - 1)

Zeros(k) == [i \in 1..k |-> 0]

\* The SpecID event: a TCG_EVENT whose data is a TCG_SPECID_EVENT.
\* f overrides fields: pcr, type, digest byte, eventDataSize, algorithm count.
SpecIdWith(table, vendor, f) ==
    LET n   == Len(table)
        eds == IF "eds" \in DOMAIN f THEN f.eds
               ELSE SizeOfSpecIdEvent + SizeOfSpecIdAlg * n + SizeOfVendorInfo + vendor
    IN << LE(IF "pcr" \in DOMAIN f THEN f.pcr ELSE 0, 4),
          LE(IF "type" \in DOMAIN f THEN f.type ELSE 3, 4),
          <<IF "digest" \in DOMAIN f THEN f.digest ELSE 0>> \o Zeros(19),
          LE(eds, 4),
          Zeros(16),                       \* Signature
          LE(0, 4),                        \* platformClass
          <<0, 2, 0, 2>>,                  \* version, errata, uintnSize
          LE(IF "n" \in DOMAIN f THEN f.n ELSE n, 4) >>
       \o [i \in 1..n |-> LE(table[i], 2) \o LE(HashSize(table[i]), 2)]
       \o << LE(vendor, 1) >>
       \o (IF vendor > 0 THEN << Zeros(vendor) >> ELSE <<>>)

SpecId(table) == SpecIdWith(table, 0, [x \in {} |-> 0])

\* A TCG_EVENT2 record.  digests: <<alg, bytes written>> pairs; count:
\* the DigestCount written; esz: the EventSize written; body: its fields.
Event2Raw(type, count, digests, eszBytes, body) ==
    << LE(0, 4), type, LE(count, 4) >>
    \o FlattenSeq([i \in 1..Len(digests) |->
                     << LE(digests[i][1], 2), Zeros(digests[i][2]) >>])
    \o << eszBytes >> \o body
Event2(type, count, digests, esz, body) ==
    Event2Raw(type, count, digests, LE(esz, 4), body)

Sha1 == << <<TPM2_ALG_SHA1, 20>> >>

\* Record kinds.
Separator   == Event2(EV_SEPARATOR, 1, Sha1, 4, << Zeros(4) >>)
Variable(l, d, esz) ==
    Event2(EV_EFI_VARIABLE_BOOT, 1, Sha1, esz,
           << Zeros(16), LE(l, 8), LE(d, 8), Zeros(esz - SizeOfVariableData) >>)
VarGood     == Variable(2, 2, 38)                 \* 32 + 2*2 + 2 = 38
VarTooLong  == Variable(8, 0, 38)                 \* needs 48
VarShort    == Event2(EV_EFI_VARIABLE_BOOT, 1, Sha1, 16, << Zeros(16) >>)
PostShort   == Event2(EV_POST_CODE, 1, Sha1, 8, << Zeros(8) >>)
Image       == Event2(EV_EFI_BOOT_SERVICES_APPLICATION, 1, Sha1, 32, << Zeros(32) >>)
CountPlus   == Event2(EV_SEPARATOR, 2, Sha1, 4, << Zeros(4) >>)
UnknownAlg  == Event2(EV_SEPARATOR, 1, << <<153, 20>> >>, 4, << Zeros(4) >>)
HugeSize    == Event2Raw(EV_SEPARATOR, 1, Sha1, <<255, 255, 255, 255>>, << Zeros(4) >>)
TwoDigests  == Event2(EV_SEPARATOR, 2, << <<TPM2_ALG_SHA1, 20>>, <<TPM2_ALG_SHA256, 32>> >>,
                      4, << Zeros(4) >>)

Singles == <<Separator, VarGood, VarTooLong, VarShort, PostShort, Image,
             CountPlus, UnknownAlg, HugeSize, TwoDigests>>
Pairables == <<Separator, VarGood, CountPlus, UnknownAlg>>

\* Corrupted SpecID events.
BadSpecIds ==
    << SpecIdWith(<<TPM2_ALG_SHA1>>, 2, [x \in {} |-> 0]),
      SpecIdWith(<<TPM2_ALG_SHA1>>, 0, [type |-> 4]),
      SpecIdWith(<<TPM2_ALG_SHA1>>, 0, [pcr |-> 1]),
      SpecIdWith(<<TPM2_ALG_SHA1>>, 0, [digest |-> 7]),
      SpecIdWith(<<TPM2_ALG_SHA1>>, 0, [eds |-> 27]),
      SpecIdWith(<<TPM2_ALG_SHA1>>, 0, [eds |-> 200]),
      SpecIdWith(<<TPM2_ALG_SHA1>>, 0, [n |-> 0]),
      SpecIdWith(<<TPM2_ALG_SHA1>>, 0, [n |-> 1000]) >>

\* Field start offsets and one byte short of each field end, and the total.
RECURSIVE CutsFrom(_, _)
CutsFrom(fields, off) ==
    IF fields = <<>> THEN {off}
    ELSE LET e == off + Len(Head(fields))
         IN {off, e - 1} \cup CutsFrom(Tail(fields), e)

\* The SpecID event followed by each sequence of records in recs.
WithRecords(recs) == [i \in DOMAIN recs |-> SpecId(<<TPM2_ALG_SHA1>>) \o recs[i]]

\* All pairs of the records of s, as a sequence.
PairsOf(s) == [i \in 1..(Len(s) * Len(s)) |->
                 s[(i - 1) \div Len(s) + 1] \o s[((i - 1) % Len(s)) + 1]]

\* Scenario S4: SHA-1 and SHA-256 in the SpecID event, three EV_SEPARATOR
\* records and an EV_EFI_VARIABLE_DRIVER_CONFIG record with a 24-byte name
\* and 8 bytes of data, every record carrying both digests.
Both == << <<TPM2_ALG_SHA1, 20>>, <<TPM2_ALG_SHA256, 32>> >>
S4Separator == Event2(EV_SEPARATOR, 2, Both, 4, << Zeros(4) >>)
S4Variable  == Event2(EV_EFI_VARIABLE_DRIVER_CONFIG, 2, Both, 64,
                      << Zeros(16), LE(12, 8), LE(8, 8), Zeros(32) >>)
S4Log == SpecId(<<TPM2_ALG_SHA1, TPM2_ALG_SHA256>>)
           \o S4Separator \o S4Separator \o S4Separator \o S4Variable

SafetyLayouts ==
    BadSpecIds \o WithRecords(<< <<>> >> \o Singles \o PairsOf(Pairables))
    \o << S4Log >>

LogsOf(L) == [i \in DOMAIN L |-> FlattenSeq(L[i])]
CutsOf(L) == [i \in DOMAIN L |-> CutsFrom(L[i], 0)]

MCLogs == LogsOf(SafetyLayouts)
MCCuts == CutsOf(SafetyLayouts)
MCVisitors == {"specid", "hdr", "digest", "event"}
MCSizeBits == 20

ASSUME \A i \in DOMAIN MCLogs : Len(MCLogs[i]) < 2^(MCSizeBits - 2)

\* Logs for the runs that check what the spec says against the code.
TruncationLayouts == << S4Log >>
UnlistedAlgLayouts == WithRecords(<< TwoDigests, UnknownAlg >>)
\* UnicodeNameLength 2^(SizeBits-1) stands for 2^63: twice it wraps to 0.
VarWrapLayouts == WithRecords(<< Variable(2^(MCSizeBits - 1), 6, 38) >>)

TruncLogs == LogsOf(TruncationLayouts)
TruncCuts == CutsOf(TruncationLayouts)
UnlistedLogs == LogsOf(UnlistedAlgLayouts)
UnlistedCuts == CutsOf(UnlistedAlgLayouts)
VarWrapLogs == LogsOf(VarWrapLayouts)
VarWrapCuts == CutsOf(VarWrapLayouts)
\* Both logs the specification's record checks reject.
MalformedLogs == LogsOf(UnlistedAlgLayouts \o VarWrapLayouts)
MalformedCuts == CutsOf(UnlistedAlgLayouts \o VarWrapLayouts)
====
