------------------------------ MODULE EventLog ------------------------------
(***************************************************************************)
(* The TCG crypto-agile event-log parser of src/lib/tpm2_eventlog.c:      *)
(* parse_eventlog -> specid_event -> specid_cb -> foreach_event2, which    *)
(* for every record runs parse_event2 (with foreach_digest2 and the        *)
(* accumulator callback), the header callback, a second foreach_digest2    *)
(* with the digest callback, parse_event2body and the event callback.      *)
(*                                                                         *)
(* The log is a sequence of bytes and every field is read little-endian    *)
(* from the bytes, exactly where the code dereferences it, so a corrupted  *)
(* count or size makes later reads land where the code's would.  The       *)
(* parser sees only the first len bytes (a truncation of the log).         *)
(* size_t has SizeBits bits; it wraps (mod 2^SizeBits) exactly where a     *)
(* 64-bit size_t can wrap: a sum of UINT64 fields and a size_t             *)
(* subtraction.  UINT32 fields are exact up to U32Cap, and every UINT32 at *)
(* or above it is the same to the code (larger than any buffer).           *)
(* The visitors are external: each call returns TRUE or FALSE.            *)
(***************************************************************************)
EXTENDS Integers, Sequences, FiniteSets

CONSTANTS
    Logs,       \* a tuple of candidate logs, each a sequence of bytes
    Cuts,       \* Cuts[i]: the lengths at which log i is handed to the parser
    Visitors,   \* the callbacks the caller passes non-NULL
    SizeBits    \* width of size_t in the model

ASSUME SizeBits \in 8..24
ASSUME Visitors \subseteq {"specid", "hdr", "digest", "event"}

SizeMod == 2^SizeBits
U32Cap  == 2^(SizeBits - 1)

\* size_t subtraction: a - b modulo 2^SizeBits.
SizeSub(a, b) == (a - b) % SizeMod

\* Packed structure sizes and field offsets of src/lib/efi_event.h.
SizeOfDigest2      == 2    \* TCG_DIGEST2 header (AlgorithmId)
SizeOfEvent2       == 4    \* TCG_EVENT2 header (EventSize)
SizeOfEventHeader2 == 12   \* PCRIndex, EventType, DigestCount
SizeOfTcgEvent     == 32   \* pcrIndex, eventType, digest[20], eventDataSize
SizeOfSpecIdEvent  == 28   \* Signature .. numberOfAlgorithms
SizeOfSpecIdAlg    == 4
SizeOfVendorInfo   == 1
SizeOfVariableData == 32   \* VariableName, UnicodeNameLength, VariableDataLength
SizeOfFirmwareBlob == 16
SizeOfImageLoad    == 32
SizeOfChar16       == 2

\* An event type is the 4 bytes of its UINT32, least significant first.
EvType(n)  == <<n, 0, 0, 0>>
EfiType(n) == <<n, 0, 0, 128>>     \* EV_EFI_EVENT_BASE + n, n < 256
EV_POST_CODE                     == EvType(1)
EV_NO_ACTION                     == EvType(3)
EV_SEPARATOR                     == EvType(4)
EV_S_CRTM_CONTENTS               == EvType(7)
EV_EFI_VARIABLE_DRIVER_CONFIG    == EfiType(1)
EV_EFI_VARIABLE_BOOT             == EfiType(2)
EV_EFI_BOOT_SERVICES_APPLICATION == EfiType(3)
EV_EFI_BOOT_SERVICES_DRIVER      == EfiType(4)
EV_EFI_RUNTIME_SERVICES_DRIVER   == EfiType(5)
EV_EFI_PLATFORM_FIRMWARE_BLOB    == EfiType(8)
EV_EFI_VARIABLE_AUTHORITY        == EfiType(224)

VariableTypes == {EV_EFI_VARIABLE_DRIVER_CONFIG, EV_EFI_VARIABLE_BOOT,
                  EV_EFI_VARIABLE_AUTHORITY}
BlobTypes     == {EV_POST_CODE, EV_S_CRTM_CONTENTS, EV_EFI_PLATFORM_FIRMWARE_BLOB}
ImageTypes    == {EV_EFI_BOOT_SERVICES_APPLICATION, EV_EFI_BOOT_SERVICES_DRIVER,
                  EV_EFI_RUNTIME_SERVICES_DRIVER}

\* tpm2_alg_util_get_hash_size: digest size of a TPM2_ALG_ID, 0 if unknown.
TPM2_ALG_SHA1    == 4
TPM2_ALG_SHA256  == 11
TPM2_ALG_SHA384  == 12
TPM2_ALG_SHA512  == 13
TPM2_ALG_SM3_256 == 18
HashSize(alg) ==
    CASE alg = TPM2_ALG_SHA1    -> 20
      [] alg = TPM2_ALG_SHA256  -> 32
      [] alg = TPM2_ALG_SHA384  -> 48
      [] alg = TPM2_ALG_SHA512  -> 64
      [] alg = TPM2_ALG_SM3_256 -> 32
      [] OTHER                  -> 0

VARIABLES
    logId,       \* which log of Logs
    len,         \* the size argument of parse_eventlog
    pc,          \* the code location of the single parsing thread
    size,        \* foreach_event2: bytes left from hdr on
    hdr,         \* foreach_event2: offset of eventhdr
    eventSize,   \* parse_event2: *event_size
    digestsSize, \* foreach_event2: digests_size
    dCount,      \* foreach_digest2: count
    dIdx,        \* foreach_digest2: i
    dSize,       \* foreach_digest2: size
    dPtr,        \* foreach_digest2: offset of digest
    dPass,       \* which foreach_digest2 call runs: accumulator or visitor
    result,      \* the value parse_eventlog returns
    reads,       \* ghost: the <<offset, width>> fields the last step read
    visits       \* ghost: the visitor calls so far, with the bytes handed over

vars == <<logId, len, pc, size, hdr, eventSize, digestsSize, dCount, dIdx,
          dSize, dPtr, dPass, result, reads, visits>>

Buf == Logs[logId]

\* The byte at offset o; memory past the log is read as zero.
Byte(o) == IF o < Len(Buf) THEN Buf[o + 1] ELSE 0

\* An unsigned little-endian field of k bytes at o, capped at cap.
RECURSIVE ReadCapped(_, _, _)
ReadCapped(o, k, cap) ==
    IF k = 0 THEN 0
    ELSE LET v == Byte(o) + 256 * ReadCapped(o + 1, k - 1, cap)
         IN IF v < cap THEN v ELSE cap

\* An unsigned little-endian field of k bytes at o, modulo 2^SizeBits.
RECURSIVE ReadMod(_, _)
ReadMod(o, k) ==
    IF k = 0 THEN 0 ELSE (Byte(o) + 256 * ReadMod(o + 1, k - 1)) % SizeMod

ReadU8(o)  == Byte(o)
ReadU16(o) == Byte(o) + 256 * Byte(o + 1)
ReadU32(o) == ReadCapped(o, 4, U32Cap)
ReadU64(o) == ReadMod(o, 8)
ReadBytes(o, k) == [i \in 1..k |-> Byte(o + i - 1)]

Visit(cb, lo, hi, tag) == [cb |-> cb, lo |-> lo, hi |-> hi, tag |-> tag]

Return(r) == /\ pc' = "done"
             /\ result' = r

digestVars == <<dCount, dIdx, dSize, dPtr, dPass>>

\* The TCG_EVENT2 of the current record: eventhdr->Digests + digests_size.
EventPtr == hdr + SizeOfEventHeader2 + digestsSize

Init ==
    /\ logId \in DOMAIN Logs
    /\ len \in Cuts[logId]
    /\ pc = "specid"
    /\ size = len
    /\ hdr = 0
    /\ eventSize = 0
    /\ digestsSize = 0
    /\ dCount = 0
    /\ dIdx = 0
    /\ dSize = 0
    /\ dPtr = 0
    /\ dPass = "acc"
    /\ result = FALSE
    /\ reads = {}
    /\ visits = <<>>

(***************************************************************************)
(* specid_event and the size update that follows it in parse_eventlog.    *)
(* The checks run in the code's order, and a failing check returns false  *)
(* having read only the fields the checks before it needed.               *)
(***************************************************************************)
SpecIdEvent ==
    LET eds      == ReadU32(28)                          \* eventDataSize
        nAlg     == ReadU32(SizeOfTcgEvent + 24)         \* numberOfAlgorithms
        algsEnd  == SizeOfTcgEvent + SizeOfSpecIdEvent + SizeOfSpecIdAlg * nAlg
        vendSize == ReadU8(algsEnd)                      \* vendorInfoSize
        next     == algsEnd + SizeOfVendorInfo + vendSize
        hdrReads == {<<4, 4>>, <<0, 4>>, <<8, 20>>, <<28, 4>>}
        algReads == hdrReads \cup {<<SizeOfTcgEvent + 24, 4>>}
        Fail(r)  == /\ reads' = r
                    /\ Return(FALSE)
                    /\ UNCHANGED <<size, hdr>>
    IN /\ pc = "specid"
       /\ CASE size < SizeOfTcgEvent                -> Fail({})
            [] ReadBytes(4, 4) # EV_NO_ACTION       -> Fail({<<4, 4>>})
            [] ReadU32(0) # 0                       -> Fail({<<4, 4>>, <<0, 4>>})
            [] ReadBytes(8, 20) # [i \in 1..20 |-> 0]
                                                   -> Fail(hdrReads \ {<<28, 4>>})
            [] eds < SizeOfSpecIdEvent              -> Fail(hdrReads)
            [] size < SizeOfTcgEvent + eds          -> Fail(hdrReads)
            [] nAlg = 0                             -> Fail(algReads)
            [] size < algsEnd                       -> Fail(algReads)
            [] size < algsEnd + SizeOfVendorInfo    -> Fail(algReads)
            [] size < next                  -> Fail(algReads \cup {<<algsEnd, 1>>})
            [] OTHER -> /\ reads' = algReads \cup {<<algsEnd, 1>>}
                        /\ size' = SizeSub(size, next)
                        /\ hdr' = next
                        /\ pc' = "specid_cb"
                        /\ UNCHANGED result
       /\ UNCHANGED <<logId, len, eventSize, digestsSize, visits>>
       /\ UNCHANGED digestVars

\* parse_eventlog: the SpecID visitor, handed the TCG_EVENT and its data.
SpecIdCallback ==
    /\ pc = "specid_cb"
    /\ reads' = {}
    /\ IF "specid" \in Visitors
         THEN \E ok \in BOOLEAN :
                /\ visits' = Append(visits,
                                    Visit("specid", 0, SizeOfTcgEvent + ReadU32(28), <<>>))
                /\ IF ok THEN pc' = "loop" /\ UNCHANGED result ELSE Return(FALSE)
         ELSE pc' = "loop" /\ UNCHANGED <<visits, result>>
    /\ UNCHANGED <<logId, len, size, hdr, eventSize, digestsSize>>
    /\ UNCHANGED digestVars

\* Mutant: trailing bytes shorter than a header taken for the end of the log.
LogExhaustedPadding == size < SizeOfEventHeader2

\* foreach_event2: the size == 0 test and the loop condition size > 0.
LogExhausted == size = 0

Event2Loop ==
    /\ pc = "loop"
    /\ reads' = {}
    /\ IF LogExhausted THEN Return(TRUE) ELSE pc' = "event2" /\ UNCHANGED result
    /\ UNCHANGED <<logId, len, size, hdr, eventSize, digestsSize, visits>>
    /\ UNCHANGED digestVars

\* parse_event2 up to its foreach_digest2 call with the accumulator,
\* after foreach_event2 has zeroed digests_size.
ParseEvent2Header ==
    /\ pc = "event2"
    /\ \/ /\ size < SizeOfEventHeader2
          /\ reads' = {}
          /\ Return(FALSE)
          /\ UNCHANGED <<eventSize, digestsSize, digestVars>>
       \/ /\ size >= SizeOfEventHeader2
          /\ eventSize' = SizeOfEventHeader2
          /\ digestsSize' = 0
          /\ dCount' = ReadU32(hdr + 8)
          /\ reads' = {<<hdr + 8, 4>>}
          /\ dIdx' = 0
          /\ dSize' = SizeSub(size, SizeOfEventHeader2)
          /\ dPtr' = hdr + SizeOfEventHeader2
          /\ dPass' = "acc"
          /\ pc' = "digest"
          /\ UNCHANGED result
    /\ UNCHANGED <<logId, len, size, hdr, visits>>

(***************************************************************************)
(* One iteration of the loop of foreach_digest2.  In the accumulator pass  *)
(* the callback adds sizeof(TCG_DIGEST2) + alg_size to digests_size; in    *)
(* the visitor pass it is the caller's digest callback, and false breaks   *)
(* the loop and makes foreach_event2 return false.                         *)
(***************************************************************************)
DigestAlgSize == HashSize(ReadU16(dPtr))

\* Mutant: the loop bound written i <= count.
DigestLoopInclusive == dIdx <= dCount

\* The loop condition i < count of foreach_digest2.
DigestLoopContinues == dIdx < dCount

NextDigest == /\ dSize' = SizeSub(dSize, SizeOfDigest2 + DigestAlgSize)
              /\ dPtr' = dPtr + SizeOfDigest2 + DigestAlgSize
              /\ dIdx' = dIdx + 1

DigestHeaderShort ==
    /\ pc = "digest"
    /\ DigestLoopContinues
    /\ dSize < SizeOfDigest2
    /\ reads' = {}
    /\ Return(FALSE)
    /\ UNCHANGED <<logId, len, size, hdr, eventSize, digestsSize, visits>>
    /\ UNCHANGED digestVars

DigestBufferShort ==
    /\ pc = "digest"
    /\ DigestLoopContinues
    /\ dSize >= SizeOfDigest2
    /\ dSize < SizeOfDigest2 + DigestAlgSize
    /\ reads' = {<<dPtr, 2>>}
    /\ Return(FALSE)
    /\ UNCHANGED <<logId, len, size, hdr, eventSize, digestsSize, visits>>
    /\ UNCHANGED digestVars

DigestAccumulate ==
    /\ pc = "digest"
    /\ dPass = "acc"
    /\ DigestLoopContinues
    /\ dSize >= SizeOfDigest2 + DigestAlgSize
    /\ reads' = {<<dPtr, 2>>}
    /\ digestsSize' = digestsSize + SizeOfDigest2 + DigestAlgSize
    /\ NextDigest
    /\ UNCHANGED <<logId, len, pc, size, hdr, eventSize, dCount, dPass,
                   result, visits>>

DigestVisit ==
    /\ pc = "digest"
    /\ dPass = "visit"
    /\ DigestLoopContinues
    /\ dSize >= SizeOfDigest2 + DigestAlgSize
    /\ reads' = {<<dPtr, 2>>}
    /\ visits' = Append(visits, Visit("digest", dPtr,
                                      dPtr + SizeOfDigest2 + DigestAlgSize,
                                      ReadU16(dPtr)))
    /\ \E ok \in BOOLEAN :
         IF ok THEN NextDigest /\ UNCHANGED <<pc, result>>
               ELSE Return(FALSE) /\ UNCHANGED <<dSize, dPtr, dIdx>>
    /\ UNCHANGED <<logId, len, size, hdr, eventSize, digestsSize, dCount, dPass>>

\* foreach_digest2 returns true after count iterations.
DigestsDone ==
    /\ pc = "digest"
    /\ ~DigestLoopContinues
    /\ reads' = {}
    /\ pc' = IF dPass = "acc" THEN "eventsize" ELSE "body"
    /\ UNCHANGED <<logId, len, size, hdr, eventSize, digestsSize, result, visits>>
    /\ UNCHANGED digestVars

\* Mutant: the EventSize field read without checking room for it.
EventSizeFieldUnchecked(es) == TRUE

\* parse_event2: buf_size must hold the record up to its EventSize field.
EventSizeFieldFits(es) == size >= es + SizeOfEvent2

\* Mutant: the event data check one byte short.
EventDataFitsOffByOne(es, esz) == size + 1 >= es + SizeOfEvent2 + esz

\* parse_event2: buf_size must hold the event data too.
EventDataFits(es, esz) == size >= es + SizeOfEvent2 + esz

\* parse_event2 after the digests: room for EventSize, then for the event.
ParseEvent2Size ==
    LET es  == eventSize + digestsSize
        esz == ReadU32(hdr + es)
    IN /\ pc = "eventsize"
       /\ \/ /\ ~EventSizeFieldFits(es)
             /\ reads' = {}
             /\ Return(FALSE)
             /\ UNCHANGED eventSize
          \/ /\ EventSizeFieldFits(es)
             /\ reads' = {<<hdr + es, 4>>}
             /\ \/ /\ ~EventDataFits(es, esz)
                   /\ Return(FALSE)
                   /\ UNCHANGED eventSize
                \/ /\ EventDataFits(es, esz)
                   /\ eventSize' = es + SizeOfEvent2 + esz
                   /\ pc' = "hdr_cb"
                   /\ UNCHANGED result
       /\ UNCHANGED <<logId, len, size, hdr, digestsSize, visits>>
       /\ UNCHANGED digestVars

\* foreach_event2: the header visitor, handed the record and event_size.
HeaderCallback ==
    /\ pc = "hdr_cb"
    /\ reads' = {}
    /\ IF "hdr" \in Visitors
         THEN \E ok \in BOOLEAN :
                /\ visits' = Append(visits, Visit("hdr", hdr, hdr + eventSize, <<>>))
                /\ IF ok THEN pc' = "digest_cb" /\ UNCHANGED result ELSE Return(FALSE)
         ELSE pc' = "digest_cb" /\ UNCHANGED <<visits, result>>
    /\ UNCHANGED <<logId, len, size, hdr, eventSize, digestsSize>>
    /\ UNCHANGED digestVars

\* foreach_event2: the second foreach_digest2, over digests_size bytes,
\* which reads DigestCount again.
DigestCallbacks ==
    /\ pc = "digest_cb"
    /\ IF "digest" \in Visitors
         THEN /\ dCount' = ReadU32(hdr + 8)
              /\ reads' = {<<hdr + 8, 4>>}
              /\ dIdx' = 0
              /\ dSize' = digestsSize
              /\ dPtr' = hdr + SizeOfEventHeader2
              /\ dPass' = "visit"
              /\ pc' = "digest"
         ELSE /\ reads' = {}
              /\ pc' = "body"
              /\ UNCHANGED digestVars
    /\ UNCHANGED <<logId, len, size, hdr, eventSize, digestsSize, result, visits>>

(***************************************************************************)
(* parse_event2body, called by foreach_event2 with eventhdr->EventType.    *)
(* For UEFI variable events the required size is a size_t sum of two      *)
(* UINT64 fields and wraps.                                                *)
(***************************************************************************)
VariableDataNeeded(ev) ==
    (SizeOfVariableData + ReadU64(ev + 4 + 16) * SizeOfChar16
       + ReadU64(ev + 4 + 24)) % SizeMod

Event2BodyOk(type, ev) ==
    LET esz == ReadU32(ev)
    IN CASE type \in VariableTypes ->
              esz >= SizeOfVariableData /\ esz >= VariableDataNeeded(ev)
         [] type \in BlobTypes  -> esz >= SizeOfFirmwareBlob
         [] type \in ImageTypes -> esz >= SizeOfImageLoad
         [] OTHER -> TRUE

Event2BodyReads(type, ev) ==
    {<<hdr + 4, 4>>}
    \cup (IF type \in VariableTypes \cup BlobTypes \cup ImageTypes
            THEN {<<ev, 4>>} ELSE {})
    \cup (IF type \in VariableTypes /\ ReadU32(ev) >= SizeOfVariableData
            THEN {<<ev + 4 + 16, 8>>, <<ev + 4 + 24, 8>>} ELSE {})

ParseEvent2Body ==
    LET type == ReadBytes(hdr + 4, 4)
    IN /\ pc = "body"
       /\ reads' = Event2BodyReads(type, EventPtr)
       /\ IF Event2BodyOk(type, EventPtr)
            THEN pc' = "event_cb" /\ UNCHANGED result
            ELSE Return(FALSE)
       /\ UNCHANGED <<logId, len, size, hdr, eventSize, digestsSize, visits>>
       /\ UNCHANGED digestVars

\* foreach_event2: the event visitor, then the loop increment that moves
\* eventhdr by event_size and takes event_size off size.
EventCallback ==
    LET Advance == /\ hdr' = hdr + eventSize
                   /\ size' = SizeSub(size, eventSize)
                   /\ pc' = "loop"
                   /\ UNCHANGED result
    IN /\ pc = "event_cb"
       /\ reads' = {}
       /\ IF "event" \in Visitors
            THEN \E ok \in BOOLEAN :
                   /\ visits' = Append(visits,
                        Visit("event", EventPtr,
                              EventPtr + SizeOfEvent2 + ReadU32(EventPtr),
                              ReadBytes(hdr + 4, 4)))
                   /\ IF ok THEN Advance
                            ELSE Return(FALSE) /\ UNCHANGED <<hdr, size>>
            ELSE Advance /\ UNCHANGED visits
       /\ UNCHANGED <<logId, len, eventSize, digestsSize>>
       /\ UNCHANGED digestVars

Next ==
    \/ SpecIdEvent
    \/ SpecIdCallback
    \/ Event2Loop
    \/ ParseEvent2Header
    \/ DigestHeaderShort
    \/ DigestBufferShort
    \/ DigestAccumulate
    \/ DigestVisit
    \/ DigestsDone
    \/ ParseEvent2Size
    \/ HeaderCallback
    \/ DigestCallbacks
    \/ ParseEvent2Body
    \/ EventCallback

\* parse_eventlog runs to completion on one thread; it stops when it returns.
Spec == Init /\ [][Next]_vars /\ WF_vars(Next)

-----------------------------------------------------------------------------
(* Properties *)

TypeOK ==
    /\ logId \in DOMAIN Logs
    /\ len \in Cuts[logId]
    /\ pc \in {"specid", "specid_cb", "loop", "event2", "digest", "eventsize",
               "hdr_cb", "digest_cb", "body", "event_cb", "done"}
    /\ \A n \in {size, dSize} : n \in Nat /\ n < SizeMod
    /\ {hdr, eventSize, digestsSize, dIdx, dPtr} \subseteq Nat
    /\ dCount \in Nat /\ dCount <= U32Cap
    /\ dIdx <= dCount
    /\ dPass \in {"acc", "visit"}
    /\ result \in BOOLEAN
    /\ \A r \in reads : r[1] \in Nat /\ r[2] \in 1..20
    /\ \A i \in DOMAIN visits :
         visits[i].cb \in Visitors /\ visits[i].lo <= visits[i].hi

(* Every field the parser dereferences lies inside the len bytes it was    *)
(* given: each pointer advance in specid_event, parse_event2,              *)
(* foreach_digest2 and parse_event2body is preceded by a size check.       *)
NoOverread == \A r \in reads : r[1] + r[2] <= len

(* A visitor is only ever handed bytes inside the buffer: the SpecID event *)
(* with its eventDataSize bytes, a record of event_size bytes, a digest of *)
(* alg_size bytes, an event with its EventSize bytes.  This is what the    *)
(* size checks of parse_event2 promise foreach_event2's callbacks.         *)
VisitorsWithinLog == \A i \in DOMAIN visits : visits[i].hi <= len

(* A parse that returns true has handed the visitors the whole log, in    *)
(* the order of foreach_event2: the records tile the bytes after the      *)
(* SpecID event up to len, and each record's header visit is followed by  *)
(* one digest visit per DigestCount, walking its digest area without gap, *)
(* and then by its event visit (spec scenario S4).  The digest visits     *)
(* come from the second foreach_digest2, which reads DigestCount again    *)
(* and is bounded by the digests_size the first pass accumulated.         *)
SuccessfulParseVisitsEveryRecord ==
    (pc = "done" /\ result /\ Visitors = {"specid", "hdr", "digest", "event"}) =>
      LET H == {i \in DOMAIN visits : visits[i].cb = "hdr"}
      IN /\ visits[1].cb = "specid"
         /\ \A i \in H :
              LET n == ReadU32(visits[i].lo + 8)
                  e == i + n + 1
              IN /\ e <= Len(visits)
                 /\ visits[e].cb = "event"
                 /\ visits[e].hi = visits[i].hi
                 /\ \A j \in i + 1 .. e - 1 :
                      /\ visits[j].cb = "digest"
                      /\ visits[j].lo = IF j = i + 1
                                        THEN visits[i].lo + SizeOfEventHeader2
                                        ELSE visits[j - 1].hi
                 /\ visits[e].lo = IF n = 0 THEN visits[i].lo + SizeOfEventHeader2
                                   ELSE visits[e - 1].hi
                 /\ e < Len(visits) => visits[e + 1].cb = "hdr"
                                        /\ visits[e + 1].lo = visits[i].hi
                 /\ e = Len(visits) => visits[i].hi = len

(* Spec 8.6 and S5: every truncation of a log, len' < len, is rejected   *)
(* with LogTruncated or LogCorrupt.  foreach_event2 stops with true when  *)
(* size reaches 0, so a log cut at a record boundary parses as a shorter  *)
(* valid log.                                                             *)
TruncatedLogRejected == (pc = "done" /\ len < Len(Buf)) => ~result

\* The algorithm ids of the digestSizes table of the SpecID event.
SpecIdAlgListed(alg) ==
    \E j \in 0..(ReadU32(SizeOfTcgEvent + 24) - 1) :
        ReadU16(SizeOfTcgEvent + SizeOfSpecIdEvent + SizeOfSpecIdAlg * j) = alg

(* Spec 3 and 4.9 step 2: every digest the parser accepts has an          *)
(* AlgorithmId listed in the SpecID event, whose digest size it must      *)
(* match.  foreach_digest2 sizes a digest by tpm2_alg_util_get_hash_size  *)
(* alone and never consults the SpecID table.                             *)
DigestAlgsInSpecId ==
    \A i \in DOMAIN visits :
        visits[i].cb = "digest" => SpecIdAlgListed(visits[i].tag)

\* A UINT64 field with its true value (exact below 2^(SizeBits + 2)).
ReadU64Exact(o) == ReadCapped(o, 8, 2^(SizeBits + 2))

(* Spec 4.9 step 3: an EFI variable event reaches the event visitor only  *)
(* if EventSize holds the UEFI_VARIABLE_DATA header, the UnicodeName and  *)
(* the VariableData.  parse_event2body computes that size in size_t, and  *)
(* UnicodeNameLength * 2 + VariableDataLength can wrap.                   *)
VariableDataFits ==
    \A i \in DOMAIN visits :
        (visits[i].cb = "event" /\ visits[i].tag \in VariableTypes) =>
            LET ev == visits[i].lo
            IN SizeOfVariableData + SizeOfChar16 * ReadU64Exact(ev + 4 + 16)
                 + ReadU64Exact(ev + 4 + 24) <= ReadU32(ev)

\* Spec 4.9 steps 2 and 3 together: a record reaches the visitors only
\* after the checks the specification gives for it, its digests named in
\* the SpecID table and a variable event's name and data inside EventSize.
RecordsValidatedPerSpec == DigestAlgsInSpecId /\ VariableDataFits
====
