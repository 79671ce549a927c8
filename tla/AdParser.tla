------------------------------- MODULE AdParser -------------------------------
(***************************************************************************)
(* EnoceanDriver::extract_manufacturer_data: the walk over the AD          *)
(* structures (length, type, data) of an advertisement in search of the    *)
(* manufacturer data of EnOcean.  One step is one iteration of the loop.   *)
(* ReceivePath makes the calls.                                            *)
(***************************************************************************)
EXTENDS Integers, Sequences

Octet == 0..255

k_ad_type_manufacturer == 255
\* k_enocean_manufacturer_id, 0x03DA, low byte first.
CompanyLow == 218
CompanyHigh == 3

VARIABLES
    sent,       \* the transmitter's structures (history)
    adv_data,   \* the span's bytes, from 0 on, and the one byte behind them
    size,       \* adv_data.size()
    i,          \* the read position
    result,     \* the span returned: its start and length
    walking     \* FALSE outside the function

adVars == <<sent, adv_data, size, i, result, walking>>

Empty == [start |-> 0, len |-> 0]

AdInit ==
    /\ sent = <<>> /\ size = 0 /\ adv_data = [k \in 0..0 |-> 0]
    /\ i = 0 /\ result = Empty /\ walking = FALSE

\* The call, on the n bytes b.  s is what the transmitter wrote: for each
\* structure where it ends, whether it is of EnOcean, and where its payload
\* lies.  The span may hold less of it, or padding behind it.
extract_manufacturer_data(s, n, b) ==
    /\ ~walking
    /\ sent' = s /\ size' = n /\ adv_data' = b
    /\ i' = 0 /\ result' = Empty /\ walking' = TRUE

-----------------------------------------------------------------------------

len == adv_data[i]
type == adv_data[i + 1]

Return(span) ==
    /\ result' = span
    /\ walking' = FALSE
    /\ UNCHANGED <<sent, adv_data, size, i>>

\* Faulty variant: the claimed length is believed.
LoopEnds_Unbounded == i < size => len = 0

\* The ends of the loop: nothing left, a zero length, or a length that reaches
\* past the span.  The bound counts from the length byte itself.
LoopEnds == i < size => len = 0 \/ i + len > size

NoStructureLeft ==
    /\ walking
    /\ LoopEnds
    /\ Return(Empty)

IsManufacturer == type = k_ad_type_manufacturer
\* Company ID and at least one byte before it are inside the span.
CompanyPresent == size - (i + 1) >= 3
IsEnocean == adv_data[i + 2] = CompanyLow /\ adv_data[i + 3] = CompanyHigh

ManufacturerTooShort ==
    /\ walking
    /\ ~LoopEnds
    /\ IsManufacturer
    /\ ~CompanyPresent
    /\ Return(Empty)

\* Faulty variant: the span starts at the company's second byte.
EnoceanFound_Early ==
    /\ walking
    /\ ~LoopEnds
    /\ IsManufacturer
    /\ CompanyPresent
    /\ IsEnocean
    /\ Return(IF len < 3 THEN Empty ELSE [start |-> i + 3, len |-> len - 3])

EnoceanFound ==
    /\ walking
    /\ ~LoopEnds
    /\ IsManufacturer
    /\ CompanyPresent
    /\ IsEnocean
    /\ Return(IF len < 3 THEN Empty ELSE [start |-> i + 4, len |-> len - 3])

\* Faulty variant: no step is made.
OtherStructure_Stays ==
    /\ walking
    /\ ~LoopEnds
    /\ IsManufacturer => CompanyPresent /\ ~IsEnocean
    /\ UNCHANGED adVars

OtherStructure ==
    /\ walking
    /\ ~LoopEnds
    /\ IsManufacturer => CompanyPresent /\ ~IsEnocean
    /\ i' = i + 1 + len
    /\ UNCHANGED <<sent, adv_data, size, result, walking>>

AdNext == NoStructureLeft \/ ManufacturerTooShort \/ EnoceanFound \/ OtherStructure

-----------------------------------------------------------------------------
(* Properties.                                                             *)

\* Neither the position nor the span returned ever reaches more than one byte
\* past adv_data, whatever lengths the structures claim: since the loop's bound
\* forgets the length byte, that one byte is the most it can be wrong by.
AtMostOnePast ==
    /\ size \in Nat
    /\ adv_data \in [0..size -> Octet]
    /\ i \in Nat
    /\ i <= size + 1
    /\ result.start \in Nat
    /\ result.len \in Nat
    /\ result.start + result.len <= size + 1
    /\ walking \in BOOLEAN

\* The n bytes b carry the structures s, as far as they were not cut off: one
\* after the other from offset 0 on, each opened by its length, the type
\* following, with a company ID in every manufacturer structure, and at most
\* zero padding behind the last.
At(s, k) == IF k = 1 THEN 0 ELSE s[k - 1].end
Carries(s, n, b) ==
    /\ s \in Seq([end : Nat, enocean : BOOLEAN, payload : [start : Int, len : Int]])
    /\ \A k, m \in DOMAIN s : m < k => s[m].end <= At(s, k)
    /\ \A k \in DOMAIN s :
         LET at == At(s, k)
             type_is == b[at + 1] = k_ad_type_manufacturer
             company_is == b[at + 2] = CompanyLow /\ b[at + 3] = CompanyHigh
         IN  /\ s[k].end - at - 1 \in 1..255
             /\ at < n => b[at] = s[k].end - at - 1
             /\ s[k].enocean => /\ s[k].end >= at + 4
                                /\ s[k].payload = [start |-> at + 4, len |-> s[k].end - at - 4]
                                /\ at + 1 < n => type_is
             /\ at + 1 < n => (type_is => s[k].end >= at + 4)
             /\ at + 3 < n => (s[k].enocean <=> type_is /\ company_is)
    /\ At(s, Len(s) + 1) < n => b[At(s, Len(s) + 1)] = 0

\* The function finds EnOcean's structure wherever it lies: when one arrived
\* whole, the first of them is what is returned, its payload exactly; and a
\* payload is never returned but that of the first EnOcean structure sent.
\* Structures before it, of any type, length or company, are stepped over
\* exactly, if the span carries what was sent.
Enocean == {k \in DOMAIN sent : sent[k].enocean}
FirstEnocean(k) == \A m \in Enocean : k <= m
ExtractsFirst ==
    ~walking =>
        /\ \A k \in Enocean :
              FirstEnocean(k) /\ sent[k].end <= size /\ sent[k].payload.len > 0
                => result = sent[k].payload
        /\ result.len > 0 =>
              \E k \in Enocean : FirstEnocean(k) /\ result = sent[k].payload

\* What EnoceanDriver.hpp says of the function: it returns a span over payload
\* bytes of adv_data, or an empty span on failure.
SpanInside == result.start + result.len <= size

=============================================================================
