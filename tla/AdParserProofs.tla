---------------------------- MODULE AdParserProofs ----------------------------
(***************************************************************************)
(* How far extract_manufacturer_data can be wrong about the end of the     *)
(* advertisement, and what it finds, for every advertisement of every      *)
(* length: the steps of the invariants that ReceivePathProofs proves of    *)
(* the thread that makes the calls.                                        *)
(***************************************************************************)
EXTENDS AdParser, TLAPS

\* An iteration reads a length that the loop's test has bounded.
LEMMA LengthBounded ==
    ASSUME AtMostOnePast, ~LoopEnds
    PROVE  /\ size \in Nat /\ i \in Nat /\ i < size
           /\ len \in 1..255
           /\ i + len <= size
<1>1. i \in Nat /\ size \in Nat /\ adv_data \in [0..size -> Octet]
  BY DEF AtMostOnePast
<1>2. i < size /\ ~(len = 0) /\ ~(i + len > size)
  BY <1>1 DEF LoopEnds
<1>3. len \in 0..255
  BY <1>1, <1>2 DEF len, Octet
<1> QED
  BY <1>1, <1>2, <1>3

LEMMA ReturnNothing ==
    ASSUME AtMostOnePast, Return(Empty)
    PROVE  AtMostOnePast'
<1>1. result' = [start |-> 0, len |-> 0] /\ UNCHANGED <<adv_data, size, i>>
  BY DEF Return, Empty
<1>2. walking' \in BOOLEAN
  BY DEF Return
<1>3. /\ result'.start \in Nat
      /\ result'.len \in Nat
      /\ result'.start + result'.len <= size + 1
  BY <1>1 DEF AtMostOnePast
<1> QED
  BY <1>1, <1>2, <1>3 DEF AtMostOnePast

LEMMA OnePastStep ==
    ASSUME AtMostOnePast, [AdNext]_adVars
    PROVE  AtMostOnePast'
<1>1. CASE NoStructureLeft
  BY <1>1, ReturnNothing DEF NoStructureLeft
<1>2. CASE ManufacturerTooShort
  BY <1>2, ReturnNothing DEF ManufacturerTooShort
<1>3. CASE EnoceanFound
  <2>1. /\ result' = IF len < 3 THEN Empty ELSE [start |-> i + 4, len |-> len - 3]
        /\ walking' = FALSE
        /\ UNCHANGED <<adv_data, size, i>>
        /\ ~LoopEnds
    BY <1>3 DEF EnoceanFound, Return
  <2>2. /\ size \in Nat /\ i \in Nat
        /\ len \in 1..255
        /\ i + len <= size
    BY <2>1, LengthBounded
  <2>3. /\ result'.start \in Nat
        /\ result'.len \in Nat
        /\ result'.start + result'.len <= size + 1
    <3>1. CASE len < 3
      BY <2>1, <2>2, <3>1 DEF Empty
    <3>2. CASE ~(len < 3)
      BY <2>1, <2>2, <3>2
    <3> QED  BY <3>1, <3>2
  <2> QED
    BY <2>1, <2>3 DEF AtMostOnePast
<1>4. CASE OtherStructure
  <2>1. /\ i' = i + 1 + len
        /\ UNCHANGED <<adv_data, size, result, walking>>
        /\ ~LoopEnds
    BY <1>4 DEF OtherStructure
  <2>2. i' \in Nat /\ i' <= size + 1
    BY <2>1, LengthBounded
  <2> QED
    BY <2>1, <2>2 DEF AtMostOnePast
<1>5. CASE UNCHANGED adVars
  BY <1>5 DEF adVars, AtMostOnePast
<1> QED
  BY <1>1, <1>2, <1>3, <1>4, <1>5 DEF AdNext

\* A call on bytes starts inside them.
LEMMA OnePastCall ==
    ASSUME NEW s, NEW n \in Nat, NEW b \in [0..n -> Octet],
           extract_manufacturer_data(s, n, b)
    PROVE  AtMostOnePast'
<1>1. /\ size' = n /\ adv_data' = b /\ i' = 0 /\ walking' = TRUE
      /\ result' = [start |-> 0, len |-> 0]
  BY DEF extract_manufacturer_data, Empty
<1> QED
  BY <1>1 DEF AtMostOnePast

LEMMA OnePastInit == ASSUME AdInit PROVE AtMostOnePast
<1>1. /\ size = 0 /\ i = 0 /\ walking = FALSE /\ result = [start |-> 0, len |-> 0]
  BY DEF AdInit, Empty
<1>2. adv_data \in [0..size -> Octet]
  BY <1>1 DEF AdInit, Octet
<1>3. /\ result.start \in Nat /\ result.len \in Nat
      /\ result.start + result.len <= size + 1
  BY <1>1
<1>4. walking \in BOOLEAN
  BY <1>1
<1>5. size \in Nat /\ i \in Nat /\ i <= size + 1
  BY <1>1
<1> QED
  BY <1>2, <1>3, <1>4, <1>5, Zenon DEF AtMostOnePast

-----------------------------------------------------------------------------
(* What the walk finds.  While it walks, the position is where one of the  *)
(* structures sent begins and none before it is EnOcean's; the bytes that  *)
(* were cut off, and the one behind the span, are never decisive.          *)

Walked(k) ==
    /\ k \in 1..(Len(sent) + 1)
    /\ i = At(sent, k)
    /\ \A m \in DOMAIN sent : m < k => ~sent[m].enocean

\* The EnOcean structures that arrived whole.
Arrived == {k \in Enocean : sent[k].end <= size}

FindInv ==
    /\ Carries(sent, size, adv_data)
    /\ walking => \E k \in 1..(Len(sent) + 1) : Walked(k)
    /\ ExtractsFirst

\* The structures sent, as far as their shape goes.
LEMMA Structures ==
    ASSUME Carries(sent, size, adv_data)
    PROVE  /\ Len(sent) \in Nat /\ DOMAIN sent = 1..Len(sent)
           /\ \A k \in DOMAIN sent : sent[k].end \in Nat /\ sent[k].enocean \in BOOLEAN
<1> DEFINE S == [end : Nat, enocean : BOOLEAN, payload : [start : Int, len : Int]]
<1>1. sent \in Seq(S)
  BY DEF Carries
<1>2. \A x \in S : x.end \in Nat /\ x.enocean \in BOOLEAN
  OBVIOUS
<1> HIDE DEF S
<1>3. Len(sent) \in Nat /\ DOMAIN sent = 1..Len(sent)
  BY <1>1
<1>4. \A k \in DOMAIN sent : sent[k] \in S
  BY <1>1, <1>3
<1> QED
  BY <1>2, <1>3, <1>4

LEMMA AtNat ==
    ASSUME Carries(sent, size, adv_data), NEW k \in 1..(Len(sent) + 1)
    PROVE  At(sent, k) \in Nat
<1>1. /\ Len(sent) \in Nat /\ DOMAIN sent = 1..Len(sent)
      /\ \A m \in DOMAIN sent : sent[m].end \in Nat
  BY Structures
<1>2. CASE k = 1
  BY <1>2 DEF At
<1>3. CASE k # 1
  <2>1. k - 1 \in DOMAIN sent
    BY <1>1, <1>3
  <2> QED  BY <1>1, <1>3, <2>1 DEF At
<1> QED
  BY <1>2, <1>3

LEMMA AtNext ==
    ASSUME NEW s, NEW k \in Nat \ {0}
    PROVE  At(s, k + 1) = s[k].end
<1>1. k + 1 # 1 /\ (k + 1) - 1 = k
  OBVIOUS
<1> QED
  BY <1>1 DEF At

\* What Carries says of one structure.
LEMMA OneStructure ==
    ASSUME Carries(sent, size, adv_data), NEW k \in DOMAIN sent,
           NEW at, at = At(sent, k)
    PROVE  /\ sent[k].end - at - 1 \in 1..255
           /\ at < size => adv_data[at] = sent[k].end - at - 1
           /\ sent[k].enocean =>
                /\ sent[k].end >= at + 4
                /\ sent[k].payload = [start |-> at + 4, len |-> sent[k].end - at - 4]
                /\ at + 1 < size => adv_data[at + 1] = k_ad_type_manufacturer
           /\ at + 1 < size =>
                (adv_data[at + 1] = k_ad_type_manufacturer => sent[k].end >= at + 4)
           /\ at + 3 < size =>
                (sent[k].enocean <=> /\ adv_data[at + 1] = k_ad_type_manufacturer
                                     /\ adv_data[at + 2] = CompanyLow
                                     /\ adv_data[at + 3] = CompanyHigh)
           /\ \A m \in DOMAIN sent : k < m => sent[k].end <= At(sent, m)
BY Zenon DEF Carries

\* What that makes of the structure the walk has come to.
LEMMA AtStructure ==
    ASSUME AtMostOnePast, Carries(sent, size, adv_data), NEW k, Walked(k), ~LoopEnds
    PROVE  /\ k \in DOMAIN sent
           /\ sent[k].end = i + 1 + len
           /\ sent[k].end <= size + 1
           /\ sent[k].enocean => /\ len >= 3
                                 /\ sent[k].payload = [start |-> i + 4, len |-> len - 3]
                                 /\ IsManufacturer
           /\ i + 3 < size => (sent[k].enocean <=> IsManufacturer /\ IsEnocean)
           /\ \A m \in DOMAIN sent : k < m => i + 1 + len <= At(sent, m)
<1>1. /\ size \in Nat /\ i \in Nat /\ i < size
      /\ len \in 1..255
      /\ i + len <= size
  BY LengthBounded
<1>2. /\ Len(sent) \in Nat /\ DOMAIN sent = 1..Len(sent)
      /\ \A m \in DOMAIN sent : sent[m].end \in Nat
  BY Structures
<1>3. k \in 1..(Len(sent) + 1) /\ i = At(sent, k)
  BY DEF Walked
<1>4. k # Len(sent) + 1
  <2>1. At(sent, Len(sent) + 1) < size => adv_data[At(sent, Len(sent) + 1)] = 0
    BY DEF Carries
  <2>2. ASSUME k = Len(sent) + 1  PROVE FALSE
    <3>1. i < size => adv_data[i] = 0
      BY <1>3, <2>1, <2>2
    <3>2. len = 0
      BY <1>1, <3>1 DEF len
    <3> QED  BY <1>1, <3>2
  <2> QED  BY <2>2
<1>5. k \in DOMAIN sent
  BY <1>2, <1>3, <1>4
<1>6. sent[k].end \in Nat
  BY <1>2, <1>5
<1>7. /\ i < size => len = sent[k].end - i - 1
      /\ sent[k].enocean => /\ sent[k].end >= i + 4
                            /\ sent[k].payload = [start |-> i + 4, len |-> sent[k].end - i - 4]
                            /\ i + 1 < size => IsManufacturer
      /\ i + 3 < size => (sent[k].enocean <=> IsManufacturer /\ IsEnocean)
      /\ \A m \in DOMAIN sent : k < m => sent[k].end <= At(sent, m)
  BY <1>3, <1>5, OneStructure, Zenon DEF IsManufacturer, IsEnocean, type, len
<1>8. sent[k].end = i + 1 + len
  BY <1>1, <1>6, <1>7
<1>9. sent[k].enocean => len >= 3 /\ i + 1 < size /\ sent[k].end - i - 4 = len - 3
  BY <1>1, <1>6, <1>7, <1>8
<1>10. sent[k].end <= size + 1
  BY <1>1, <1>8
<1>11. \A m \in DOMAIN sent : k < m => i + 1 + len <= At(sent, m)
  BY <1>7, <1>8, Zenon
<1> QED
  BY <1>5, <1>7, <1>8, <1>9, <1>10, <1>11

\* A structure of EnOcean's that arrived takes at least four bytes.
LEMMA ArrivedSpan ==
    ASSUME Carries(sent, size, adv_data), NEW m \in Arrived
    PROVE  /\ m \in DOMAIN sent /\ sent[m].enocean
           /\ sent[m].end \in Nat /\ At(sent, m) + 4 <= sent[m].end
           /\ sent[m].end <= size
<1>1. m \in DOMAIN sent /\ sent[m].enocean /\ sent[m].end <= size
  BY DEF Arrived, Enocean
<1>2. sent[m].end >= At(sent, m) + 4
  BY <1>1, OneStructure
<1>3. m \in 1..(Len(sent) + 1) /\ sent[m].end \in Nat
  BY <1>1, Structures
<1>4. At(sent, m) \in Nat
  BY <1>3, AtNat
<1> QED
  BY <1>1, <1>2, <1>3, <1>4

\* A length that ends the loop without being zero reaches past the span.
LEMMA PastTheEnd ==
    ASSUME NEW e \in Nat, NEW p \in Nat, NEW n \in Nat, NEW l,
           e - p - 1 \in 1..255,
           p < n => l = e - p - 1,
           p < n => l = 0 \/ p + l > n
    PROVE  e > n + 1
OBVIOUS

\* The walk ends without a find: nothing of EnOcean's arrived.
LEMMA NothingArrived ==
    ASSUME AtMostOnePast, Carries(sent, size, adv_data), NEW k, Walked(k), LoopEnds
    PROVE  Arrived = {}
<1> SUFFICES ASSUME NEW m \in Arrived  PROVE FALSE
  OBVIOUS
<1>1. /\ m \in DOMAIN sent /\ sent[m].enocean
      /\ sent[m].end \in Nat /\ At(sent, m) + 4 <= sent[m].end
      /\ sent[m].end <= size
  BY ArrivedSpan
<1>2. /\ Len(sent) \in Nat /\ DOMAIN sent = 1..Len(sent)
      /\ size \in Nat /\ i \in Nat
      /\ sent[m].end \in Nat
  BY <1>1, Structures DEF AtMostOnePast
<1>3. k \in 1..(Len(sent) + 1) /\ ~(m < k) /\ i = At(sent, k)
  BY <1>1 DEF Walked
<1>4. k \in DOMAIN sent /\ m \in Nat /\ (m = k \/ k < m)
  BY <1>1, <1>2, <1>3
<1>5. /\ sent[k].end \in Nat /\ sent[k].end - i - 1 \in 1..255
      /\ i < size => len = sent[k].end - i - 1
  <2>1. sent[k].end \in Nat
    BY <1>4, Structures
  <2>2. /\ sent[k].end - i - 1 \in 1..255
        /\ i < size => adv_data[i] = sent[k].end - i - 1
    BY <1>3, <1>4, OneStructure, Zenon
  <2> QED  BY <2>1, <2>2, Zenon DEF len
<1>6. sent[k].end > size + 1
  <2>1. i < size => len = 0 \/ i + len > size
    BY DEF LoopEnds
  <2> QED  BY <1>2, <1>5, <2>1, PastTheEnd
<1>7. CASE m = k
  BY <1>1, <1>2, <1>5, <1>6, <1>7
<1>8. CASE k < m
  <2>1. sent[k].end <= At(sent, m)
    BY <1>1, <1>4, <1>8, OneStructure
  <2>2. At(sent, m) \in Nat
    BY <1>1, <1>2, AtNat
  <2> QED  BY <1>1, <1>2, <1>5, <1>6, <2>1, <2>2
<1> QED
  BY <1>4, <1>7, <1>8

\* Returning ends the walk and touches none of the input.
LEMMA Returned ==
    ASSUME FindInv, NEW span, Return(span),
           \A k \in Arrived :
               FirstEnocean(k) /\ sent[k].payload.len > 0 => span = sent[k].payload,
           span.len > 0 => \E k \in Enocean : FirstEnocean(k) /\ span = sent[k].payload
    PROVE  FindInv'
<1>1. /\ result' = span /\ walking' = FALSE
      /\ sent' = sent /\ adv_data' = adv_data /\ size' = size
  BY DEF Return
<1>2. Enocean' = Enocean
  BY <1>1 DEF Enocean
<1>3. Carries(sent', size', adv_data')
  BY <1>1 DEF FindInv
<1>4. \A k \in Enocean : (FirstEnocean(k) <=> FirstEnocean(k)')
  BY <1>2 DEF FirstEnocean
<1>5. ExtractsFirst'
  BY <1>1, <1>2, <1>4 DEF ExtractsFirst, Arrived
<1> QED
  BY <1>1, <1>3, <1>5 DEF FindInv

LEMMA FindStep ==
    ASSUME AtMostOnePast, FindInv, [AdNext]_adVars
    PROVE  FindInv'
<1>1. CASE UNCHANGED adVars
  <2>1. /\ sent' = sent /\ adv_data' = adv_data /\ size' = size
        /\ i' = i /\ result' = result /\ walking' = walking
    BY <1>1 DEF adVars
  <2>2. Carries(sent', size', adv_data')
    BY <2>1 DEF FindInv
  <2>3. ASSUME NEW k, Walked(k)  PROVE Walked(k)'
    BY <2>1, <2>3 DEF Walked, At
  <2>4. ExtractsFirst'
    BY <2>1 DEF FindInv, ExtractsFirst, Enocean, FirstEnocean
  <2>5. walking' => \E k \in 1..(Len(sent') + 1) : Walked(k)'
    BY <2>1, <2>3 DEF FindInv
  <2> QED
    BY <2>2, <2>4, <2>5 DEF FindInv
<1>2. ASSUME AdNext, NEW k, Walked(k)  PROVE FindInv'
  <2>1. /\ Carries(sent, size, adv_data) /\ size \in Nat /\ i \in Nat
        /\ Len(sent) \in Nat /\ DOMAIN sent = 1..Len(sent)
    BY Structures DEF FindInv, AtMostOnePast
  <2>2. CASE NoStructureLeft
    <3>1. Arrived = {} /\ Return(Empty) /\ ~(Empty.len > 0)
      BY <1>2, <2>1, <2>2, NothingArrived DEF NoStructureLeft, Empty
    <3> QED  BY <3>1, Returned
  <2>3. ASSUME ~LoopEnds
        PROVE  /\ k \in DOMAIN sent
               /\ len \in 1..255 /\ i < size /\ i + len <= size
               /\ \A m \in Arrived : ~(m < k)
               /\ \A m \in Arrived : m # k => i + 1 + len + 4 <= size + 1
    <3>1. k \in DOMAIN sent /\ \A m \in DOMAIN sent : k < m => i + 1 + len <= At(sent, m)
      BY <1>2, <2>1, <2>3, AtStructure
    <3>2. len \in 1..255 /\ i < size /\ i + len <= size
      BY <2>3, LengthBounded
    <3>3. \A m \in Arrived : ~(m < k)
      BY <1>2, <2>1, ArrivedSpan DEF Walked
    <3>4. ASSUME NEW m \in Arrived, m # k  PROVE i + 1 + len + 4 <= size + 1
      <4>1. /\ m \in DOMAIN sent /\ sent[m].end \in Nat
            /\ At(sent, m) + 4 <= sent[m].end /\ sent[m].end <= size
        BY <2>1, ArrivedSpan
      <4>2. k < m /\ m \in Nat /\ k \in Nat
        BY <2>1, <3>1, <3>3, <3>4, <4>1
      <4>3. At(sent, m) \in Nat
        BY <2>1, <4>1, AtNat
      <4> QED  BY <2>1, <3>1, <3>2, <4>1, <4>2, <4>3
    <3> QED  BY <3>1, <3>2, <3>3, <3>4
  <2>4. CASE ManufacturerTooShort
    <3>1. ~LoopEnds /\ ~CompanyPresent /\ Return(Empty) /\ ~(Empty.len > 0)
      BY <2>4 DEF ManufacturerTooShort, Empty
    <3>2. i + 3 >= size
      BY <2>1, <3>1 DEF CompanyPresent
    <3>3. \A m \in Arrived : m = k
      <4>1. \A m \in Arrived : m # k => i + 1 + len + 4 <= size + 1
        BY <2>3, <3>1
      <4>2. ~(i + 1 + len + 4 <= size + 1)
        <5>1. len \in 1..255
          BY <2>3, <3>1
        <5>2. i \in Nat /\ size \in Nat
          BY <2>1
        <5> QED  BY <3>2, <5>1, <5>2
      <4> QED  BY <4>1, <4>2, Zenon
    <3>4. k \in Arrived => sent[k].payload.len = 0
      <4>1. k \in Arrived => sent[k].enocean
        BY DEF Arrived, Enocean
      <4>2. sent[k].enocean => /\ len >= 3
                               /\ sent[k].payload = [start |-> i + 4, len |-> len - 3]
        BY <1>2, <2>1, <3>1, AtStructure
      <4>3. sent[k].enocean => len = 3
        <5>1. len \in 1..255 /\ i + len <= size
          BY <2>3, <3>1
        <5>2. i \in Nat /\ size \in Nat
          BY <2>1
        <5>3. len <= 3
          BY <3>2, <5>1, <5>2
        <5> QED  BY <4>2, <5>1, <5>3
      <4> QED  BY <4>1, <4>2, <4>3
    <3>5. \A m \in Arrived : ~(sent[m].payload.len > 0)
      BY <3>3, <3>4
    <3> QED  BY <3>1, <3>5, Returned
  <2>5. CASE EnoceanFound
    <3>1. /\ ~LoopEnds /\ IsManufacturer /\ CompanyPresent /\ IsEnocean
          /\ Return(IF len < 3 THEN Empty ELSE [start |-> i + 4, len |-> len - 3])
      BY <2>5 DEF EnoceanFound
    <3>2. i + 3 < size
      BY <2>1, <3>1 DEF CompanyPresent
    <3>3. /\ sent[k].enocean /\ sent[k].end <= size + 1 /\ k \in DOMAIN sent
          /\ len >= 3 /\ sent[k].payload = [start |-> i + 4, len |-> len - 3]
      BY <1>2, <2>1, <3>1, <3>2, AtStructure
    <3>4. k \in Enocean
      BY <3>3 DEF Enocean
    <3>5. FirstEnocean(k)
      <4>1. \A m \in Enocean : m \in Nat /\ k \in Nat /\ ~(m < k)
        BY <1>2, <2>1, <3>3 DEF Enocean, Walked
      <4> QED  BY <4>1 DEF FirstEnocean
    <3>6. Return(sent[k].payload)
      BY <2>3, <3>1, <3>3
    <3>7. \A m \in Arrived : FirstEnocean(m) => m = k
      <4>1. \A m \in Arrived : m \in Enocean /\ m \in Nat /\ k \in Nat
        BY <2>1, <3>3 DEF Arrived, Enocean
      <4>2. ASSUME NEW m \in Arrived, FirstEnocean(m)  PROVE m <= k /\ k <= m
        BY <3>4, <3>5, <4>1, <4>2 DEF FirstEnocean
      <4> QED  BY <4>1, <4>2
    <3> QED  BY <3>4, <3>5, <3>6, <3>7, Returned
  <2>6. CASE OtherStructure
    <3>1. /\ ~LoopEnds /\ (IsManufacturer => CompanyPresent /\ ~IsEnocean)
          /\ i' = i + 1 + len /\ walking /\ UNCHANGED <<sent, adv_data, size, result, walking>>
      BY <2>6 DEF OtherStructure
    <3>2. /\ k \in DOMAIN sent /\ sent[k].end = i + 1 + len
          /\ sent[k].enocean => IsManufacturer
          /\ i + 3 < size => (sent[k].enocean <=> IsManufacturer /\ IsEnocean)
      BY <1>2, <2>1, <3>1, AtStructure
    <3>3. ~sent[k].enocean
      BY <2>1, <3>1, <3>2 DEF CompanyPresent
    <3>4. k + 1 \in 1..(Len(sent) + 1)
      BY <2>1, <3>2
    <3>5. At(sent, k + 1) = i + 1 + len
      <4>1. At(sent, k + 1) = sent[k].end
        BY <2>1, <3>2, AtNext
      <4> QED  BY <3>2, <4>1
    <3>6. \A m \in DOMAIN sent : m < k + 1 => ~sent[m].enocean
      BY <1>2, <2>1, <3>2, <3>3 DEF Walked
    <3>7. Walked(k + 1)'
      BY <3>1, <3>4, <3>5, <3>6 DEF Walked, At
    <3>8. Carries(sent', size', adv_data') /\ ExtractsFirst'
      BY <2>1, <3>1 DEF ExtractsFirst
    <3> QED  BY <3>1, <3>4, <3>7, <3>8 DEF FindInv
  <2> QED  BY <1>2, <2>2, <2>4, <2>5, <2>6 DEF AdNext
<1>3. AdNext => walking
  BY DEF AdNext, NoStructureLeft, ManufacturerTooShort, EnoceanFound, OtherStructure
<1> QED
  BY <1>1, <1>2, <1>3 DEF FindInv

LEMMA FindCall ==
    ASSUME NEW s, NEW n, NEW b, Carries(s, n, b), extract_manufacturer_data(s, n, b)
    PROVE  FindInv'
<1>1. /\ sent' = s /\ size' = n /\ adv_data' = b /\ i' = 0 /\ walking' = TRUE
  BY DEF extract_manufacturer_data
<1>2. Carries(sent', size', adv_data')
  BY <1>1
<1>3. Len(s) \in Nat
  BY DEF Carries
<1>4. 1 \in 1..(Len(sent') + 1)
  BY <1>1, <1>3
<1>5. Walked(1)'
  BY <1>1, <1>3, <1>4 DEF Walked, At, Carries
<1> QED
  BY <1>1, <1>2, <1>4, <1>5 DEF FindInv, ExtractsFirst

LEMMA FindInit == ASSUME AdInit PROVE FindInv
<1>1. sent = <<>> /\ size = 0 /\ walking = FALSE /\ result = [start |-> 0, len |-> 0]
  BY DEF AdInit, Empty
<1>2. Carries(sent, size, adv_data)
  BY <1>1 DEF Carries, At
<1>3. ExtractsFirst
  BY <1>1 DEF ExtractsFirst, Enocean
<1> QED
  BY <1>1, <1>2, <1>3 DEF FindInv

=============================================================================
