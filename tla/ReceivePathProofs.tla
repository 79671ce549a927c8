-------------------------- MODULE ReceivePathProofs --------------------------
(***************************************************************************)
(* The scan thread between two read()s: dispatch_adv_report never reads    *)
(* past the bytes received and delivers the reports that arrived whole,    *)
(* and the driver finds in each of them what its transmitter wrote, for    *)
(* events of every content and length.                                     *)
(***************************************************************************)
EXTENDS ReceivePath, AdParserProofs, SequenceTheorems, TLAPS

\* The walk is entered with an accepted header only, and nothing is delivered
\* before it.
WalkInv ==
    /\ pc = "header" => r = 0
    /\ pc = "walk" => num_reports <= k_max_reports /\ num_reports \in Nat

HciInv == TypeOK /\ Tiled /\ WalkInv

\* A part of the event that lies inside it is a sequence of as many bytes.
LEMMA BytesInside ==
    ASSUME event \in Events, NEW o \in Nat, NEW n \in Nat, o + n <= total
    PROVE  Bytes(o, n) \in Seq(0..255) /\ Len(Bytes(o, n)) = n
<1>1. event.bytes \in Seq(0..255)
  BY HciAssumption
<1>2. o + 1 \in 1..(Len(event.bytes) + 1) /\ o + n \in (o + 1 - 1)..Len(event.bytes)
  BY <1>1, LenProperties DEF total
<1> DEFINE s == event.bytes
           m == o + 1
           k == o + n
<1>3. /\ SubSeq(s, m, k) \in Seq(0..255)
      /\ Len(SubSeq(s, m, k)) = IF m <= k THEN k - m + 1 ELSE 0
  <2> HIDE DEF s, m, k
  <2>1. s \in Seq(0..255) /\ m \in 1..(Len(s) + 1) /\ k \in (m - 1)..Len(s)
    BY <1>1, <1>2 DEF s, m, k
  <2>2. m \in Int /\ k \in Int /\ \A j \in m..k : s[j] \in 0..255
    <3>1. m \in Nat /\ k \in Nat /\ \A j \in m..k : j \in 1..Len(s)
      BY <2>1, LenProperties
    <3> QED
      BY <2>1, <3>1, ElementOfSeq
  <2> QED
    BY <2>2, SubSeqProperties
<1> QED
  BY <1>3 DEF Bytes

\* A byte whose offset is inside the event is one.
LEMMA ByteInside ==
    ASSUME event \in Events, NEW o \in Nat, o < total
    PROVE  Byte(o) \in 0..255
<1>1. event.bytes \in Seq(0..255)
  BY HciAssumption
<1>2. o + 1 \in 1..Len(event.bytes)
  BY <1>1, LenProperties DEF total
<1> QED
  BY <1>1, <1>2, ElementOfSeq DEF Byte

LEMMA TotalNat == ASSUME event \in Events PROVE total \in Nat
BY HciAssumption DEF total

\* A complete report lies inside the event, its signal strength included.
LEMMA ReportInside ==
    ASSUME event \in Events, NEW at \in Nat, NEW n \in Nat,
           at + k_report_hdr + n <= total
    PROVE  /\ Report(at, n) \in [at : Nat, adv_type : 0..255, addr_type : 0..255,
                                 addr : Seq(0..255), data : Seq(0..255), rssi : -128..127]
           /\ Report(at, n).at = at
           /\ Len(Report(at, n).data) = n
<1>0. total \in Nat
  BY TotalNat
<1>1. Byte(at) \in 0..255 /\ Byte(at + 1) \in 0..255
  BY <1>0, ByteInside DEF k_report_hdr
<1>2. Byte(at + 9 + n) \in 0..255
  <2>1. at + 9 + n \in Nat /\ at + 9 + n < total
    BY <1>0 DEF k_report_hdr
  <2> QED
    BY <2>1, ByteInside
<1>3. Bytes(at + 2, 6) \in Seq(0..255)
  <2>1. at + 2 \in Nat /\ at + 2 + 6 <= total
    BY <1>0 DEF k_report_hdr
  <2> QED
    BY <2>1, BytesInside
<1>4. Bytes(at + 9, n) \in Seq(0..255) /\ Len(Bytes(at + 9, n)) = n
  <2>1. at + 9 \in Nat /\ at + 9 + n <= total
    BY <1>0 DEF k_report_hdr
  <2> QED
    BY <2>1, BytesInside
<1>5. int8(Byte(at + 9 + n)) \in -128..127
  BY <1>2 DEF int8
<1> QED
  BY <1>1, <1>3, <1>4, <1>5 DEF Report

LEMMA HciInvInit == ASSUME HciInit PROVE HciInv
<1>1. TypeOK
  BY DEF HciInit, TypeOK, k_header_size
<1>2. Tiled
  BY DEF HciInit, Tiled
<1> QED
  BY <1>1, <1>2 DEF HciInit, HciInv, WalkInv

LEMMA HeaderStep == ASSUME HciInv, CheckHeader PROVE HciInv'
<1> USE DEF HciInv, CheckHeader
<1>1. TypeOK'
  BY DEF TypeOK
<1>2. Tiled'
  BY DEF Tiled, num_reports, total, Byte
<1>3. WalkInv'
  <2>1. ASSUME HeaderAccepted PROVE num_reports \in Nat
    <3>1. total \in Nat /\ 4 < total
      BY <2>1, TotalNat DEF HeaderAccepted, TypeOK, k_header_size, k_min_adv_report_size
    <3>2. Byte(4) \in 0..255
      BY <3>1, ByteInside DEF TypeOK
    <3> QED
      BY <3>2 DEF num_reports
  <2> QED
    BY <2>1 DEF WalkInv, num_reports, Byte, TypeOK
<1> QED
  BY <1>1, <1>2, <1>3

LEMMA EndStep == ASSUME HciInv, EndOfReports PROVE HciInv'
BY DEF HciInv, EndOfReports, TypeOK, Tiled, WalkInv, num_reports, total, Byte

LEMMA DispatchStep == ASSUME HciInv, DispatchReport PROVE HciInv'
<1> DEFINE d == Report(ptr, data_len)
<1>1. /\ event \in Events /\ r \in Nat /\ ptr \in Nat /\ total \in Nat
      /\ data_len \in Nat /\ ptr + k_report_hdr + data_len <= total
  <2>1. event \in Events /\ r \in Nat /\ ptr \in Nat /\ total \in Nat
    BY TotalNat DEF HciInv, TypeOK
  <2>2. ptr + 8 \in Nat /\ ptr + 8 < total
    BY <2>1 DEF DispatchReport, ReportComplete, k_report_hdr
  <2>3. data_len \in 0..255
    BY <2>1, <2>2, ByteInside DEF data_len
  <2> QED
    BY <2>1, <2>3 DEF DispatchReport, ReportComplete
<1>2. /\ d \in [at : Nat, adv_type : 0..255, addr_type : 0..255,
                addr : Seq(0..255), data : Seq(0..255), rssi : -128..127]
      /\ d.at = ptr /\ Len(d.data) = data_len
  BY <1>1, ReportInside
<1> HIDE DEF d
<1>3. /\ delivered' = Append(delivered, d) /\ ptr' = ptr + k_report_hdr + data_len
      /\ r' = r + 1 /\ pc = "walk" /\ pc' = pc /\ event' = event /\ r < num_reports
  BY <1>1 DEF DispatchReport, d, k_report_hdr
<1>4. TypeOK'
  BY <1>1, <1>2, <1>3 DEF HciInv, TypeOK, k_report_hdr
<1>5. WalkInv'
  BY <1>3 DEF HciInv, WalkInv, num_reports, Byte
<1>6. Tiled'
  <2>1. /\ delivered \in Seq([at : Nat, adv_type : 0..255, addr_type : 0..255,
                              addr : Seq(0..255), data : Seq(0..255), rssi : -128..127])
        /\ Len(delivered) = r
    BY DEF HciInv, TypeOK, Tiled
  <2>2. Len(delivered') = r + 1 /\ delivered'[r + 1] = d
        /\ \A o \in 1..r : delivered'[o] = delivered[o]
    BY <1>1, <1>2, <1>3, <2>1
  <2>3. End(delivered'[r + 1]) = ptr'
    BY <1>1, <1>2, <1>3, <2>2 DEF End, k_report_hdr
  <2>4. ptr' <= total' /\ num_reports' = num_reports /\ num_reports \in Nat
        /\ num_reports <= k_max_reports
    BY <1>1, <1>3 DEF total, num_reports, Byte, HciInv, WalkInv
  <2>5. ptr = IF r = 0 THEN k_header_size ELSE End(delivered[r])
    BY DEF HciInv, Tiled
  <2>6. ASSUME NEW o \in 1..(r + 1)
        PROVE  delivered'[o].at = IF o = 1 THEN k_header_size ELSE End(delivered'[o - 1])
    <3>1. CASE o = r + 1
      BY <1>1, <1>2, <2>2, <2>5, <3>1 DEF End
    <3>2. CASE o # r + 1
      <4>1. o \in 1..r /\ (o # 1 => o - 1 \in 1..r)
        BY <1>1, <3>2
      <4>2. delivered[o].at = IF o = 1 THEN k_header_size ELSE End(delivered[o - 1])
        BY <4>1 DEF HciInv, Tiled
      <4> QED
        BY <2>2, <4>1, <4>2 DEF End
    <3> QED
      BY <3>1, <3>2
  <2> QED
    BY <1>1, <1>3, <2>2, <2>3, <2>4, <2>6 DEF Tiled
<1> QED
  BY <1>4, <1>5, <1>6 DEF HciInv

LEMMA HciStays == ASSUME HciInv, UNCHANGED hciVars PROVE HciInv'
BY DEF hciVars, HciInv, TypeOK, Tiled, WalkInv, num_reports, total, Byte

LEMMA HciStep == ASSUME HciInv, [Next]_vars PROVE HciInv'
<1>1. CASE UNCHANGED vars
  BY <1>1, HciStays DEF vars
<1>2. CASE Dispatcher
  BY <1>2, HeaderStep, EndStep DEF Dispatcher
<1>3. CASE Deliver
  BY <1>3, DispatchStep DEF Deliver
<1>4. CASE Driver
  BY <1>4, HciStays DEF Driver
<1> QED
  BY <1>1, <1>2, <1>3, <1>4 DEF Next

\* HciInv holds in every state of the thread.
LEMMA HciAlways == Spec => []HciInv
<1>1. Init => HciInv
  BY HciInvInit DEF Init
<1>2. HciInv /\ [Next]_vars => HciInv'
  BY HciStep
<1> QED
  BY <1>1, <1>2, PTL DEF Spec

\* The reports handed out follow each other from the fifth byte on without gap
\* or overlap and end inside the bytes that read() returned, whatever lengths
\* the event claims.
THEOREM ReportsTileTheEvent == Spec => []Tiled
<1>1. HciInv => Tiled
  BY DEF HciInv
<1> QED
  BY <1>1, HciAlways, PTL

\* What the callback is given is made of bytes received.
THEOREM ReportsWellTyped == Spec => []TypeOK
<1>1. HciInv => TypeOK
  BY DEF HciInv
<1> QED
  BY <1>1, HciAlways, PTL

-----------------------------------------------------------------------------
(* What is delivered.  While the walk goes on, the next report to read is  *)
(* the next one the controller wrote, and those before it were delivered   *)
(* as they were meant; when it stops, the next one did not arrive whole or *)
(* does not exist.                                                         *)

WholeInv ==
    /\ Carried(event.sent, total, event.bytes)
    /\ pc = "walk" => HeaderAccepted
    /\ r <= event.sent.whole
    /\ ptr = Start(event.sent, r + 1)
    /\ \A k \in 1..r : ReportOf(delivered[k]) = event.sent.reports[k]
    /\ DeliversWhole

\* The shape of what the controller meant.
LEMMA CarriedShape ==
    ASSUME NEW x, NEW n, NEW b, Carried(x, n, b)
    PROVE  /\ Len(x.reports) \in Nat /\ x.reports \in Seq(MeantReport)
           /\ \A k \in 1..Len(x.reports) :
                 x.reports[k] \in MeantReport /\ x.ends[k] \in Nat
           /\ x.whole \in 0..Len(x.reports)
<1>1. /\ x.reports \in Seq(MeantReport) /\ x.ends \in Seq(Nat)
      /\ Len(x.ends) = Len(x.reports) /\ x.whole \in 0..Len(x.reports)
  BY DEF Carried
<1> HIDE DEF MeantReport
<1>2. Len(x.reports) \in Nat
  BY <1>1, LenProperties
<1>3. \A k \in 1..Len(x.reports) : x.reports[k] \in MeantReport
  BY <1>1, ElementOfSeq
<1>4. \A k \in 1..Len(x.reports) : x.ends[k] \in Nat
  BY <1>1, ElementOfSeq
<1> QED
  BY <1>1, <1>2, <1>3, <1>4

LEMMA MeantFields ==
    ASSUME NEW m \in MeantReport
    PROVE  /\ m.addr \in Seq(0..255) /\ m.data \in Seq(0..255)
           /\ m.rssi \in -128..127
           /\ Len(m.data) \in Nat
           /\ m = [adv_type |-> m.adv_type, addr_type |-> m.addr_type, addr |-> m.addr,
                   data |-> m.data, rssi |-> m.rssi]
<1>1. m.addr \in Seq(0..255) /\ m.data \in Seq(0..255) /\ m.rssi \in -128..127
  BY DEF MeantReport
<1>2. m = [adv_type |-> m.adv_type, addr_type |-> m.addr_type, addr |-> m.addr,
           data |-> m.data, rssi |-> m.rssi]
  BY DEF MeantReport
<1>3. Len(m.data) \in Nat
  BY <1>1, LenProperties
<1> QED
  BY <1>1, <1>2, <1>3

LEMMA StartNat ==
    ASSUME NEW x, NEW n, NEW b, Carried(x, n, b), NEW k \in 1..(Len(x.reports) + 1)
    PROVE  Start(x, k) \in Nat
<1>1. Len(x.reports) \in Nat /\ \A m \in 1..Len(x.reports) : x.ends[m] \in Nat
  BY CarriedShape
<1>2. CASE k = 1
  BY <1>2 DEF Start, k_header_size
<1>3. CASE k # 1
  <2>1. k - 1 \in 1..Len(x.reports)
    BY <1>1, <1>3
  <2> QED  BY <1>1, <1>3, <2>1 DEF Start
<1> QED
  BY <1>2, <1>3

LEMMA StartNext ==
    ASSUME NEW x, NEW k \in Nat
    PROVE  Start(x, (k + 1) + 1) = x.ends[k + 1]
<1>1. (k + 1) + 1 # 1 /\ (k + 1) + 1 - 1 = k + 1
  OBVIOUS
<1> QED
  BY <1>1 DEF Start

\* Two's complement there and back.
LEMMA SignKept == ASSUME NEW v \in -128..127 PROVE int8(v % 256) = v
<1>1. CASE v >= 0
  <2>1. v % 256 = v
    BY <1>1
  <2> QED  BY <1>1, <2>1 DEF int8
<1>2. CASE v < 0
  <2>1. v % 256 = v + 256
    BY <1>2
  <2> QED  BY <1>2, <2>1 DEF int8
<1> QED
  BY <1>1, <1>2

\* Bytes that were written are read back.
LEMMA BytesAre ==
    ASSUME event \in Events, NEW o \in Nat, NEW s \in Seq(0..255),
           o + Len(s) <= total,
           \A c \in 1..Len(s) : event.bytes[o + c] = s[c]
    PROVE  Bytes(o, Len(s)) = s
<1> DEFINE n == Len(s)
           t == Bytes(o, n)
<1>1. n \in Nat
  BY LenProperties
<1>2. t \in Seq(0..255) /\ Len(t) = n
  BY <1>1, BytesInside
<1>3. ASSUME NEW c \in 1..n  PROVE t[c] = s[c]
  <2> DEFINE a == o + 1
             z == o + n
             e == event.bytes
  <2>1. a \in Int /\ z \in Int /\ z - a + 1 = n /\ a + c - 1 = o + c
    BY <1>1
  <2>2. \A q \in a..z : e[q] \in 0..255
    <3>1. e \in Seq(0..255) /\ total = Len(e)
      BY HciAssumption DEF total
    <3>2. \A q \in a..z : q \in 1..Len(e)
      BY <1>1, <3>1, LenProperties
    <3> QED  BY <3>1, <3>2, ElementOfSeq
  <2>3. t = SubSeq(e, a, z)
    BY DEF Bytes
  <2> HIDE DEF a, z, e, t, n
  <2>4. SubSeq(e, a, z)[c] = e[a + c - 1]
    BY <1>3, <2>1, <2>2, SubSeqProperties
  <2>5. e[o + c] = s[c]
    BY <1>3 DEF e, n
  <2> QED  BY <2>1, <2>3, <2>4, <2>5
<1> HIDE DEF t
<1>4. t = s
  BY <1>1, <1>2, <1>3, SeqEqual
<1> QED
  BY <1>4 DEF t

LEMMA LastByte ==
    ASSUME NEW a \in Nat, NEW n \in Nat
    PROVE  a + 9 + n + 1 = a + 10 + n
OBVIOUS

\* A report that arrived whole is handed over as it was meant.
LEMMA DeliveredAsMeant ==
    ASSUME event \in Events, Carried(event.sent, total, event.bytes),
           NEW k \in 1..Len(event.sent.reports), NEW at, at = Start(event.sent, k),
           NEW l, l = Len(event.sent.reports[k].data),
           event.sent.ends[k] <= total
    PROVE  ReportOf(Report(at, l)) = event.sent.reports[k]
<1> DEFINE m == event.sent.reports[k]
<1>1. Laid(event.sent, k, at, total, event.bytes)
  BY DEF Carried
<1>2. /\ event.sent.ends[k] = at + k_report_hdr + l
      /\ event.bytes[at + 1] = m.adv_type /\ event.bytes[at + 2] = m.addr_type
      /\ Len(m.addr) = 6 /\ \A c \in 1..6 : event.bytes[at + 2 + c] = m.addr[c]
      /\ \A c \in 1..l : event.bytes[at + 9 + c] = m.data[c]
      /\ event.bytes[at + 10 + l] = m.rssi % 256
  BY <1>1 DEF Laid
<1>3. m \in MeantReport /\ at \in Nat /\ total \in Nat
  <2>1. k \in 1..(Len(event.sent.reports) + 1)
    BY CarriedShape
  <2> QED  BY <2>1, CarriedShape, StartNat, TotalNat
<1> HIDE DEF m
<1>4. /\ m.addr \in Seq(0..255) /\ m.data \in Seq(0..255)
      /\ m.rssi \in -128..127 /\ l \in Nat /\ l = Len(m.data)
  BY <1>3, MeantFields DEF m
<1>5. at + 10 + l <= total
  BY <1>2 DEF k_report_hdr
<1>6. Bytes(at + 2, 6) = m.addr
  <2>1. at + 2 \in Nat /\ at + 2 + 6 <= total
    BY <1>3, <1>4, <1>5
  <2>2. m.addr \in Seq(0..255) /\ Len(m.addr) = 6
    BY <1>2, <1>4
  <2>3. \A c \in 1..Len(m.addr) : event.bytes[at + 2 + c] = m.addr[c]
    BY <1>2
  <2>4. Bytes(at + 2, Len(m.addr)) = m.addr
    BY <2>1, <2>2, <2>3, BytesAre
  <2> QED  BY <2>2, <2>4
<1>7. Bytes(at + 9, l) = m.data
  <2>1. at + 9 \in Nat /\ at + 9 + l <= total
    BY <1>3, <1>4, <1>5
  <2>2. m.data \in Seq(0..255) /\ Len(m.data) = l
    BY <1>4
  <2>3. \A c \in 1..Len(m.data) : event.bytes[at + 9 + c] = m.data[c]
    BY <1>2, <2>2
  <2>4. Bytes(at + 9, Len(m.data)) = m.data
    BY <2>1, <2>2, <2>3, BytesAre
  <2> QED  BY <2>2, <2>4
<1>8. int8(Byte(at + 9 + l)) = m.rssi
  <2>0. at \in Nat /\ l \in Nat
    BY <1>3, <1>4
  <2>1. at + 9 + l + 1 = at + 10 + l
    BY <2>0, LastByte
  <2>2. Byte(at + 9 + l) = m.rssi % 256
    BY <1>2, <2>1 DEF Byte
  <2> QED  BY <1>4, <2>2, SignKept
<1>9. Byte(at) = m.adv_type /\ Byte(at + 1) = m.addr_type
  <2>1. at + 1 + 1 = at + 2
    BY <1>3
  <2> QED  BY <1>2, <2>1 DEF Byte
<1>10. ReportOf(Report(at, l)) =
         [adv_type |-> m.adv_type, addr_type |-> m.addr_type, addr |-> m.addr,
          data |-> m.data, rssi |-> m.rssi]
  BY <1>6, <1>7, <1>8, <1>9 DEF ReportOf, Report
<1> QED
  BY <1>3, <1>10, MeantFields DEF m

\* Which reports the counts of the event tell to be whole.
LEMMA WholeCount ==
    ASSUME NEW x, NEW n, NEW b, Carried(x, n, b), NEW k \in 1..Len(x.reports)
    PROVE  /\ k <= x.whole <=> k <= x.claimed /\ x.ends[k] <= n
           /\ x.ends[k] = Start(x, k) + k_report_hdr + Len(x.reports[k].data)
           /\ Start(x, k) + k_report_hdr <= n =>
                b[Start(x, k) + 9] = Len(x.reports[k].data)
<1>1. Laid(x, k, Start(x, k), n, b) /\ (k <= x.whole <=> k <= x.claimed /\ x.ends[k] <= n)
  BY DEF Carried
<1> QED
  BY <1>1 DEF Laid

LEMMA HeaderTells ==
    ASSUME event \in Events, Carried(event.sent, total, event.bytes)
    PROVE  /\ HeaderAccepted <=> total > 15 /\ event.sent.advertising
           /\ total > 15 => num_reports = event.sent.claimed
<1>1. total \in Nat
  BY TotalNat
<1>2. total > 15 =>
         /\ event.sent.claimed = event.bytes[5]
         /\ event.sent.advertising <=>
               /\ event.bytes[1] = k_hci_event_pkt /\ event.bytes[2] = k_evt_le_meta
               /\ event.bytes[4] = k_le_adv_report_evt /\ event.sent.claimed # 0
  BY <1>1 DEF Carried, k_header_size
<1>3. total > 15 <=> total >= k_header_size + k_min_adv_report_size
  BY <1>1 DEF k_header_size, k_min_adv_report_size
<1>4. /\ Byte(0) = event.bytes[1] /\ Byte(1) = event.bytes[2]
      /\ Byte(3) = event.bytes[4] /\ Byte(4) = event.bytes[5]
  BY DEF Byte
<1> QED
  BY <1>2, <1>3, <1>4, Zenon DEF HeaderAccepted, num_reports

\* Where the walk stops, all that arrived whole has been taken.
LEMMA StopsAtWhole ==
    ASSUME HciInv, WholeInv, pc = "walk", ~(r < num_reports /\ ReportComplete)
    PROVE  r = event.sent.whole
<1> DEFINE x == event.sent
           k == r + 1
<1>1. /\ Carried(x, total, event.bytes) /\ r \in Nat /\ r <= x.whole
      /\ event \in Events /\ total \in Nat /\ ptr = Start(x, k)
  BY TotalNat DEF HciInv, WholeInv, TypeOK
<1>2. Len(x.reports) \in Nat /\ x.whole \in 0..Len(x.reports)
  BY <1>1, CarriedShape
<1> SUFFICES ASSUME r # x.whole  PROVE FALSE
  OBVIOUS
<1>3. k \in 1..Len(x.reports) /\ k <= x.whole
  BY <1>1, <1>2
<1> HIDE DEF k, x
<1>4. /\ k <= x.claimed /\ x.ends[k] <= total
      /\ x.ends[k] = ptr + k_report_hdr + Len(x.reports[k].data)
      /\ ptr + k_report_hdr <= total => event.bytes[ptr + 9] = Len(x.reports[k].data)
  BY <1>1, <1>3, WholeCount
<1>5. num_reports = x.claimed
  BY <1>1, HeaderTells DEF WholeInv, x
<1>6. num_reports \in Nat
  BY DEF HciInv, WalkInv
<1>7. r < num_reports
  BY <1>1, <1>4, <1>5, <1>6 DEF k
<1>8. ptr \in Nat /\ Len(x.reports[k].data) \in Nat
  BY <1>1, <1>3, CarriedShape, MeantFields DEF HciInv, TypeOK
<1>9. ptr + k_report_hdr <= total
  BY <1>1, <1>4, <1>8 DEF k_report_hdr
<1>10. data_len = Len(x.reports[k].data)
  <2>1. ptr + 8 + 1 = ptr + 9
    BY <1>8
  <2> QED  BY <1>4, <1>9, <2>1 DEF data_len, Byte
<1> QED
  BY <1>4, <1>7, <1>9, <1>10 DEF ReportComplete

\* What has been delivered as meant, so far as it goes, is a prefix of it.
LEMMA PrefixDelivered ==
    ASSUME HciInv, WholeInv, r = event.sent.whole
    PROVE  [o \in 1..Len(delivered) |-> ReportOf(delivered[o])] =
               SubSeq(event.sent.reports, 1, event.sent.whole)
<1> DEFINE x == event.sent
           s == [o \in 1..r |-> ReportOf(delivered[o])]
           t == SubSeq(x.reports, 1, r)
<1>1. /\ Carried(x, total, event.bytes) /\ r \in Nat /\ Len(delivered) = r
      /\ \A k \in 1..r : ReportOf(delivered[k]) = x.reports[k]
  BY DEF HciInv, WholeInv, TypeOK, Tiled
<1>2. /\ Len(x.reports) \in Nat /\ r \in 0..Len(x.reports)
      /\ \A k \in 1..Len(x.reports) : x.reports[k] \in MeantReport
  BY <1>1, CarriedShape
<1>3. \A k \in 1..r : x.reports[k] \in MeantReport
  BY <1>2
<1> HIDE DEF x
<1>4. \A k \in 1..r : s[k] = x.reports[k]
  BY <1>1
<1>5. s \in Seq(MeantReport) /\ Len(s) = r
  <2>1. s = [k \in 1..r |-> x.reports[k]]
    BY <1>1
  <2> DEFINE u == [k \in 1..r |-> x.reports[k]]
  <2>2. u \in [1..r -> MeantReport]
    BY <1>3
  <2> HIDE DEF u, s
  <2>3. u \in Seq(MeantReport) /\ Len(u) = r
    BY <1>1, <2>2
  <2> QED  BY <2>1, <2>3 DEF u
<1>6. /\ t \in Seq(MeantReport) /\ Len(t) = r
      /\ \A k \in 1..r : t[k] = x.reports[k]
  <2> DEFINE q == x.reports
  <2> HIDE DEF q
  <2>1. \A k \in 1..r : q[k] \in MeantReport
    BY <1>3 DEF q
  <2>2. /\ SubSeq(q, 1, r) \in Seq(MeantReport)
        /\ Len(SubSeq(q, 1, r)) = IF 1 <= r THEN r - 1 + 1 ELSE 0
        /\ \A k \in 1..r - 1 + 1 : SubSeq(q, 1, r)[k] = q[1 + k - 1]
    BY <1>1, <2>1, SubSeqProperties
  <2>3. r - 1 + 1 = r /\ (~(1 <= r) => r = 0) /\ \A k \in 1..r : 1 + k - 1 = k
    BY <1>1
  <2> QED  BY <2>2, <2>3 DEF q
<1> HIDE DEF s, t
<1>7. s = t
  <2>1. Len(s) = Len(t) /\ \A k \in 1..Len(s) : s[k] = t[k]
    BY <1>4, <1>5, <1>6
  <2> QED  BY <1>5, <1>6, <2>1, SeqEqual
<1> QED
  BY <1>1, <1>7 DEF s, t, x

LEMMA NothingDelivered ==
    ASSUME HciInv, r = 0
    PROVE  /\ [o \in 1..Len(delivered) |-> ReportOf(delivered[o])] = <<>>
           /\ delivered = <<>>
<1> DEFINE D == [at : Nat, adv_type : 0..255, addr_type : 0..255,
                 addr : Seq(0..255), data : Seq(0..255), rssi : -128..127]
<1>1. Len(delivered) = 0 /\ delivered \in Seq(D)
  BY DEF HciInv, Tiled, TypeOK
<1> HIDE DEF D
<1>2. delivered = <<>>
  BY <1>1, EmptySeq
<1>3. 1..Len(delivered) = {}
  BY <1>1
<1> QED
  BY <1>2, <1>3

\* An event too short for any report.
LEMMA TooShort ==
    ASSUME NEW x, NEW n \in Nat, NEW b, Carried(x, n, b), n < 15
    PROVE  Expected(x) = <<>>
<1>1. x.whole \in 0..Len(x.reports) /\ Len(x.reports) \in Nat
  BY CarriedShape
<1>2. x.whole = 0
  <2> SUFFICES ASSUME x.whole # 0  PROVE FALSE
    OBVIOUS
  <2>1. 1 \in 1..Len(x.reports) /\ 1 <= x.whole
    BY <1>1
  <2>2. /\ x.ends[1] <= n
        /\ x.ends[1] = Start(x, 1) + k_report_hdr + Len(x.reports[1].data)
    BY <2>1, WholeCount
  <2>3. Len(x.reports[1].data) \in Nat
    BY <2>1, CarriedShape, MeantFields
  <2>4. Start(x, 1) = 5
    BY DEF Start, k_header_size
  <2> QED  BY <2>2, <2>3, <2>4 DEF k_report_hdr
<1>3. SubSeq(x.reports, 1, 0) = <<>>
  BY <1>1, CarriedShape DEF MeantReport
<1> QED
  BY <1>2, <1>3 DEF Expected

LEMMA WholeInit ==
    ASSUME \A e \in Events : Carried(e.sent, Len(e.bytes), e.bytes), HciInit
    PROVE  WholeInv
<1>1. event \in Events /\ pc = "header" /\ r = 0 /\ ptr = k_header_size
  BY DEF HciInit
<1>2. Carried(event.sent, total, event.bytes)
  BY <1>1 DEF total
<1>3. r <= event.sent.whole /\ 1..r = {}
  BY <1>1, <1>2, CarriedShape
<1>4. ptr = Start(event.sent, r + 1)
  BY <1>1 DEF Start
<1> QED
  BY <1>1, <1>2, <1>3, <1>4 DEF WholeInv, DeliversWhole

LEMMA WholeHeaderStep == ASSUME HciInv, WholeInv, CheckHeader PROVE WholeInv'
<1>1. /\ event' = event /\ r' = r /\ ptr' = ptr /\ delivered' = delivered
      /\ pc = "header"
      /\ pc' = IF HeaderAccepted /\ num_reports <= k_max_reports THEN "walk" ELSE "done"
  BY DEF CheckHeader
<1>2. total' = total /\ (HeaderAccepted <=> HeaderAccepted')
  BY <1>1 DEF total, HeaderAccepted, Byte, num_reports
<1>3. DeliversWhole'
  <2> SUFFICES ASSUME pc' = "done"
               PROVE  /\ Expected(event.sent) = <<>> \/ total = 15
                      /\ [o \in 1..Len(delivered) |-> ReportOf(delivered[o])] = <<>>
                      /\ delivered = <<>>
    BY <1>1, <1>2 DEF DeliversWhole
  <2>1. r = 0
    BY <1>1 DEF HciInv, WalkInv
  <2>2. /\ HeaderAccepted <=> total > 15 /\ event.sent.advertising
        /\ total > 15 => num_reports = event.sent.claimed
        /\ event \in Events /\ total \in Nat
    BY HeaderTells, TotalNat DEF WholeInv, HciInv, TypeOK
  <2>3. ~(HeaderAccepted /\ num_reports <= k_max_reports)
    BY <1>1
  <2>4. ASSUME HeaderAccepted  PROVE event.sent.claimed > 15
    <3>1. 4 \in Nat /\ 4 < total
      BY <2>2, <2>4
    <3>2. num_reports \in 0..255
      BY <2>2, <3>1, ByteInside DEF num_reports
    <3> QED  BY <2>2, <2>3, <2>4, <3>2 DEF k_max_reports
  <2>5. ~HeaderAccepted => total < 15 \/ total = 15 \/ ~event.sent.advertising
    BY <2>2
  <2>6. total < 15 => Expected(event.sent) = <<>>
    BY <2>2, TooShort DEF WholeInv
  <2>7. ~event.sent.advertising \/ event.sent.claimed > 15 => Expected(event.sent) = <<>>
    BY DEF Expected
  <2> QED  BY <2>1, <2>4, <2>5, <2>6, <2>7, NothingDelivered
<1>4. pc' = "walk" => HeaderAccepted'
  BY <1>1, <1>2
<1> QED
  BY <1>1, <1>2, <1>3, <1>4 DEF WholeInv

LEMMA WholeEndStep == ASSUME HciInv, WholeInv, EndOfReports PROVE WholeInv'
<1>1. /\ event' = event /\ r' = r /\ ptr' = ptr /\ delivered' = delivered
      /\ pc = "walk" /\ pc' = "done" /\ ~(r < num_reports /\ ReportComplete)
  BY DEF EndOfReports
<1>2. total' = total
  BY <1>1 DEF total
<1>3. [o \in 1..Len(delivered) |-> ReportOf(delivered[o])] =
          SubSeq(event.sent.reports, 1, event.sent.whole)
  BY <1>1, StopsAtWhole, PrefixDelivered
<1>4. Expected(event.sent) = SubSeq(event.sent.reports, 1, event.sent.whole)
  <2>1. /\ HeaderAccepted <=> total > 15 /\ event.sent.advertising
        /\ total > 15 => num_reports = event.sent.claimed
        /\ total \in Nat
    BY HeaderTells, TotalNat DEF WholeInv, HciInv, TypeOK
  <2>2. HeaderAccepted /\ num_reports \in Nat /\ num_reports <= 15
    BY <1>1 DEF WholeInv, HciInv, WalkInv, k_max_reports
  <2>3. event.sent.advertising /\ ~(event.sent.claimed > 15)
    BY <2>1, <2>2
  <2> QED  BY <2>3 DEF Expected
<1>5. DeliversWhole'
  BY <1>1, <1>2, <1>3, <1>4 DEF DeliversWhole
<1> QED
  BY <1>1, <1>2, <1>5 DEF WholeInv

LEMMA WholeDispatchStep == ASSUME HciInv, WholeInv, DispatchReport PROVE WholeInv'
<1> DEFINE x == event.sent
           k == r + 1
           d == Report(ptr, data_len)
<1>1. /\ event' = event /\ pc' = pc /\ pc = "walk" /\ r' = r + 1 /\ r < num_reports
      /\ ptr' = ptr + 9 + data_len + 1 /\ delivered' = Append(delivered, d)
      /\ ptr + k_report_hdr <= total /\ ptr + k_report_hdr + data_len <= total
  BY DEF DispatchReport, ReportComplete
<1>2. /\ Carried(x, total, event.bytes) /\ r \in Nat /\ r <= x.whole
      /\ event \in Events /\ total \in Nat /\ ptr \in Nat /\ ptr = Start(x, k)
  BY TotalNat DEF HciInv, WholeInv, TypeOK
<1>3. Len(x.reports) \in Nat /\ x.whole \in 0..Len(x.reports)
  BY <1>2, CarriedShape
<1>4. num_reports = x.claimed /\ num_reports \in Nat
  BY <1>1, <1>2, HeaderTells DEF WholeInv, HciInv, WalkInv
<1>5. k \in 1..Len(x.reports)
  <2>1. x.claimed > Len(x.reports) => total < Start(x, Len(x.reports) + 1) + k_report_hdr
    BY <1>2 DEF Carried
  <2>2. ASSUME r = Len(x.reports)  PROVE FALSE
    <3>1. x.claimed > Len(x.reports)
      BY <1>1, <1>2, <1>3, <1>4, <2>2
    <3>2. total < ptr + k_report_hdr
      BY <1>2, <2>1, <2>2, <3>1
    <3> QED  BY <1>1, <1>2, <3>2 DEF k_report_hdr
  <2> QED  BY <1>2, <1>3, <2>2
<1> HIDE DEF x, k
<1>6. /\ k <= x.whole <=> k <= x.claimed /\ x.ends[k] <= total
      /\ x.ends[k] = ptr + k_report_hdr + Len(x.reports[k].data)
      /\ ptr + k_report_hdr <= total => event.bytes[ptr + 9] = Len(x.reports[k].data)
  BY <1>2, <1>5, WholeCount
<1>7. data_len = Len(x.reports[k].data) /\ data_len \in Nat
  <2>1. ptr + 8 + 1 = ptr + 9
    BY <1>2
  <2>2. data_len = Len(x.reports[k].data)
    BY <1>1, <1>6, <2>1 DEF data_len, Byte
  <2>3. Len(x.reports[k].data) \in Nat
    BY <1>2, <1>5, CarriedShape, MeantFields
  <2> QED  BY <2>2, <2>3
<1>8. x.ends[k] <= total /\ x.ends[k] = ptr'
  <2>1. ptr' = ptr + k_report_hdr + data_len
    <3>1. ptr + 9 + data_len + 1 = ptr + 10 + data_len
      BY <1>2, <1>7, LastByte
    <3> QED  BY <1>1, <3>1 DEF k_report_hdr
  <2> QED  BY <1>1, <1>6, <1>7, <2>1
<1>9. ReportOf(d) = x.reports[k]
  BY <1>2, <1>5, <1>7, <1>8, DeliveredAsMeant DEF x
<1> HIDE DEF d
<1>10. r' <= x.whole
  <2>1. k <= x.claimed
    BY <1>1, <1>2, <1>4 DEF k
  <2> QED  BY <1>1, <1>6, <1>8, <2>1 DEF k
<1>11. ptr' = Start(x, r' + 1)
  BY <1>1, <1>2, <1>8, StartNext DEF k
<1>12. \A m \in 1..r' : ReportOf(delivered'[m]) = x.reports[m]
  <2>1. /\ delivered \in Seq([at : Nat, adv_type : 0..255, addr_type : 0..255,
                              addr : Seq(0..255), data : Seq(0..255), rssi : -128..127])
        /\ Len(delivered) = r
    BY DEF HciInv, TypeOK, Tiled
  <2>2. delivered'[r + 1] = d /\ \A m \in 1..r : delivered'[m] = delivered[m]
    BY <1>1, <1>2, <2>1
  <2>3. \A m \in 1..r : ReportOf(delivered[m]) = x.reports[m]
    BY DEF WholeInv, x
  <2>4. \A m \in 1..(r + 1) : m = r + 1 \/ m \in 1..r
    BY <1>2
  <2> QED  BY <1>1, <1>9, <2>2, <2>3, <2>4 DEF k
<1>13. total' = total /\ (HeaderAccepted => HeaderAccepted')
  BY <1>1 DEF total, HeaderAccepted, Byte, num_reports
<1>15. DeliversWhole'
  BY <1>1 DEF DeliversWhole
<1>16. Carried(event'.sent, total', event'.bytes)
  BY <1>1, <1>2, <1>13 DEF x
<1>17. r' <= event'.sent.whole /\ ptr' = Start(event'.sent, r' + 1)
  BY <1>1, <1>10, <1>11 DEF x
<1>18. \A m \in 1..r' : ReportOf(delivered'[m]) = event'.sent.reports[m]
  BY <1>1, <1>12 DEF x
<1>19. pc' = "walk" => HeaderAccepted'
  BY <1>1, <1>13 DEF WholeInv
<1> QED
  BY <1>15, <1>16, <1>17, <1>18, <1>19 DEF WholeInv

LEMMA WholeStays == ASSUME WholeInv, UNCHANGED hciVars PROVE WholeInv'
<1>1. /\ event' = event /\ r' = r /\ ptr' = ptr /\ delivered' = delivered /\ pc' = pc
  BY DEF hciVars
<1>2. total' = total /\ (HeaderAccepted => HeaderAccepted')
  BY <1>1 DEF total, HeaderAccepted, Byte, num_reports
<1>3. DeliversWhole'
  BY <1>1, <1>2 DEF WholeInv, DeliversWhole
<1> QED
  BY <1>1, <1>2, <1>3 DEF WholeInv

LEMMA WholeStep ==
    ASSUME HciInv, WholeInv, [Next]_vars
    PROVE  WholeInv'
<1>1. CASE UNCHANGED vars
  BY <1>1, WholeStays DEF vars
<1>2. CASE Dispatcher
  BY <1>2, WholeHeaderStep, WholeEndStep DEF Dispatcher
<1>3. CASE Deliver
  BY <1>3, WholeDispatchStep DEF Deliver
<1>4. CASE Driver
  BY <1>4, WholeStays DEF Driver
<1> QED
  BY <1>1, <1>2, <1>3, <1>4 DEF Next

\* Whatever the number and the lengths of the reports and wherever the event
\* was cut off: the callback is given the reports that arrived whole, as the
\* controller meant them, and nothing else; only the event of 15 bytes may be
\* passed over.
THEOREM WholeReportsDelivered ==
    ASSUME \A e \in Events : Carried(e.sent, Len(e.bytes), e.bytes)
    PROVE  Spec => []DeliversWhole
<1>1. Init => WholeInv
  BY WholeInit DEF Init
<1>2. HciInv /\ WholeInv /\ [Next]_vars => WholeInv'
  BY WholeStep
<1>3. WholeInv => DeliversWhole
  BY DEF WholeInv
<1> QED
  BY <1>1, <1>2, <1>3, HciAlways, PTL DEF Spec

-----------------------------------------------------------------------------
(* What the driver makes of a report: its span lies in the event, and the  *)
(* byte behind it still does.                                              *)

\* A complete report hands over bytes.
LEMMA BufferInside ==
    ASSUME HciInv, ReportComplete
    PROVE  /\ data_len \in Nat
           /\ Buffer(event.bytes, ptr + 9, data_len) \in [0..data_len -> Octet]
<1>1. event \in Events /\ ptr \in Nat /\ total \in Nat
  BY TotalNat DEF HciInv, TypeOK
<1>2. ptr + 8 \in Nat /\ ptr + 8 < total
  BY <1>1 DEF ReportComplete, k_report_hdr
<1>3. data_len \in 0..255
  BY <1>1, <1>2, ByteInside DEF data_len
<1>4. ASSUME NEW k \in 0..data_len  PROVE event.bytes[ptr + 9 + k + 1] \in Octet
  <2>1. ptr + 9 + k \in Nat /\ ptr + 9 + k < total
    BY <1>1, <1>3 DEF ReportComplete, k_report_hdr
  <2>2. Byte(ptr + 9 + k) \in 0..255
    BY <1>1, <2>1, ByteInside
  <2> QED  BY <2>2 DEF Byte, Octet
<1> QED
  BY <1>3, <1>4 DEF Buffer

\* The loop's bound is wrong by one byte at most, in every report of every
\* event: no length that a structure claims moves the read position or the
\* returned span further past the advertisement than its signal strength.
THEOREM WrongByOneAtMost == Spec => []AtMostOnePast
<1>1. Init => AtMostOnePast
  BY OnePastInit DEF Init
<1>2. ASSUME HciInv, AtMostOnePast, [Next]_vars  PROVE AtMostOnePast'
  <2>1. CASE UNCHANGED adVars
    BY <1>2, <2>1, OnePastStep
  <2>2. CASE Deliver
    <3>1. ReportComplete /\ process_advertisement
      BY <2>2 DEF Deliver, DispatchReport
    <3> DEFINE b == Buffer(event.bytes, ptr + 9, data_len)
    <3>2. data_len \in Nat /\ b \in [0..data_len -> Octet]
      BY <1>2, <3>1, BufferInside
    <3>3. \/ extract_manufacturer_data(AdsOf(r + 1), data_len, b)
          \/ UNCHANGED adVars
      BY <3>1 DEF process_advertisement
    <3> HIDE DEF b
    <3>4. CASE extract_manufacturer_data(AdsOf(r + 1), data_len, b)
      BY <3>2, <3>4, OnePastCall
    <3> QED  BY <2>1, <3>3, <3>4
  <2>3. CASE Driver
    BY <1>2, <2>3, OnePastStep DEF Driver
  <2> QED
    BY <1>2, <2>1, <2>2, <2>3 DEF Next, Dispatcher, vars
<1> QED
  BY <1>1, <1>2, HciAlways, PTL DEF Spec

\* The walk starts on what the transmitter wrote into the report delivered.
LEMMA CallCarries ==
    ASSUME HciInv, WholeInv, AdsCarried(event), DispatchReport
    PROVE  Carries(AdsOf(r + 1), data_len, Buffer(event.bytes, ptr + 9, data_len))
<1> DEFINE x == event.sent
           k == r + 1
<1>1. WholeInv'
  BY WholeDispatchStep
<1>2. /\ event' = event /\ r' = k /\ delivered' = Append(delivered, Report(ptr, data_len))
      /\ ReportComplete
  BY DEF DispatchReport
<1>3. k <= x.whole /\ r \in Nat /\ event \in Events /\ ptr = Start(x, k)
  BY <1>1, <1>2 DEF WholeInv, HciInv, TypeOK
<1>4. Carried(x, total, event.bytes) /\ x.whole \in Nat /\ Len(x.reports) \in Nat
      /\ x.whole <= Len(x.reports)
  BY CarriedShape DEF WholeInv
<1>5. k \in 1..x.whole /\ k \in 1..Len(x.reports)
  BY <1>3, <1>4
<1> HIDE DEF k, x
<1>6. data_len = Len(x.reports[k].data)
  <2>1. ptr + k_report_hdr <= total /\ ptr \in Nat
    BY <1>2 DEF ReportComplete, HciInv, TypeOK
  <2>2. event.bytes[ptr + 9] = Len(x.reports[k].data)
    BY <1>3, <1>4, <1>5, <2>1, WholeCount
  <2>3. ptr + 8 + 1 = ptr + 9
    BY <2>1
  <2> QED  BY <2>2, <2>3 DEF data_len, Byte
<1>7. /\ k \in DOMAIN x.ads
      /\ Carries(x.ads[k], data_len, Buffer(event.bytes, ptr + 9, data_len))
  BY <1>3, <1>5, <1>6 DEF AdsCarried, x
<1> QED
  BY <1>7 DEF AdsOf, k, x

\* Whatever reports an event has, and whatever the number, the types and the
\* lengths of the structures in them and wherever these were cut off: of each
\* the driver gets the payload of the first EnOcean structure if that arrived
\* whole, and never anything but that.
THEOREM FirstExtracted ==
    ASSUME \A e \in Events : Carried(e.sent, Len(e.bytes), e.bytes) /\ AdsCarried(e)
    PROVE  Spec => []ExtractsFirst
<1>1. Init => WholeInv /\ FindInv
  BY WholeInit, FindInit DEF Init
<1>2. ASSUME HciInv, WholeInv, AtMostOnePast, FindInv, [Next]_vars
      PROVE  WholeInv' /\ FindInv'
  <2>0. WholeInv'
    BY <1>2, WholeStep
  <2>1. CASE UNCHANGED adVars
    BY <1>2, <2>0, <2>1, FindStep
  <2>2. CASE Deliver
    <3>1. DispatchReport /\ process_advertisement
      BY <2>2 DEF Deliver
    <3>2. AdsCarried(event)
      BY <1>2 DEF HciInv, TypeOK
    <3> DEFINE b == Buffer(event.bytes, ptr + 9, data_len)
               s == AdsOf(r + 1)
    <3>3. Carries(s, data_len, b)
      BY <1>2, <3>1, <3>2, CallCarries
    <3>4. extract_manufacturer_data(s, data_len, b) \/ UNCHANGED adVars
      BY <3>1 DEF process_advertisement
    <3> HIDE DEF b, s
    <3>5. CASE extract_manufacturer_data(s, data_len, b)
      BY <2>0, <3>3, <3>5, FindCall
    <3> QED  BY <2>1, <3>4, <3>5
  <2>3. CASE Driver
    BY <1>2, <2>0, <2>3, FindStep DEF Driver
  <2> QED
    BY <1>2, <2>1, <2>2, <2>3 DEF Next, Dispatcher, vars
<1>3. FindInv => ExtractsFirst
  BY DEF FindInv
<1> QED
  BY <1>1, <1>2, <1>3, HciAlways, WrongByOneAtMost, PTL DEF Spec

=============================================================================
