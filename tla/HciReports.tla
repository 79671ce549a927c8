----------------------------- MODULE HciReports -----------------------------
(***************************************************************************)
(* What the POSIX scanner does with the bytes of one read(): scan_loop     *)
(* looks at the header, dispatch_adv_report walks the advertising reports  *)
(* behind it and hands each to the callback.  Every length comes from the  *)
(* air.  Offsets count from 0, as in the code.  What the callback does     *)
(* is in ReceivePath.                                                      *)
(***************************************************************************)
EXTENDS Naturals, Integers, Sequences

CONSTANT Events    \* [bytes: what read() returned, sent: what the controller meant]

ASSUME HciAssumption == \A e \in Events : e.bytes \in Seq(0..255)

VARIABLES
    event,        \* the event being handled
    pc,           \* "header", "walk", "done"
    r,            \* reports taken so far
    ptr,          \* offset of the next report
    delivered     \* arguments of the callbacks made, with their offsets

hciVars == <<event, pc, r, ptr, delivered>>

k_hci_event_pkt == 4
k_evt_le_meta == 62
k_le_adv_report_evt == 2
k_min_adv_report_size == 11
k_header_size == 5
k_report_hdr == 10
\* Faulty variant: one report fewer.
k_max_reports_Fewer == 14
k_max_reports == 15

total == Len(event.bytes)
Byte(o) == event.bytes[o + 1]
Bytes(o, n) == SubSeq(event.bytes, o + 1, o + n)
num_reports == Byte(4)
data_len == Byte(ptr + 8)
int8(b) == IF b < 128 THEN b ELSE b - 256

HciInit ==
    /\ event \in Events
    /\ pc = "header" /\ r = 0 /\ ptr = k_header_size /\ delivered = <<>>

\* The header is looked at only when a whole smallest report follows it.
HeaderAccepted ==
    /\ total >= k_header_size + k_min_adv_report_size
    /\ Byte(0) = k_hci_event_pkt
    /\ Byte(1) = k_evt_le_meta
    /\ Byte(3) = k_le_adv_report_evt
    /\ num_reports # 0

CheckHeader ==
    /\ pc = "header"
    /\ pc' = IF HeaderAccepted /\ num_reports <= k_max_reports THEN "walk" ELSE "done"
    /\ UNCHANGED <<event, r, ptr, delivered>>

ReportComplete ==
    /\ ptr + k_report_hdr <= total
    /\ ptr + k_report_hdr + data_len <= total

\* callback_(addr, addr_type, adv_type, rssi, data)
Report(at, n) ==
    [at |-> at, adv_type |-> Byte(at), addr_type |-> Byte(at + 1),
     addr |-> Bytes(at + 2, 6), data |-> Bytes(at + 9, n),
     rssi |-> int8(Byte(at + 9 + n))]

\* Faulty variant: the signal strength behind the data is not skipped.
DispatchReport_KeepsRssi ==
    /\ pc = "walk"
    /\ r < num_reports
    /\ ReportComplete
    /\ delivered' = Append(delivered, Report(ptr, data_len))
    /\ ptr' = ptr + 9 + data_len
    /\ r' = r + 1
    /\ UNCHANGED <<event, pc>>

DispatchReport ==
    /\ pc = "walk"
    /\ r < num_reports
    /\ ReportComplete
    /\ delivered' = Append(delivered, Report(ptr, data_len))
    /\ ptr' = ptr + 9 + data_len + 1
    /\ r' = r + 1
    /\ UNCHANGED <<event, pc>>

EndOfReports ==
    /\ pc = "walk"
    /\ ~(r < num_reports /\ ReportComplete)
    /\ pc' = "done"
    /\ UNCHANGED <<event, r, ptr, delivered>>

-----------------------------------------------------------------------------
(* Properties.                                                             *)

TypeOK ==
    /\ event \in Events
    /\ pc \in {"header", "walk", "done"}
    /\ r \in Nat /\ ptr \in Nat
    /\ delivered \in Seq([at : Nat, adv_type : 0..255, addr_type : 0..255,
                          addr : Seq(0..255), data : Seq(0..255), rssi : -128..127])

\* dispatch_adv_report cuts the event into reports that follow each other
\* without gap or overlap from the fifth byte on, and the last of them, its
\* signal strength included, ends inside what read() returned: whatever
\* lengths the reports claim, no callback sees a byte that was not received.
End(d) == d.at + k_report_hdr + Len(d.data)
Tiled ==
    /\ r = Len(delivered)
    /\ r # 0 => r <= num_reports /\ num_reports <= k_max_reports
    /\ ptr = IF r = 0 THEN k_header_size ELSE End(delivered[r])
    /\ r # 0 => ptr <= total
    /\ \A k \in 1..r :
          delivered[k].at = IF k = 1 THEN k_header_size ELSE End(delivered[k - 1])

\* The bytes of event e carry the reports that its controller meant, as far as
\* they were not cut off: one after the other behind the header, each with the
\* length of its data before the data and the signal strength, in two's
\* complement, behind.  Report k of x ends before offset x.ends[k]; an event
\* that claims more reports than it has holds no further report header.
MeantReport ==
    [adv_type : 0..255, addr_type : 0..255, addr : Seq(0..255),
     data : Seq(0..255), rssi : -128..127]
Start(x, k) == IF k = 1 THEN k_header_size ELSE x.ends[k - 1]
Laid(x, k, at, n, b) ==
    LET m == x.reports[k]
        l == Len(m.data)
    IN  /\ x.ends[k] = at + k_report_hdr + l
        /\ at + k_report_hdr <= n => b[at + 9] = l
        /\ x.ends[k] <= n =>
             /\ b[at + 1] = m.adv_type /\ b[at + 2] = m.addr_type
             /\ Len(m.addr) = 6 /\ \A c \in 1..6 : b[at + 2 + c] = m.addr[c]
             /\ \A c \in 1..l : b[at + 9 + c] = m.data[c]
             /\ b[at + 10 + l] = m.rssi % 256
Carried(x, n, b) ==
    /\ x.reports \in Seq(MeantReport)
    /\ x.ends \in Seq(Nat) /\ Len(x.ends) = Len(x.reports)
    /\ x.whole \in 0..Len(x.reports)
    /\ \A k \in 1..Len(x.reports) : k <= x.whole <=> k <= x.claimed /\ x.ends[k] <= n
    /\ n >= k_header_size =>
         /\ x.claimed = b[5]
         /\ x.advertising <=> /\ b[1] = k_hci_event_pkt /\ b[2] = k_evt_le_meta
                              /\ b[4] = k_le_adv_report_evt /\ x.claimed # 0
    /\ \A k \in 1..Len(x.reports) : Laid(x, k, Start(x, k), n, b)
    /\ x.claimed > Len(x.reports) => n < Start(x, Len(x.reports) + 1) + k_report_hdr

\* The callback gets, in order, every report that the controller put into the
\* event and that arrived whole, with its own address, data and signal
\* strength, and nothing else, if the bytes carry what the controller meant.
\* An event of other kinds or of more than k_max_reports reports is left alone.
\* Of the smallest event that holds a report, 15 bytes long, it says only that
\* nothing else is delivered: ShortestDelivered is about that one.
ReportOf(d) ==
    [adv_type |-> d.adv_type, addr_type |-> d.addr_type, addr |-> d.addr,
     data |-> d.data, rssi |-> d.rssi]
Expected(x) ==
    IF ~x.advertising \/ x.claimed > 15 THEN <<>> ELSE SubSeq(x.reports, 1, x.whole)
DeliversWhole ==
    pc = "done" =>
        \/ [k \in 1..Len(delivered) |-> ReportOf(delivered[k])] = Expected(event.sent)
        \/ total = 15 /\ delivered = <<>>

\* What the comments at scan_loop's first test and at k_min_adv_report_size say:
\* the 5-byte header and at least one full advertising report are enough for an
\* event to be looked at.
ShortestDelivered ==
    pc = "done" /\ Expected(event.sent) # <<>> => delivered # <<>>

=============================================================================
