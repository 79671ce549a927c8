---------------------------- MODULE MCReceivePath ----------------------------
(***************************************************************************)
(* HCI events of up to three reports, cut at every length, and of 14 to    *)
(* 16; and events of one report whose data are up to three AD structures   *)
(* of every kind, followed by nothing or by zero padding, and cut short at *)
(* every length.                                                           *)
(***************************************************************************)
EXTENDS ReceivePath, SequencesExt, FiniteSetsExt

-----------------------------------------------------------------------------
(* Advertising data.                                                       *)

\* data: the structure after its length byte, the first three of which are
\* type and company when the structure is EnOcean's.
Structure(data, enocean) ==
    [bytes |-> <<Len(data)>> \o data, enocean |-> enocean]

\* Flags, a structure without data, manufacturer data of another company (its
\* bytes look like an EnOcean structure one byte later), the EnOcean company
\* ID under another type, and EnOcean payloads of 0, 1 and 3 bytes.
Structures ==
    {Structure(<<1, 6>>, FALSE), Structure(<<9>>, FALSE),
     Structure(<<255, 218, 4, 255, 218, 3>>, FALSE),
     Structure(<<22, 218, 3, 7>>, FALSE),
     Structure(<<255, 218, 3>>, TRUE),
     Structure(<<255, 218, 3, 5>>, TRUE),
     Structure(<<255, 218, 3, 4, 255, 218>>, TRUE)}

Manufacturer == {s \in Structures : s.bytes[2] = 255}

Lists == {<<>>} \cup {<<a>> : a \in Structures} \cup (Structures \X Structures)
           \cup (Structures \X Structures \X Manufacturer)

Written(l) == FlattenSeq([k \in DOMAIN l |-> l[k].bytes])

Sent(l) ==
    [k \in DOMAIN l |->
       LET end == Len(Written(SubSeq(l, 1, k)))
           n   == Len(l[k].bytes) - 4
       IN  [end |-> end, enocean |-> l[k].enocean,
            payload |-> [start |-> end - n, len |-> n]]]

\* n bytes of b, padded with zeros beyond its end.
Cut(b, n) == [k \in 1..n |-> IF k <= Len(b) THEN b[k] ELSE 0]

-----------------------------------------------------------------------------
(* Reports and events.                                                     *)

\* Reports as the controller means them; the address tells them apart.
MeantAs(adv_type, k, data, rssi) ==
    [adv_type |-> adv_type, addr_type |-> 1, addr |-> [c \in 1..6 |-> k],
     data |-> data, rssi |-> rssi]

\* Data of 0, 1 and 3 bytes: nothing, padding, and one structure.
Meant(k, n) ==
    MeantAs(IF k = 3 THEN 0 ELSE 3, k, IF n = 3 THEN <<2, 1, k>> ELSE Cut(<<>>, n),
            IF k % 2 = 0 THEN -60 ELSE 5)

Encode(m) ==
    <<m.adv_type, m.addr_type>> \o m.addr \o <<Len(m.data)>> \o m.data
        \o <<IF m.rssi < 0 THEN m.rssi + 256 ELSE m.rssi>>

Encoded(ms) == FlattenSeq([k \in 1..Len(ms) |-> Encode(ms[k])])

Event(header, claimed, ms, ads, cut) ==
    LET all == header \o <<claimed>> \o Encoded(ms)
        n == Min({cut, Len(all)})
        ends == [k \in 1..Len(ms) |-> 5 + Len(Encoded(SubSeq(ms, 1, k)))]
    IN  [bytes |-> SubSeq(all, 1, n),
         sent |-> [advertising |-> header = <<4, 62, 0, 2>> /\ claimed # 0,
                   claimed |-> claimed, reports |-> ms, ends |-> ends, ads |-> ads,
                   whole |-> Cardinality({k \in 1..Len(ms) :
                                            k <= claimed /\ ends[k] <= n})]]

Good == <<4, 62, 0, 2>>
Lengths == UNION {[1..k -> {0, 1, 3}] : k \in 1..3}
Meants(ls) == [k \in 1..Len(ls) |-> Meant(k, ls[k])]
Flags == Sent(<<Structure(<<1, 6>>, FALSE)>>)
AdsIn(ls) == [k \in 1..Len(ls) |-> IF ls[k] = 3 THEN Flags ELSE <<>>]
Empties(k) == [c \in 1..k |-> 0]
EventOf(header, claimed, ls, cut) == Event(header, claimed, Meants(ls), AdsIn(ls), cut)

\* One report, from a list of structures of which n bytes were sent on; the
\* signal strength behind them may look like a type byte.
Advertised(l) ==
    LET b == Written(l)
        s == Sent(l)
    IN  {Event(Good, 1, <<MeantAs(3, 1, Cut(b, n), rssi)>>, <<s>>, 1000) :
           n \in 0..(Len(b) + 2), rssi \in {0, -1}}

MCEvents ==
    UNION {{EventOf(Good, c, ls, cut) : c \in {Len(ls) - 1, Len(ls), Len(ls) + 1},
                                        cut \in 0..45} : ls \in Lengths}
    \cup {EventOf(h, 1, <<3>>, 100) :
            h \in {<<2, 62, 0, 2>>, <<4, 14, 0, 2>>, <<4, 62, 0, 1>>}}
    \cup {EventOf(Good, k, Empties(k), 1000) : k \in {14, 15, 16}}
    \cup UNION {Advertised(l) : l \in Lists}

\* What DeliversWhole and ExtractsFirst ask of controller and transmitters.
ASSUME EventsCarried ==
    \A e \in Events : Carried(e.sent, Len(e.bytes), e.bytes) /\ AdsCarried(e)

=============================================================================
