--------------------------- MODULE MCEnoceanDriver ---------------------------
(***************************************************************************)
(* A small instance of EnoceanDriver: two slots for three devices (so that *)
(* the table fills up), three sequence numbers of which the last stands    *)
(* for UINT32_MAX, two keys, and telegrams of every product the driver     *)
(* knows, genuine, tampered with, replayed and in any order.               *)
(***************************************************************************)
EXTENDS EnoceanDriver

MCSwitch == <<226, 21, 1>>   \* a PTM-216B
MCSensor == <<229, 0, 1>>    \* an STM-550B
\* An unrecognised product whose address equals the cleared address of a slot.
MCOther == <<0, 0, 0>>
MCAddr == {MCSwitch, MCSensor, MCOther}
MCKey == {"k1", "k2"}
MCRssi == {1, 2}
MCCallbacks == {"commissioned", "button", "sensor"}

MCTags(a, s) == {[key |-> k, addr |-> a, seq |-> s] : k \in MCKey} \cup {BadTag}

MCPayload(size, s, marker, keyAt, k, reserved, tag) ==
    [size |-> size, seq |-> s, marker |-> marker, keyAt |-> keyAt, key |-> k,
     reserved |-> reserved, tag |-> tag]

\* The commissioning telegrams of the products: a PTM writes its key at offset
\* 4, where the key's first byte may happen to be 0x3E; an STM-550B writes the
\* marker 0x3E first and sends 27 bytes.
MCCommissioning(a, s) ==
    IF a = MCSensor
      THEN {MCPayload(27, s, TRUE, 5, k, TRUE, BadTag) : k \in MCKey}
      ELSE {MCPayload(size, s, m, 4, k, TRUE, BadTag) :
              size \in {22, 26}, m \in BOOLEAN, k \in MCKey}

\* Data telegrams: switch lengths with 0, 3 and 4 bytes of optional data and
\* one byte too many, the reserved bits set or not; sensor reports short and
\* as long as a commissioning telegram.
MCData(a, s) ==
    IF a = MCSwitch
      THEN {MCPayload(size, s, FALSE, 0, "k1", r, tag) :
              size \in {9, 12, 13, 14}, r \in BOOLEAN, tag \in MCTags(a, s)}
      ELSE {MCPayload(size, s, FALSE, 0, "k1", TRUE, tag) :
              size \in {8, 9} \cup (IF a = MCSensor THEN {22, 27} ELSE {}),
              tag \in MCTags(a, s)}

MCAdvert(a, r, p) ==
    [addr |-> a, addr_size |-> 6, addr_type |-> 1, adv_type |-> 3, rssi |-> r,
     payload |-> p]

MCOwn == UNION {{MCAdvert(a, r, p) : r \in MCRssi,
                   p \in MCCommissioning(a, s) \cup MCData(a, s)} :
                     a \in MCAddr, s \in Seqs}

\* The same telegrams in a connectable PDU, from a public address, and with an
\* address of the wrong length.
MCForeign == UNION {{[t EXCEPT !.adv_type = 0], [t EXCEPT !.addr_type = 0],
                     [t EXCEPT !.addr_size = 5]} :
                      t \in {u \in MCOwn : u.rssi = 1 /\ u.payload.seq = 2}}

MCAdverts == MCOwn \cup MCForeign

\* What KeysAsTransmitted asks of the transmitters.
ASSUME AdvertsWellFormed == \A t \in Adverts : WellFormed(t)

=============================================================================
