--------------------------- MODULE MCEnoceanSystem ---------------------------
(***************************************************************************)
(* A switch and a sensor, each of which may be reset once and given the    *)
(* other key.                                                              *)
(***************************************************************************)
EXTENDS EnoceanSystem

MCSwitch == <<226, 21, 1>>   \* a PTM-216B
MCSensor == <<229, 0, 1>>    \* an STM-550B
MCAddr == {MCSwitch, MCSensor}
MCKey == {"k1", "k2"}
MCRssi == {1}
MCCallbacks == {"commissioned", "button", "sensor"}

MCPayload(size, s, marker, keyAt, k, tag) ==
    [size |-> size, seq |-> s, marker |-> marker, keyAt |-> keyAt, key |-> k,
     reserved |-> TRUE, tag |-> tag]

MCPayloads(a) ==
    UNION {{MCPayload(9, s, FALSE, 0, k, [key |-> k, addr |-> a, seq |-> s]),
            MCPayload(9, s, FALSE, 0, k, BadTag),
            IF a = MCSensor THEN MCPayload(27, s, TRUE, 5, k, BadTag)
                            ELSE MCPayload(22, s, FALSE, 4, k, BadTag)} :
              s \in Seqs, k \in MCKey}

MCAdverts ==
    UNION {{[addr |-> a, addr_size |-> 6, addr_type |-> 1, adv_type |-> 3,
             rssi |-> 1, payload |-> p] : p \in MCPayloads(a)} : a \in MCAddr}

=============================================================================
