---------------------------- MODULE DeviceRegistry ----------------------------
(***************************************************************************)
(* What EnoceanDriver promises its application, without slots, keys, tags  *)
(* or payload layouts: a registry of at most Capacity addresses, joined    *)
(* only while the registry is open, each with a counter that only grows,   *)
(* and a record of what the application was told that grows by one event   *)
(* per accepted counter value at most.                                     *)
(***************************************************************************)
EXTENDS Integers, Sequences, FiniteSets

CONSTANTS Addr, MaxSeq, Capacity

VARIABLES
    last,   \* per address the last counter value accepted, Absent if unknown
    open,   \* may addresses join?
    told    \* per address the events reported since the registry was cleared

Absent == -1
Members == {a \in Addr : last[a] # Absent}

Report(a, kind, s) ==
    told' = [told EXCEPT ![a] = Append(@, [kind |-> kind, seq |-> s])]

Init ==
    /\ last = [a \in Addr |-> Absent]
    /\ open = FALSE
    /\ told = [a \in Addr |-> <<>>]

Clear ==
    /\ last' = [a \in Addr |-> Absent]
    /\ open' = FALSE
    /\ told' = [a \in Addr |-> <<>>]

SetOpen ==
    /\ open' \in BOOLEAN
    /\ UNCHANGED <<last, told>>

Join(a, s) ==
    /\ open
    /\ a \notin Members
    /\ Cardinality(Members) < Capacity
    /\ last' = [last EXCEPT ![a] = s]
    /\ Report(a, "commissioned", s) \/ told' = told
    /\ UNCHANGED open

\* A larger counter value is accepted; the application may or may not hear.
Accept(a, s) ==
    /\ a \in Members
    /\ s > last[a]
    /\ last' = [last EXCEPT ![a] = s]
    /\ Report(a, "button", s) \/ Report(a, "sensor", s) \/ told' = told
    /\ UNCHANGED open

Next ==
    \/ Clear
    \/ SetOpen
    \/ \E a \in Addr, s \in 0..MaxSeq : Join(a, s) \/ Accept(a, s)

Spec == Init /\ [][Next]_<<last, open, told>>

=============================================================================
