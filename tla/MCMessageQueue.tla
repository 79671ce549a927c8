--------------------------- MODULE MCMessageQueue ---------------------------
EXTENDS MessageQueue, TLC

\* The objects differ in nothing but their names, which are chosen at the start.
Symmetry == Permutations(Objects)

MCClocks ==
    {[tv_sec |-> 7, tv_nsec |-> 999000000], [tv_sec |-> 8, tv_nsec |-> 999500000]}

S(via, op, arg) == [via |-> via, op |-> op, arg |-> arg]

\* First stages are and_then on a handler that holds a value.
MCPrograms ==
    {[careful |-> FALSE, stages |-> <<S("and_then", "init", 0)>>],
     [careful |-> FALSE,
      stages |-> <<S("and_then", "init", 1), S("transform", "keep", 0),
                   S("and_then", "send", 1)>>],
     [careful |-> FALSE,
      stages |-> <<S("and_then", "send", 1500), S("or_else", "send", 0),
                   S("transform_error", "keep", 0)>>],
     [careful |-> TRUE, stages |-> <<S("and_then", "send", 9999)>>],
     [careful |-> FALSE,
      stages |-> <<S("and_then", "receive", 0), S("or_else", "receive", 1001)>>]}
=============================================================================
