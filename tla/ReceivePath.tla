----------------------------- MODULE ReceivePath -----------------------------
(***************************************************************************)
(* One HCI event on the scan thread: HciReports hands each report to the   *)
(* driver's callback, which looks for EnOcean's manufacturer data in it    *)
(* (AdParser) before the next report is taken.  The span the driver gets   *)
(* lies in the read buffer, so what follows it is the signal strength.     *)
(***************************************************************************)
EXTENDS HciReports, AdParser

vars == <<hciVars, adVars>>

k_adv_nonconn_ind == 3
k_addr_random == 1

Init == HciInit /\ AdInit

\* n bytes of the read buffer from offset o on, and the one behind them.
Buffer(b, o, n) == [k \in 0..n |-> b[o + k + 1]]

\* The structures that the transmitter wrote into report k.
AdsOf(k) == IF k \in DOMAIN event.sent.ads THEN event.sent.ads[k] ELSE <<>>

\* advertisement_cb: process_advertisement up to the call of
\* extract_manufacturer_data, for the report r of the event.
process_advertisement ==
    IF Byte(ptr) = k_adv_nonconn_ind /\ Byte(ptr + 1) = k_addr_random
      THEN extract_manufacturer_data(
             AdsOf(r + 1), data_len, Buffer(event.bytes, ptr + 9, data_len))
      ELSE UNCHANGED adVars

Deliver == ~walking /\ DispatchReport /\ process_advertisement

Dispatcher == ~walking /\ (CheckHeader \/ EndOfReports) /\ UNCHANGED adVars

Driver == AdNext /\ UNCHANGED hciVars

Next == Dispatcher \/ Deliver \/ Driver

\* Straight-line code of one thread, until the next read().
Spec == Init /\ [][Next]_vars /\ WF_vars(Next)

-----------------------------------------------------------------------------
(* Properties.                                                             *)

\* The thread gets back to read(), and no callback keeps it, whatever lengths
\* the event and the advertisements claim.
Returns == <>(pc = "done" /\ ~walking)

\* The data of every report that arrived whole carry the structures that its
\* transmitter wrote.
AdsCarried(e) ==
    \A k \in 1..e.sent.whole :
        /\ k \in DOMAIN e.sent.ads
        /\ LET n == Len(e.sent.reports[k].data)
           IN  Carries(e.sent.ads[k], n, Buffer(e.bytes, Start(e.sent, k) + 9, n))

=============================================================================
