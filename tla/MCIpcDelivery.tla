--------------------------- MODULE MCIpcDelivery ---------------------------
(***************************************************************************)
(* Model-checking instance of IpcDelivery: two senders and two receiver   *)
(* threads on one port.  The option sets cover each wait macro (timeout,  *)
(* interruptible, killable), both target right types, and a message      *)
(* larger than one receiver's limit, with and without MACH_RCV_LARGE.     *)
(***************************************************************************)
EXTENDS IpcDelivery, TLC

CONSTANTS s1, s2, r1, r2

MCSenders == {s1, s2}
MCReceivers == {r1, r2}

\* [rt: target right type, size: message size, timeout: MACH_SEND_TIMEOUT
\*  with a non-zero timeout, intr: MACH_SEND_INTERRUPT]
MCSendOptions ==
  { [rt |-> "SEND",      size |-> 1, timeout |-> TRUE,  intr |-> FALSE],
    [rt |-> "SEND",      size |-> 1, timeout |-> FALSE, intr |-> TRUE],
    [rt |-> "SEND",      size |-> 2, timeout |-> FALSE, intr |-> FALSE],
    [rt |-> "SEND_ONCE", size |-> 1, timeout |-> FALSE, intr |-> FALSE] }

\* [limit: receive_limit, timeout: MACH_RCV_TIMEOUT, intr: MACH_RCV_INTERRUPT,
\*  large: MACH_RCV_LARGE]
MCRecvOptions ==
  { [limit |-> 1, timeout |-> TRUE,  intr |-> FALSE, large |-> FALSE],
    [limit |-> 2, timeout |-> FALSE, intr |-> FALSE, large |-> FALSE],
    [limit |-> 1, timeout |-> FALSE, intr |-> TRUE,  large |-> TRUE] }

MCMaxRecvCalls == 2
MCLiveMaxRecvCalls == 1

\* Smaller option sets for the liveness run: a timed and a killable wait on
\* each side, every message fits.
MCLiveSendOptions ==
  { [rt |-> "SEND", size |-> 1, timeout |-> TRUE,  intr |-> FALSE],
    [rt |-> "SEND", size |-> 1, timeout |-> FALSE, intr |-> FALSE] }

MCLiveRecvOptions ==
  { [limit |-> 1, timeout |-> TRUE,  intr |-> FALSE, large |-> FALSE],
    [limit |-> 1, timeout |-> FALSE, intr |-> FALSE, large |-> FALSE] }

\* r2 receives on the name of the port set; r1 on the port itself.
MCSetReceivers == {r2}

Symmetry == Permutations(MCSenders) \cup Permutations(MCReceivers)
SenderSymmetry == Permutations(MCSenders)

====
