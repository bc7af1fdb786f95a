------------------------------ MODULE Mailbox -------------------------------
(***************************************************************************)
(* What a Mach port promises its senders and receivers, without threads, *)
(* locks or wait queues: a mailbox of messages, each posted once, that    *)
(* leaves the box in exactly one way -- taken by a receiver, withdrawn by *)
(* its sender, or lost when the box closes (the port dies).  Nothing is  *)
(* posted, taken or withdrawn once the box is closed.  The order in which *)
(* messages are taken is not promised (see the FIFO finding).            *)
(***************************************************************************)
EXTENDS FiniteSets

CONSTANT Msgs

VARIABLES open, pending, received, withdrawn, lost

mvars == <<open, pending, received, withdrawn, lost>>

\* Every message the box has accepted.
Posted == pending \cup received \cup withdrawn \cup lost

MInit ==
  /\ open = TRUE
  /\ pending = {}
  /\ received = {}
  /\ withdrawn = {}
  /\ lost = {}

Post(m) ==
  /\ open
  /\ m \notin Posted
  /\ pending' = pending \cup {m}
  /\ UNCHANGED <<open, received, withdrawn, lost>>

Take(m) ==
  /\ open
  /\ m \in pending
  /\ pending' = pending \ {m}
  /\ received' = received \cup {m}
  /\ UNCHANGED <<open, withdrawn, lost>>

Withdraw(m) ==
  /\ open
  /\ m \in pending
  /\ pending' = pending \ {m}
  /\ withdrawn' = withdrawn \cup {m}
  /\ UNCHANGED <<open, received, lost>>

Close ==
  /\ open
  /\ open' = FALSE
  /\ lost' = lost \cup pending
  /\ pending' = {}
  /\ UNCHANGED <<received, withdrawn>>

MNext ==
  \/ \E m \in Msgs : Post(m) \/ Take(m) \/ Withdraw(m)
  \/ Close

MSpec == MInit /\ [][MNext]_mvars

====
