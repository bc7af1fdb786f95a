---------------------------- MODULE IpcDelivery ----------------------------
(***************************************************************************)
(* The delivery engine of the Darling Mach module (src/src/lkm/ipc_msg.c) *)
(* on one ordinary (non-server) port: the enqueue and blocking wait of    *)
(* ipc_msg_deliver, the wait/dequeue loop of ipc_msg_recv, and the death  *)
(* of the port while senders and receivers are blocked on it.  The port  *)
(* may join and leave one port set (the member traps of traps.c); some   *)
(* receivers call ipc_msg_recv on that set's name.                       *)
(*                                                                         *)
(* Every action is one hold of the port lock (ipc_port_lock), so it is    *)
(* atomic.  The wait_event_* macros are modelled by what they do: the     *)
(* thread is put on the wait queue before the condition is tested, so a   *)
(* test and the decision to sleep are one step; wake_up makes every      *)
(* sleeper of that queue runnable again, and a runnable waiter re-tests   *)
(* its condition.  A timeout or a signal ends a sleep only while the     *)
(* condition is false (the macros re-test it before returning 0 or        *)
(* -ERESTARTSYS).                                                         *)
(*                                                                         *)
(* Each sender thread sends one message; its delivery record is named by  *)
(* the sender.  The right the sender copied in (ipc_process_right) is     *)
(* abstracted to its type, SEND or SEND_ONCE; right processing itself is  *)
(* modelled in IpcSendRights.                                             *)
(***************************************************************************)
EXTENDS Naturals, Sequences, FiniteSets, SequencesExt, Functions

CONSTANTS
  Senders,       \* sender threads, one message each (model values)
  Receivers,     \* receiver threads on the port's RECEIVE right
  SendOptions,   \* set of [rt, size, timeout, intr] a sender may use
  RecvOptions,   \* set of [limit, timeout, intr, large] a receiver may use
  MaxRecvCalls,  \* bound on the ipc_msg_recv calls of one receiver thread
  SetReceivers,  \* receivers that call ipc_msg_recv on the port set's name
  PortSetOps,    \* whether the task calls the member traps on the port
  NoMsg          \* model value: no delivery

ASSUME /\ MaxRecvCalls \in Nat \ {0} /\ NoMsg \notin Senders
       /\ SetReceivers \subseteq Receivers /\ PortSetOps \in BOOLEAN

\* Status codes returned by ipc_msg_send / ipc_msg_recv.
SUCCESS      == "MACH_MSG_SUCCESS"
INVALID_DEST == "MACH_SEND_INVALID_DEST"
INTERRUPTED  == "INTERRUPTED"     \* MACH_SEND_INTERRUPTED / MACH_RCV_INTERRUPTED
TIMED_OUT    == "MACH_RCV_TIMED_OUT"
PORT_DIED    == "MACH_RCV_PORT_DIED"
TOO_LARGE    == "MACH_RCV_TOO_LARGE"
IN_SET       == "MACH_RCV_IN_SET"
NONE         == "NONE"

VARIABLES
  alive,           \* PORT_IS_VALID(port)
  queue,           \* port->messages, first element = list head
  queue_size,      \* port->queue_size
  inSet,           \* !hash_empty(port->sets)
  leaked,          \* the port lock is held by a sender that has returned
  delivered,       \* delivery->delivered, per sender
  recipient_died,  \* delivery->recipient_died, per sender
  recipient_freed, \* delivery->recipient_freed, per sender
  sopt, spc, sret, \* sender options, program counter, return status
  ropt, rpc, rret, \* receiver options, program counter, return status
  rmsg,            \* the delivery a receiver's last call dequeued
  rcalls,          \* number of ipc_msg_recv calls a receiver has made
  msgs_sent,       \* the atomic msgs_sent counter (ipc_msg_count)
  holdsTarget,     \* sender still owns the right it copied in (kmsg->target)
  \* history variables, for the properties only
  enqOrder,        \* deliveries in the order they were enqueued
  dequeued,        \* deliveries in the order receivers dequeued them
  withdrawn,       \* deliveries a failed sender took back off the queue
  discarded        \* deliveries dropped by the death of the port

portVars  == <<alive, queue, queue_size, inSet, leaked>>
dlvVars   == <<delivered, recipient_died, recipient_freed>>
sendVars  == <<sopt, spc, sret, holdsTarget>>
recvVars  == <<ropt, rpc, rret, rmsg, rcalls>>
histVars  == <<enqOrder, dequeued, withdrawn, discarded>>
vars == <<portVars, dlvVars, sendVars, recvVars, msgs_sent, histVars>>

-----------------------------------------------------------------------------
\* Which of the wait macros a thread uses, from its options (lines 485-516,
\* 932-961).  Without a timeout and without the INTERRUPT option the wait
\* is wait_event_killable, which a fatal signal still ends with
\* -ERESTARTSYS; only wait_event_timeout cannot be interrupted.
Interruptible(o) == o.intr \/ ~o.timeout

\* wait_event condition of a sender (lines 490, 505, 512).
SendCond(s) == delivered[s] \/ recipient_died[s]

\* For a receiver on the set, right->port is the set's port: its own list
\* and queue_size, which no delivery to a member changes (ipc_msg_deliver
\* links the delivery on the member, l.455-456), and its validity (the
\* set is not destroyed here).
SetQueueSize == 0
SetAlive == TRUE

\* PORT_IS_VALID(right->port) and list_empty(&right->port->messages) for
\* receiver r (lines 912, 920).
RecvAlive(r) == IF r \in SetReceivers THEN SetAlive ELSE alive
RecvEmpty(r) == IF r \in SetReceivers THEN SetQueueSize = 0 ELSE queue = <<>>

\* wait_event condition of a receiver (lines 937, 952, 957).
RecvCond(r) ==
  IF r \in SetReceivers THEN SetQueueSize # 0 \/ ~SetAlive
  ELSE queue_size # 0 \/ ~alive

\* wake_up on a wait queue: every thread of ts asleep on it becomes
\* runnable and re-tests its condition.
Wake(pc, ts) ==
  [t \in DOMAIN pc |-> IF pc[t] = "sleep" /\ t \in ts THEN "wait" ELSE pc[t]]

\* The receivers sleeping on port->queue_recv (the others sleep on the
\* set's queue_recv).
PortWaiters == Receivers \ SetReceivers

\* The receivers ipc_msg_deliver wakes (lines 460-473): the set's waiters
\* when the port is in a set, its own waiters otherwise.
WokenByDelivery == IF inSet THEN SetReceivers ELSE PortWaiters

-----------------------------------------------------------------------------
(* Plausible faults of the code, used to show that each property can      *)
(* fail: each one replaces the definition named in its comment.          *)

\* SendFinish without the queue_size-- of line 542.
SendFinishKeepsSize(s) ==
  LET failed   == sret[s] # SUCCESS
      takeBack == failed /\ alive /\ ~delivered[s]
  IN
  /\ spc[s] = "finish"
  /\ ~leaked
  /\ leaked' = (failed /\ ~alive)
  /\ queue' = IF takeBack THEN Remove(queue, s) ELSE queue
  /\ withdrawn' = IF takeBack THEN withdrawn \cup {s} ELSE withdrawn
  /\ holdsTarget' = IF sret[s] = SUCCESS
                      THEN [holdsTarget EXCEPT ![s] = FALSE] ELSE holdsTarget
  /\ spc' = [spc EXCEPT ![s] = "done"]
  /\ UNCHANGED <<alive, inSet, queue_size, dlvVars, sopt, sret, recvVars, msgs_sent,
                 enqOrder, dequeued, discarded>>

\* SendFinish without the "if (!delivery->delivered)" test of line 539.
SendFinishIgnoresDelivered(s) ==
  LET failed   == sret[s] # SUCCESS
      takeBack == failed /\ alive
  IN
  /\ spc[s] = "finish"
  /\ ~leaked
  /\ leaked' = (failed /\ ~alive)
  /\ queue' = IF takeBack THEN Remove(queue, s) ELSE queue
  /\ queue_size' = IF takeBack THEN queue_size - 1 ELSE queue_size
  /\ withdrawn' = IF takeBack THEN withdrawn \cup {s} ELSE withdrawn
  /\ holdsTarget' = IF sret[s] = SUCCESS
                      THEN [holdsTarget EXCEPT ![s] = FALSE] ELSE holdsTarget
  /\ spc' = [spc EXCEPT ![s] = "done"]
  /\ UNCHANGED <<alive, inSet, dlvVars, sopt, sret, recvVars, msgs_sent, enqOrder,
                 dequeued, discarded>>

\* SendResult without the recipient_died branch of lines 521-522.
SendResultIgnoresDeath(s) == SUCCESS

\* SendEnqueue without the wake-up of lines 460-473.
SendEnqueueNoWake(s) ==
  LET once == sopt[s].rt = "SEND_ONCE"
  IN
  /\ spc[s] = "idle"
  /\ alive
  /\ queue' = Cons(s, queue)
  /\ queue_size' = queue_size + 1
  /\ recipient_freed' = [recipient_freed EXCEPT ![s] = once]
  /\ spc' = [spc EXCEPT ![s] = IF once THEN "done" ELSE "wait"]
  /\ sret' = [sret EXCEPT ![s] = IF once THEN SUCCESS ELSE NONE]
  /\ holdsTarget' = [holdsTarget EXCEPT ![s] = ~once]
  /\ enqOrder' = Append(enqOrder, s)
  /\ UNCHANGED <<alive, inSet, leaked, delivered, recipient_died, sopt, rpc, ropt, rret,
                 rmsg, rcalls, msgs_sent, dequeued, withdrawn, discarded>>

\* RecvDequeue without the wake_up(&port->queue_send) of line 1071.
RecvDequeueNoWake(r) ==
  LET d      == Head(queue)
      tooBig == sopt[d].size > ropt[r].limit
      notify == ~recipient_freed[d]
  IN
  /\ rpc[r] = "loop"
  /\ alive
  /\ queue # <<>>
  /\ queue' = Tail(queue)
  /\ queue_size' = queue_size - 1
  /\ rret' = [rret EXCEPT ![r] = IF tooBig /\ ~ropt[r].large
                                   THEN TOO_LARGE ELSE SUCCESS]
  /\ rmsg' = [rmsg EXCEPT ![r] = d]
  /\ msgs_sent' = msgs_sent + 1
  /\ delivered' = IF notify THEN [delivered EXCEPT ![d] = TRUE] ELSE delivered
  /\ rpc' = [rpc EXCEPT ![r] = "done"]
  /\ dequeued' = Append(dequeued, d)
  /\ UNCHANGED <<alive, inSet, leaked, recipient_died, recipient_freed, sopt, spc, sret,
                 holdsTarget, ropt, rcalls, enqOrder, withdrawn, discarded>>

-----------------------------------------------------------------------------
Init ==
  /\ alive = TRUE
  /\ queue = <<>>
  /\ queue_size = 0
  /\ inSet = FALSE
  /\ leaked = FALSE
  /\ delivered = [s \in Senders |-> FALSE]
  /\ recipient_died = [s \in Senders |-> FALSE]
  /\ recipient_freed = [s \in Senders |-> FALSE]
  /\ sopt \in [Senders -> SendOptions]
  /\ spc = [s \in Senders |-> "idle"]
  /\ sret = [s \in Senders |-> NONE]
  /\ holdsTarget = [s \in Senders |-> FALSE]
  /\ ropt \in [Receivers -> RecvOptions]
  /\ rpc = [r \in Receivers |-> "idle"]
  /\ rret = [r \in Receivers |-> NONE]
  /\ rmsg = [r \in Receivers |-> NoMsg]
  /\ rcalls = [r \in Receivers |-> 0]
  /\ msgs_sent = 0
  /\ enqOrder = <<>>
  /\ dequeued = <<>>
  /\ withdrawn = {}
  /\ discarded = {}

-----------------------------------------------------------------------------
(* Sender.                                                                 *)

\* ipc_msg_send after copy-in: the target port is found dead, the send
\* fails with MACH_SEND_INVALID_DEST and the produced right is aborted;
\* the port is locked first (l.290).
SendToDeadPort(s) ==
  /\ spc[s] = "idle"
  /\ ~alive
  /\ ~leaked
  /\ spc' = [spc EXCEPT ![s] = "done"]
  /\ sret' = [sret EXCEPT ![s] = INVALID_DEST]
  /\ UNCHANGED <<portVars, dlvVars, sopt, holdsTarget, recvVars, msgs_sent,
                 histVars>>

\* ipc_msg_deliver up to the wait: the delivery is put at the head of the
\* list (list_add), queue_size is incremented and the receivers woken.  A
\* SEND_ONCE sender does not wait: it drops its right and returns.
SendEnqueue(s) ==
  LET once == sopt[s].rt = "SEND_ONCE"
  IN
  /\ spc[s] = "idle"
  /\ alive
  /\ queue' = Cons(s, queue)
  /\ queue_size' = queue_size + 1
  /\ recipient_freed' = [recipient_freed EXCEPT ![s] = once]
  /\ rpc' = Wake(rpc, WokenByDelivery)
  /\ spc' = [spc EXCEPT ![s] = IF once THEN "done" ELSE "wait"]
  /\ sret' = [sret EXCEPT ![s] = IF once THEN SUCCESS ELSE NONE]
  /\ holdsTarget' = [holdsTarget EXCEPT ![s] = ~once]
  /\ enqOrder' = Append(enqOrder, s)
  /\ UNCHANGED <<alive, inSet, leaked, delivered, recipient_died, sopt, ropt, rret, rmsg,
                 rcalls, msgs_sent, dequeued, withdrawn, discarded>>

\* A runnable sender in its wait macro tests its condition: it returns with
\* a positive result, or goes to sleep on port->queue_send.
SendResult(s) == IF recipient_died[s] THEN INVALID_DEST ELSE SUCCESS

SendCheck(s) ==
  /\ spc[s] = "wait"
  /\ IF SendCond(s)
       THEN /\ spc' = [spc EXCEPT ![s] = "finish"]
            /\ sret' = [sret EXCEPT ![s] = SendResult(s)]
       ELSE /\ spc' = [spc EXCEPT ![s] = "sleep"]
            /\ UNCHANGED sret
  /\ UNCHANGED <<portVars, dlvVars, sopt, holdsTarget, recvVars, msgs_sent,
                 histVars>>

\* The timeout of wait_event[_interruptible]_timeout elapses.
SendTimeout(s) ==
  /\ spc[s] = "sleep"
  /\ sopt[s].timeout
  /\ ~SendCond(s)
  /\ spc' = [spc EXCEPT ![s] = "finish"]
  /\ sret' = [sret EXCEPT ![s] = TIMED_OUT]
  /\ UNCHANGED <<portVars, dlvVars, sopt, holdsTarget, recvVars, msgs_sent,
                 histVars>>

\* A signal ends the wait with -ERESTARTSYS.
SendInterrupt(s) ==
  /\ spc[s] = "sleep"
  /\ Interruptible(sopt[s])
  /\ ~SendCond(s)
  /\ spc' = [spc EXCEPT ![s] = "finish"]
  /\ sret' = [sret EXCEPT ![s] = INTERRUPTED]
  /\ UNCHANGED <<portVars, dlvVars, sopt, holdsTarget, recvVars, msgs_sent,
                 histVars>>

\* After the wait, ipc_right_lock_port retakes the port lock (l.534,
\* l.552): on failure the delivery is taken off a live port's queue
\* unless a receiver already took it, and the port is unlocked only if it
\* is still valid (l.537-545), so a failed send to a dead port returns
\* with its lock held; on success the consumed target right is put and
\* the port unlocked.
SendFinish(s) ==
  LET failed   == sret[s] # SUCCESS
      takeBack == failed /\ alive /\ ~delivered[s]
  IN
  /\ spc[s] = "finish"
  /\ ~leaked
  /\ leaked' = (failed /\ ~alive)
  /\ queue' = IF takeBack THEN Remove(queue, s) ELSE queue
  /\ queue_size' = IF takeBack THEN queue_size - 1 ELSE queue_size
  /\ withdrawn' = IF takeBack THEN withdrawn \cup {s} ELSE withdrawn
  /\ holdsTarget' = IF sret[s] = SUCCESS
                      THEN [holdsTarget EXCEPT ![s] = FALSE]
                      ELSE holdsTarget
  /\ spc' = [spc EXCEPT ![s] = "done"]
  /\ UNCHANGED <<alive, inSet, dlvVars, sopt, sret, recvVars, msgs_sent, enqOrder,
                 dequeued, discarded>>

-----------------------------------------------------------------------------
(* Receiver.                                                               *)

\* ipc_msg_recv entry: the RECEIVE (or set) right is looked up; a dead
\* port fails with MACH_RCV_PORT_DIED, a receive right whose port is in a
\* set with MACH_RCV_IN_SET; otherwise the right is cloned and the loop is
\* entered with the port locked.  The lookup locks the port, so it waits
\* while a returned sender holds the lock.  A thread makes at most MaxRecvCalls calls.
RecvEntry(r) ==
  CASE ~RecvAlive(r)                      -> PORT_DIED
    [] r \notin SetReceivers /\ inSet     -> IN_SET
    [] OTHER                              -> NONE

RecvBegin(r) ==
  /\ rpc[r] \in {"idle", "done"}
  /\ rcalls[r] < MaxRecvCalls
  /\ r \in SetReceivers \/ ~leaked
  /\ rcalls' = [rcalls EXCEPT ![r] = @ + 1]
  /\ rmsg' = [rmsg EXCEPT ![r] = NoMsg]
  /\ rpc' = [rpc EXCEPT ![r] = IF RecvEntry(r) = NONE THEN "loop" ELSE "done"]
  /\ rret' = [rret EXCEPT ![r] = RecvEntry(r)]
  /\ UNCHANGED <<portVars, dlvVars, sendVars, ropt, msgs_sent, histVars>>

\* Loop body, port locked: the port has died.
RecvPortDied(r) ==
  /\ rpc[r] = "loop"
  /\ ~RecvAlive(r)
  /\ rpc' = [rpc EXCEPT ![r] = "done"]
  /\ rret' = [rret EXCEPT ![r] = PORT_DIED]
  /\ UNCHANGED <<portVars, dlvVars, sendVars, ropt, rmsg, rcalls, msgs_sent,
                 histVars>>

\* Loop body, port locked: the list is empty, the lock is dropped and the
\* thread enters its wait macro.
RecvQueueEmpty(r) ==
  /\ rpc[r] = "loop"
  /\ RecvAlive(r)
  /\ RecvEmpty(r)
  /\ rpc' = [rpc EXCEPT ![r] = "wait"]
  /\ UNCHANGED <<portVars, dlvVars, sendVars, ropt, rret, rmsg, rcalls,
                 msgs_sent, histVars>>

\* A runnable receiver tests its condition, unlocked: it relocks the port
\* (l.978) and loops, or sleeps on right->port->queue_recv.
RecvCheck(r) ==
  /\ rpc[r] = "wait"
  /\ RecvCond(r) /\ r \notin SetReceivers => ~leaked
  /\ rpc' = [rpc EXCEPT ![r] = IF RecvCond(r) THEN "loop" ELSE "sleep"]
  /\ UNCHANGED <<portVars, dlvVars, sendVars, ropt, rret, rmsg, rcalls,
                 msgs_sent, histVars>>

RecvTimeout(r) ==
  /\ rpc[r] = "sleep"
  /\ ropt[r].timeout
  /\ ~RecvCond(r)
  /\ rpc' = [rpc EXCEPT ![r] = "done"]
  /\ rret' = [rret EXCEPT ![r] = TIMED_OUT]
  /\ UNCHANGED <<portVars, dlvVars, sendVars, ropt, rmsg, rcalls, msgs_sent,
                 histVars>>

RecvInterrupt(r) ==
  /\ rpc[r] = "sleep"
  /\ Interruptible(ropt[r])
  /\ ~RecvCond(r)
  /\ rpc' = [rpc EXCEPT ![r] = "done"]
  /\ rret' = [rret EXCEPT ![r] = INTERRUPTED]
  /\ UNCHANGED <<portVars, dlvVars, sendVars, ropt, rmsg, rcalls, msgs_sent,
                 histVars>>

\* Loop body, port locked, list not empty: list_first_entry is dequeued and
\* queue_size decremented.  A message over the receive limit is dropped
\* (MACH_RCV_TOO_LARGE without MACH_RCV_LARGE, success and no copy with
\* it); either way the delivery is unlinked, msgs_sent incremented, and the
\* sender either marked delivered and woken or, for SEND_ONCE, not told.
RecvDequeue(r) ==
  LET d      == Head(queue)
      tooBig == sopt[d].size > ropt[r].limit
      notify == ~recipient_freed[d]
  IN
  /\ rpc[r] = "loop"
  /\ RecvAlive(r)
  /\ ~RecvEmpty(r)
  /\ queue' = Tail(queue)
  /\ queue_size' = queue_size - 1
  /\ rret' = [rret EXCEPT ![r] = IF tooBig /\ ~ropt[r].large
                                   THEN TOO_LARGE ELSE SUCCESS]
  /\ rmsg' = [rmsg EXCEPT ![r] = d]
  /\ msgs_sent' = msgs_sent + 1
  /\ delivered' = IF notify THEN [delivered EXCEPT ![d] = TRUE] ELSE delivered
  /\ spc' = IF notify THEN Wake(spc, Senders) ELSE spc
  /\ rpc' = [rpc EXCEPT ![r] = "done"]
  /\ dequeued' = Append(dequeued, d)
  /\ UNCHANGED <<alive, inSet, leaked, recipient_died, recipient_freed, sopt, sret,
                 holdsTarget, ropt, rcalls, enqOrder, withdrawn, discarded>>

-----------------------------------------------------------------------------
(* The port dies when its last RECEIVE reference is released (deallocate, *)
(* mod_refs or destroy of the receive right).  That code (ipc_port.c) is  *)
(* not among the sources: following the spec, every queued delivery is   *)
(* marked recipient_died and dropped, and both wait queues are woken.     *)
PortDestroy ==
  /\ alive
  /\ alive' = FALSE
  /\ queue' = <<>>
  /\ queue_size' = 0
  /\ recipient_died' = [s \in Senders |-> recipient_died[s] \/ Contains(queue, s)]
  /\ discarded' = discarded \cup ToSet(queue)
  /\ spc' = Wake(spc, Senders)
  /\ rpc' = Wake(rpc, PortWaiters)
  /\ UNCHANGED <<inSet, leaked>>
  /\ UNCHANGED <<delivered, recipient_freed, sopt, sret, holdsTarget, ropt,
                 rret, rmsg, rcalls, msgs_sent, enqOrder, dequeued, withdrawn>>

\* _kernelrpc_mach_port_insert_member_trap / _move_member_trap with the
\* port's receive right (so the port is live) and the set's name: the
\* port joins the set (ipc_portset_insert / _move, outside src/, under
\* both ports' locks).  Nothing wakes a receiver already asleep on the
\* port.
PortSetInsert ==
  /\ PortSetOps
  /\ alive
  /\ ~inSet
  /\ inSet' = TRUE
  /\ UNCHANGED <<alive, queue, queue_size, leaked, dlvVars, sendVars, recvVars,
                 msgs_sent, histVars>>

\* _kernelrpc_mach_port_extract_member_trap: the port leaves the set.
PortSetExtract ==
  /\ PortSetOps
  /\ alive
  /\ inSet
  /\ inSet' = FALSE
  /\ UNCHANGED <<alive, queue, queue_size, leaked, dlvVars, sendVars, recvVars,
                 msgs_sent, histVars>>

-----------------------------------------------------------------------------
SenderStep(s) ==
  \/ SendToDeadPort(s) \/ SendEnqueue(s) \/ SendCheck(s)
  \/ SendTimeout(s) \/ SendInterrupt(s) \/ SendFinish(s)

ReceiverStep(r) ==
  \/ RecvBegin(r) \/ RecvPortDied(r) \/ RecvQueueEmpty(r) \/ RecvCheck(r)
  \/ RecvTimeout(r) \/ RecvInterrupt(r) \/ RecvDequeue(r)

\* Every thread has returned from its last call: the model stops.
Terminated ==
  /\ \A s \in Senders : spc[s] = "done"
  /\ \A r \in Receivers : rpc[r] \in {"idle", "done"} /\ rcalls[r] = MaxRecvCalls
  /\ UNCHANGED vars

Next ==
  \/ \E s \in Senders : SenderStep(s)
  \/ \E r \in Receivers : ReceiverStep(r)
  \/ PortDestroy
  \/ PortSetInsert \/ PortSetExtract
  \/ Terminated

Spec == Init /\ [][Next]_vars

\* The scheduler runs a runnable thread: the steps a thread takes on its
\* own once it is inside a call are weakly fair.  Starting a call, timeouts,
\* signals and the death of the port are not.
Fairness ==
  /\ \A s \in Senders : WF_vars(SendCheck(s)) /\ WF_vars(SendFinish(s))
  /\ \A r \in Receivers : /\ WF_vars(RecvCheck(r))
                          /\ WF_vars(RecvPortDied(r) \/ RecvQueueEmpty(r)
                                     \/ RecvDequeue(r))

FairSpec == Spec /\ Fairness

-----------------------------------------------------------------------------
(* Properties.                                                             *)

Status == {SUCCESS, INVALID_DEST, INTERRUPTED, TIMED_OUT, PORT_DIED,
           TOO_LARGE, IN_SET, NONE}

TypeOK ==
  /\ alive \in BOOLEAN
  /\ queue \in Seq(Senders)
  /\ queue_size \in Nat
  /\ inSet \in BOOLEAN
  /\ leaked \in BOOLEAN
  /\ delivered \in [Senders -> BOOLEAN]
  /\ recipient_died \in [Senders -> BOOLEAN]
  /\ recipient_freed \in [Senders -> BOOLEAN]
  /\ spc \in [Senders -> {"idle", "wait", "sleep", "finish", "done"}]
  /\ sret \in [Senders -> Status]
  /\ holdsTarget \in [Senders -> BOOLEAN]
  /\ rpc \in [Receivers -> {"idle", "loop", "wait", "sleep", "done"}]
  /\ rret \in [Receivers -> Status]
  /\ rmsg \in [Receivers -> Senders \cup {NoMsg}]
  /\ rcalls \in [Receivers -> 0..MaxRecvCalls]
  /\ msgs_sent \in Nat
  /\ withdrawn \subseteq Senders
  /\ discarded \subseteq Senders

\* port->queue_size counts exactly the deliveries linked on port->messages,
\* although senders (cleanup after a timeout or signal), receivers
\* (dequeue) and port death all change the two, in separate steps of
\* different threads.  ipc_msg_recv asserts the empty case (BUG_ON, l.924).
QueueSizeConsistent == queue_size = Len(queue)

\* Every enqueued delivery is, at any time, in exactly one place: still
\* queued, dequeued by one receiver, taken back by its failed sender, or
\* dropped by the death of the port; no receiver dequeues a delivery twice
\* and a sender never takes back one a receiver already has.
DeliveryConservation ==
  /\ IsInjective(dequeued)
  /\ IsInjective(queue)
  /\ \A s \in ToSet(enqOrder) :
       LET places == <<Contains(queue, s), Contains(dequeued, s),
                       s \in withdrawn, s \in discarded>>
       IN Cardinality({i \in 1..4 : places[i]}) = 1

\* A blocking send (not SEND_ONCE) that returns MACH_MSG_SUCCESS has had
\* its message dequeued by a receiver, also when the port dies or the
\* sender's wait ends concurrently with the dequeue.
SuccessImpliesDequeued ==
  \A s \in Senders :
    (spc[s] = "done" /\ sret[s] = SUCCESS /\ sopt[s].rt = "SEND")
      => Contains(dequeued, s)

\* Receiver r is inside ipc_msg_recv, and the messages queued on the port
\* are for it: it receives on the port, or on the set the port is in.
Waiting(r) == rpc[r] \in {"loop", "wait", "sleep"}
ForPort(r) == r \notin SetReceivers \/ inSet

\* A receiver waiting for the port's messages while one is queued returns
\* from ipc_msg_recv, unless other threads empty the queue (or the port
\* leaves its set) first: no wake-up is lost between the unlocked test of
\* queue_size and the wake_up of ipc_msg_deliver, and waiters on a set
\* re-check the member's queue (spec 4.4, 5).
ReceiverServed ==
  \A r \in Receivers :
    (Waiting(r) /\ ForPort(r) /\ queue_size > 0)
      ~> (rpc[r] = "done" \/ queue_size = 0 \/ ~ForPort(r))

\* A sender asleep in ipc_msg_deliver whose delivery has been received, or
\* whose port has died, is woken and leaves its wait: the wake_up of the
\* dequeue (l.1071) and of the port's death reach it.  (Whether it then
\* gets the port lock back for its cleanup is a separate matter: after a
\* failed send to a dead port it may not, l.537-545.)
SenderNotLeftAsleep ==
  \A s \in Senders :
    (spc[s] = "sleep" /\ SendCond(s)) ~> (spc[s] \in {"finish", "done"})

\* The port seen as the abstract mailbox of Mailbox.tla: the queued
\* deliveries are pending, the dequeued ones received, the ones a failed
\* sender took back withdrawn, the ones dropped by port death lost.
AbstractMailbox == INSTANCE Mailbox
  WITH Msgs <- Senders, open <- alive, pending <- ToSet(queue),
       received <- ToSet(dequeued), withdrawn <- withdrawn, lost <- discarded

\* ipc_msg_deliver, ipc_msg_recv and port death together implement the
\* mailbox: every step of a sender (enqueue, cleanup after a failed wait),
\* of a receiver (dequeue) or of the port's death is a step of the
\* mailbox or changes nothing of it -- no delivery is taken back after a
\* receiver took it, dequeued twice, or enqueued on a dead port.
MailboxRefinement == AbstractMailbox!MSpec

\* Position of a delivery in the arrival order.
EnqPos(d) == SelectInSeq(enqOrder, LAMBDA x : x = d)

\* Spec 5: "within one port, deliveries are received in strict FIFO
\* arrival order".
FifoOrder ==
  \A i, j \in 1..Len(dequeued) :
    i < j => EnqPos(dequeued[i]) < EnqPos(dequeued[j])

\* Spec 8: a send that returns "timed out" (or "interrupted") leaves the
\* namespace and port as if it had not been attempted (spec 7: a failed
\* call leaves the target port consistent): no receiver has its message,
\* no delivery of it is left queued, and the target right it consumed
\* has been put back, as the success branch does (l.547-558).
AbortedSendUndone ==
  \A s \in Senders :
    (spc[s] = "done" /\ sret[s] \in {TIMED_OUT, INTERRUPTED})
      => ~Contains(dequeued, s) /\ ~Contains(queue, s) /\ ~holdsTarget[s]

\* The comment at l.1005-1007: with MACH_RCV_LARGE, a message over the
\* receive limit is NOT dequeued -- its size is passed back so that the
\* receiver can retry with a larger buffer -- and stays available (spec
\* 4.5: a placeholder is left for size negotiation).
LargeKeepsMessage ==
  \A r \in Receivers :
    (/\ rpc[r] = "done" /\ rret[r] = SUCCESS /\ rmsg[r] # NoMsg
     /\ ropt[r].large /\ sopt[rmsg[r]].size > ropt[r].limit)
      => Contains(queue, rmsg[r])

====
