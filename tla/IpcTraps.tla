------------------------------ MODULE IpcTraps ------------------------------
(***************************************************************************)
(* The lock behaviour of the Mach traps of one task (src/src/lkm/traps.c) *)
(* and of the message calls they enter (ipc_msg_send, ipc_msg_recv).      *)
(*                                                                         *)
(* All threads of a task share its namespace, whose lock is Ns, and the   *)
(* ports its names denote, each with its own lock.  Each trap is          *)
(* translated into the set of lock programs its control paths perform:   *)
(* the sequence of lock acquisitions and releases, in code order, for    *)
(* each outcome of its name lookups and checks.  Names are abstracted to *)
(* the port they denote (NONE for a name with no right); what a trap does *)
(* to the table between two lock operations is left out, since no        *)
(* property here depends on it.                                          *)
(*                                                                         *)
(* Locks are not recursive: a thread acquiring a lock it holds waits for  *)
(* itself.  ipc_space_lookup returns with the port locked; ipc_space_     *)
(* make_send, _make_receive and _right_insert take the namespace lock     *)
(* themselves (the allocate trap releases it before calling make_receive) *)
(* and ipc_right_put_if_noref / ipc_space_right_put release the port of  *)
(* the right they put.  The semaphore primitives are entered with the     *)
(* port locked and release it; mach_semaphore_wait then sleeps.  A       *)
(* thread also sleeps in the waits of ipc_msg_deliver and ipc_msg_recv.  *)
(***************************************************************************)
EXTENDS Integers, Sequences, FiniteSets, Graphs

CONSTANTS
  Threads,    \* threads of the task
  Ports,      \* ports named in the task's namespace
  TaskPort,   \* task->task_self
  HostPort,   \* host_port
  Ns,         \* the task namespace's lock
  KNs,        \* kernel_namespace's lock
  NONE,       \* a name that denotes no right
  NoOwner,    \* owner of a free lock
  Calls,      \* the lock programs of the calls threads make
  MaxCalls    \* calls per thread

ASSUME /\ {TaskPort, HostPort} \subseteq Ports
       /\ Ns \notin Ports /\ KNs \notin Ports /\ Ns # KNs /\ NONE \notin Ports /\ NoOwner \notin Threads
       /\ MaxCalls \in Nat

Locks == {Ns, KNs} \cup Ports

\* One step of a lock program.
Acq(l) == [op |-> "acq", lock |-> l]
Rel(l) == [op |-> "rel", lock |-> l]
\* do_exit: the thread ends inside the trap.
Exit == [op |-> "exit", lock |-> Ns]
\* A wait for the event of lock l's object (semaphore signal, delivery).
Sleep(l) == [op |-> "sleep", lock |-> l]
Ops == [op : {"acq", "rel", "exit", "sleep"}, lock : Locks]

VARIABLES
  owner,    \* lock -> the thread holding it, or NoOwner
  prog,     \* the lock program of the thread's current call
  pos,      \* index of its next step; 0 while the thread is between calls
  calls,    \* calls made so far
  exited    \* threads that left through do_exit

vars == <<owner, prog, pos, calls, exited>>

-----------------------------------------------------------------------------
(* Lookups shared by the traps.                                            *)

\* ipc_space_lookup: a name that resolves leaves its port locked.
Lookup(p) == IF p = NONE THEN <<>> ELSE <<Acq(p)>>
Unlock(p) == IF p = NONE THEN <<>> ELSE <<Rel(p)>>

\* Mutant: the task name's port is left locked.
PortNameToTaskKeepsLock(tn) == Lookup(tn)

\* port_name_to_task (traps.c l.225-241): look the name up, unlock it.
port_name_to_task(tn) == Lookup(tn) \o Unlock(tn)

\* ipc_space_make_send / _make_receive / _right_insert: under Ns.
SpaceInsert == <<Acq(Ns), Rel(Ns)>>

\* ipc_space_right_put: the right's port is locked to put it.
SpaceRightPut(p) == Lookup(p) \o Unlock(p)

-----------------------------------------------------------------------------
(* The traps, each as the set of its lock programs.                       *)

\* mach_reply_port_trap: a new port, a receive right inserted.
\* A failed ipc_port_new returns before any lock.
mach_reply_port_trap == {<<>>, SpaceInsert}

\* _kernelrpc_mach_port_mod_refs_trap and _deallocate_trap: check the task
\* name, look the right up, change its references, put it if none remain.
mach_port_mod_refs_trap(tn, pn) ==
  {<<Acq(Ns)>> \o port_name_to_task(tn)
   \o (IF tn = TaskPort THEN Lookup(pn) \o Unlock(pn) ELSE <<>>)
   \o <<Rel(Ns)>>}

mach_port_deallocate_trap(tn, pn) ==
  {<<Acq(Ns)>> \o port_name_to_task(tn)
   \o (IF tn = TaskPort THEN Lookup(pn) \o Unlock(pn) ELSE <<>>)
   \o <<Rel(Ns)>>}

\* mach_task_self_trap and mach_host_self_trap: make a send right to the
\* task (host) port while holding that port's lock.
mach_task_self_trap == {<<Acq(TaskPort), Acq(Ns), Rel(Ns), Rel(TaskPort)>>}
mach_host_self_trap == {<<Acq(HostPort), Acq(Ns), Rel(Ns), Rel(HostPort)>>}

\* mach_thread_self_trap: register the thread under the task port's lock,
\* then make the send right; a failed ipc_port_new returns at once.
mach_thread_self_trap ==
  {<<Acq(TaskPort), Rel(TaskPort)>>,
   <<Acq(TaskPort), Rel(TaskPort)>> \o SpaceInsert}

\* _kernelrpc_mach_port_allocate_trap: check the task name under Ns, then,
\* for a valid right type, make the receive right.
mach_port_allocate_trap(tn) ==
  LET check == <<Acq(Ns)>> \o port_name_to_task(tn) \o <<Rel(Ns)>> IN
  IF tn = TaskPort THEN {check, check \o SpaceInsert} ELSE {check}

\* _kernelrpc_mach_port_insert_member_trap, _move_member_ and
\* _extract_member_: equal names return at once; otherwise the member's
\* and the set's rights are looked up and both stay locked across
\* ipc_portset_insert / _move / _extract.
MemberTrap(tn, pn, sn) ==
  IF pn = sn THEN <<>>
  ELSE <<Acq(Ns)>> \o port_name_to_task(tn)
       \o (IF tn # TaskPort \/ pn = NONE THEN <<>>
           ELSE Lookup(pn) \o Lookup(sn) \o <<Rel(pn)>> \o Unlock(sn))
       \o <<Rel(Ns)>>

mach_port_insert_member_trap(tn, pn, sn) == {MemberTrap(tn, pn, sn)}
mach_port_move_member_trap(tn, pn, sn) == {MemberTrap(tn, pn, sn)}
mach_port_extract_member_trap(tn, pn, sn) == {MemberTrap(tn, pn, sn)}

\* _kernelrpc_mach_port_destroy: ipc_space_right_put under Ns.
mach_port_destroy(tn, pn) ==
  {<<Acq(Ns)>> \o port_name_to_task(tn)
   \o (IF tn = TaskPort THEN SpaceRightPut(pn) ELSE <<>>)
   \o <<Rel(Ns)>>}

\* mach_semaphore_signal / _wait: entered with the semaphore's port
\* locked; they unlock it, and the wait then sleeps until a signal (or,
\* timed, until its timeout).
mach_semaphore_signal(p) == <<Rel(p)>>
mach_semaphore_wait(p) == <<Rel(p), Sleep(p)>>

\* semaphore_signal_trap: look the semaphore up under Ns, release Ns, and
\* hand the locked port to mach_semaphore_signal, or unlock it if it is
\* dead.  semaphore_signal_all_trap does the same.
semaphore_signal_trap(p) ==
  {<<Acq(Ns)>> \o Lookup(p) \o <<Rel(Ns)>> \o Unlock(p)}

semaphore_signal_all_trap(p) == semaphore_signal_trap(p)

\* semaphore_wait_trap, semaphore_timedwait_trap: a live semaphore's port
\* goes to mach_semaphore_wait, a dead one's is unlocked.
semaphore_wait_trap(p) ==
  LET entry == <<Acq(Ns)>> \o Lookup(p) \o <<Rel(Ns)>> IN
  IF p = NONE THEN {entry}
  ELSE {entry \o <<Rel(p)>>, entry \o mach_semaphore_wait(p)}

semaphore_timedwait_trap(p) == semaphore_wait_trap(p)

\* Mutant: the right_signal == NULL check is dropped.
WaitSignalNoNullCheck(sig, w) ==
  {<<Acq(Ns), Acq(sig)>> \o Lookup(w) \o <<Rel(Ns)>>
   \o (IF w = NONE THEN <<>> ELSE mach_semaphore_wait(w))
   \o mach_semaphore_signal(sig)}

\* semaphore_wait_signal_trap, semaphore_timedwait_signal_trap: both
\* names are looked up, so both ports are locked, before Ns is released;
\* the thread waits on w, and only then signals sig (l.832-835).
semaphore_wait_signal_trap(sig, w) ==
  IF sig = NONE THEN {<<Acq(Ns), Rel(Ns)>>}
  ELSE {<<Acq(Ns), Acq(sig)>> \o Lookup(w) \o <<Rel(Ns)>>
        \o (IF w = NONE THEN <<>> ELSE mach_semaphore_wait(w))
        \o mach_semaphore_signal(sig)}

semaphore_timedwait_signal_trap(sig, w) == semaphore_wait_signal_trap(sig, w)

\* bsdthread_terminate_trap: the semaphore's port stays locked when it is
\* dead (only mach_semaphore_signal would release it); then do_exit.
bsdthread_terminate_trap(sem, valid) ==
  <<Acq(Ns), Acq(sem), Rel(Ns)>> \o (IF valid THEN <<Rel(sem)>> ELSE <<>>)
  \o <<Exit>>

\* ipc_msg_send in namespace ns of a message to d with reply right rp, up
\* to the hand-off: under ns, ipc_process_right locks each right's port to
\* make the new right; then the target's port is locked (l.290) for
\* ipc_msg_deliver.
SendCopyIn(ns, d, rp) ==
  <<Acq(ns), Acq(d), Rel(d)>>
  \o (IF rp = NONE THEN <<>> ELSE <<Acq(rp), Rel(rp)>>)
  \o <<Rel(ns), Acq(d)>>

\* ipc_msg_deliver, entered with d locked: it unlocks d and, unless the
\* target right is SEND_ONCE, waits (l.482, l.526); the cleanup locks it
\* once more (l.534, l.552) and unlocks it only if the port is still
\* valid (l.537-545, l.557).
ipc_msg_deliver(d, valid, once) ==
  <<Rel(d)>> \o (IF once THEN <<>> ELSE <<Sleep(d)>>) \o <<Acq(d)>>
  \o (IF valid THEN <<Rel(d)>> ELSE <<>>)

ipc_msg_send(ns, d, rp, valid, once) ==
  SendCopyIn(ns, d, rp) \o ipc_msg_deliver(d, valid, once)

\* The routines of the thread port's subsystem (servers/thread_act.c), run
\* with the thread port still locked by ipc_msg_deliver.
\* thread_terminate: look the target name up under Ns; a right that is not
\* the calling thread's port is unlocked, the caller's is put (and the
\* port is never unlocked: `right` is NULL at err).
thread_terminate(tn) ==
  IF tn = NONE THEN {<<Acq(Ns), Rel(Ns)>>}
  ELSE {<<Acq(Ns), Acq(tn), Rel(tn), Rel(Ns)>>,
        <<Acq(Ns), Acq(tn)>> \o SpaceRightPut(tn) \o <<Rel(Ns)>>}

\* thread_info: ipc_space_lookup_unlocked under Ns, on every path.
thread_info == {<<Acq(Ns), Rel(Ns)>>}

\* act_get_state .. thread_set_special_port, and thread_set_exception_ports
\* .. thread_swap_mach_voucher: KERN_NOT_SUPPORTED, no lock.
thread_state_stubs == {<<>>}
thread_policy_stubs == {<<>>}

\* The reply, sent by ipc_msg_send from kernel_namespace to the reply
\* port rp; if it fails, the reply right is put in kernel_namespace.
ReplySend(rp, outcomes) ==
  {ipc_msg_send(KNs, rp, NONE, ok, TRUE) \o (IF ok THEN <<>> ELSE SpaceRightPut(rp)) :
     ok \in outcomes}

\* ipc_msg_invoke_server, entered with the target d locked: a reply right
\* that is not SEND_ONCE, no subsystem or an unknown routine unlock d and
\* return; otherwise the reply right goes into kernel_namespace, the
\* routine (one of routines) runs, d is unlocked, the reply is sent.
ipc_msg_invoke_server(d, rp, routines, outcomes) ==
  {<<Rel(d)>>}
  \cup {<<Acq(KNs), Rel(KNs)>> \o r \o <<Rel(d)>> \o s :
          r \in routines, s \in ReplySend(rp, outcomes)}

\* ipc_msg_send to a server port d: ipc_msg_deliver hands the message,
\* with d locked, to ipc_msg_invoke_server.
MigCall(d, rp, routines, outcomes) ==
  {SendCopyIn(Ns, d, rp) \o s : s \in ipc_msg_invoke_server(d, rp, routines, outcomes)}

\* ipc_msg_recv on name r refused at entry: no right, or a right of the
\* wrong type or on a dead port.  The lookup locked the port but `locked`
\* is still false, so the exit path does not unlock it.
ipc_msg_recv_rejected(r) == <<Acq(Ns)>> \o Lookup(r) \o <<Rel(Ns)>>

\* ipc_msg_recv on r of a message whose reply right is on port rp: the
\* receive right's port stays locked when Ns is released; MACH_RCV_IN_SET
\* and a port that dies in the loop unlock it; an empty queue unlocks it
\* across the wait; the reply right is inserted into the namespace with
\* the port still locked (l.1018), and if that fails the reply's port is
\* locked to put it (l.1021-1022).
ipc_msg_recv(r, rp) ==
  LET entry == <<Acq(Ns), Acq(r), Rel(Ns)>>
      reply == IF rp = NONE THEN {<<>>}
               ELSE {SpaceInsert, SpaceInsert \o <<Acq(rp), Rel(rp)>>}
  IN {entry \o <<Rel(r)>>}
     \cup {entry \o w \o ins \o <<Rel(r)>> :
             w \in {<<>>, <<Rel(r), Sleep(r), Acq(r)>>}, ins \in reply}

\* mach_msg_overwrite_trap: a size or copy failure returns at once; a
\* send (one of sends) that fails returns, one that succeeds is followed
\* by the receive (one of recvs) when both options are set.
mach_msg_overwrite_trap(sends, recvs) ==
  {<<>>} \cup sends \cup recvs \cup {sd \o rv : sd \in sends, rv \in recvs}

-----------------------------------------------------------------------------
Init ==
  /\ owner = [l \in Locks |-> NoOwner]
  /\ prog = [t \in Threads |-> <<>>]
  /\ pos = [t \in Threads |-> 0]
  /\ calls = [t \in Threads |-> 0]
  /\ exited = {}

NextOp(t) == prog[t][pos[t]]
Running(t) == pos[t] # 0 /\ pos[t] <= Len(prog[t])

\* mach_dev_ioctl: a thread enters a trap.
Call(t) ==
  /\ t \notin exited
  /\ pos[t] = 0
  /\ calls[t] < MaxCalls
  /\ \E c \in Calls :
       /\ prog' = [prog EXCEPT ![t] = c]
       /\ pos' = [pos EXCEPT ![t] = 1]
  /\ calls' = [calls EXCEPT ![t] = @ + 1]
  /\ UNCHANGED <<owner, exited>>

\* spin_lock / mutex_lock: taken only when free.
Acquire(t) ==
  /\ Running(t)
  /\ NextOp(t).op = "acq"
  /\ owner[NextOp(t).lock] = NoOwner
  /\ owner' = [owner EXCEPT ![NextOp(t).lock] = t]
  /\ pos' = [pos EXCEPT ![t] = @ + 1]
  /\ UNCHANGED <<prog, calls, exited>>

Release(t) ==
  /\ Running(t)
  /\ NextOp(t).op = "rel"
  /\ owner' = [owner EXCEPT ![NextOp(t).lock] = NoOwner]
  /\ pos' = [pos EXCEPT ![t] = @ + 1]
  /\ UNCHANGED <<prog, calls, exited>>

\* The trap returns to user space.
Return(t) ==
  /\ pos[t] > Len(prog[t])
  /\ pos' = [pos EXCEPT ![t] = 0]
  /\ UNCHANGED <<owner, prog, calls, exited>>

\* The thread sleeps in a wait.
Asleep(t) == Running(t) /\ NextOp(t).op = "sleep"

\* The wait ends: the semaphore is signalled, the delivery or port state
\* changes, or the timeout or a signal ends it.
Wake(t) ==
  /\ Asleep(t)
  /\ pos' = [pos EXCEPT ![t] = @ + 1]
  /\ UNCHANGED <<owner, prog, calls, exited>>

\* do_exit: the thread leaves and never calls again, whatever it holds.
ThreadExit(t) ==
  /\ Running(t)
  /\ NextOp(t).op = "exit"
  /\ pos' = [pos EXCEPT ![t] = 0]
  /\ exited' = exited \cup {t}
  /\ UNCHANGED <<owner, prog, calls>>

\* Every thread has made its calls.
Finished ==
  /\ \A t \in Threads : pos[t] = 0 /\ (calls[t] = MaxCalls \/ t \in exited)
  /\ UNCHANGED vars

Next ==
  \/ \E t \in Threads : Call(t) \/ Acquire(t) \/ Release(t) \/ Return(t)
                        \/ ThreadExit(t) \/ Wake(t)
  \/ Finished

Spec == Init /\ [][Next]_vars

-----------------------------------------------------------------------------
(* Properties.                                                            *)

TypeOK ==
  /\ owner \in [Locks -> Threads \cup {NoOwner}]
  /\ prog \in [Threads -> Seq(Ops)]
  /\ \A t \in Threads : pos[t] \in 0..Len(prog[t]) + 1
  /\ calls \in [Threads -> 0..MaxCalls]
  /\ exited \subseteq Threads

\* t waits for u: t's next step takes a lock u holds (u may be t itself).
WaitsFor ==
  [node |-> Threads,
   edge |-> {<<t, u>> \in Threads \X Threads :
               /\ Running(t)
               /\ NextOp(t).op = "acq"
               /\ owner[NextOp(t).lock] = u}]

\* No deadlock between the traps' lock orders: the threads waiting for a
\* namespace or port lock never wait for one another in a cycle (a thread
\* taking a lock it holds is a cycle of one).
NoLockCycle == ~HasCycle(WaitsFor)

\* t waits for a lock that will never be released: following the threads
\* it waits for never reaches one that can go on -- they wait in a cycle,
\* or the last one has returned from its trap or exited with the lock.
Stuck(t) ==
  LET G == WaitsFor
      reach == ConnectionsIn(G)
  IN /\ \E u \in Threads : <<t, u>> \in G.edge
     /\ \A u \in Threads :
          reach[t, u] => (\E v \in Threads : <<u, v>> \in G.edge) \/ ~Running(u)

\* No thread of the task waits forever in a trap for a namespace or port
\* lock: neither a lock-order cycle nor a lock left held by a trap that
\* returned (or a thread that exited) blocks it.
NoStuckThread == \A t \in Threads : ~Stuck(t)

\* Spec 5: a thread holds no namespace or port lock while it blocks -- the
\* waits of ipc_msg_deliver and ipc_msg_recv, and the sleep of
\* mach_semaphore_wait in the semaphore traps -- so that the thread that
\* would end the wait is never kept from the lock it needs.
SleepsWithoutLocks ==
  \A t \in Threads : Asleep(t) => \A l \in Locks : owner[l] # t

====
