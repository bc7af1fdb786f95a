----------------------------- MODULE MCIpcTraps -----------------------------
(* Two threads of one task over the task port, the host port, a thread  *)
(* port (a server port of the thread_act subsystem) and two user ports   *)
(* (a receive right or semaphore, and a port set).                       *)
EXTENDS IpcTraps

CONSTANTS th1, th2, tp, hp, thp, p1, p2

MCThreads == {th1, th2}
MCPorts == {tp, hp, thp, p1, p2}
Names == MCPorts \cup {NONE}
UserPorts == {p1, p2}

\* Calls that take the namespace lock before any port lock, messages
\* received without a reply right, semaphore pairs of two names, thread
\* termination on a live semaphore, and MIG calls to the thread port of
\* routines that take no lock.
NsFirstCalls ==
  mach_reply_port_trap \cup mach_thread_self_trap
  \cup UNION {mach_port_mod_refs_trap(tn, pn) \cup mach_port_deallocate_trap(tn, pn)
              \cup mach_port_destroy(tn, pn) : tn \in {tp, p1, NONE}, pn \in Names}
  \cup UNION {mach_port_allocate_trap(tn) : tn \in {tp, p1, NONE}}
  \cup UNION {mach_port_insert_member_trap(tp, pn, sn)
              \cup mach_port_move_member_trap(tp, pn, sn)
              \cup mach_port_extract_member_trap(tp, pn, sn) : pn, sn \in Names}
  \cup UNION {semaphore_signal_trap(s) \cup semaphore_signal_all_trap(s)
              \cup semaphore_wait_trap(s) \cup semaphore_timedwait_trap(s) :
              s \in Names}
  \cup UNION {semaphore_wait_signal_trap(sw[1], sw[2])
              \cup semaphore_timedwait_signal_trap(sw[1], sw[2]) :
              sw \in {sw \in Names \X Names : sw[1] = NONE \/ sw[1] # sw[2]}}
  \cup mach_msg_overwrite_trap(
          {ipc_msg_send(Ns, d, rp, TRUE, FALSE) : d \in UserPorts, rp \in {p1, NONE}},
          UNION {ipc_msg_recv(r, NONE) : r \in UserPorts})
  \cup {bsdthread_terminate_trap(s, TRUE) : s \in UserPorts}
  \cup mach_msg_overwrite_trap(
          MigCall(thp, p1, thread_state_stubs \cup thread_policy_stubs, {TRUE}), {})

\* Add the calls that take a port lock before another lock:
\* mach_task_self_trap, mach_host_self_trap, a receive that inserts a
\* reply right, and thread_info called on the thread port.
PortFirstCalls ==
  NsFirstCalls \cup mach_task_self_trap \cup mach_host_self_trap
  \cup mach_msg_overwrite_trap({},
          UNION {ipc_msg_recv(r, rp) : r \in UserPorts, rp \in UserPorts})
  \cup mach_msg_overwrite_trap(MigCall(thp, p1, thread_info, {TRUE}), {})

\* A semaphore pair naming one port twice: the thread locks it twice.
SelfDeadlockCalls ==
  NsFirstCalls \cup UNION {semaphore_wait_signal_trap(s, s) : s \in UserPorts}

\* Add the paths that end with a port still locked: thread termination
\* on a dead semaphore, a receive refused at entry, a send whose target
\* died before the cleanup, and thread_terminate called on the thread
\* port (it looks the locked port up again).
LeakingCalls ==
  NsFirstCalls
  \cup {bsdthread_terminate_trap(s, FALSE) : s \in UserPorts}
  \cup mach_msg_overwrite_trap(
          {ipc_msg_send(Ns, d, NONE, FALSE, FALSE) : d \in UserPorts},
          {ipc_msg_recv_rejected(r) : r \in Names})
  \cup mach_msg_overwrite_trap(
          MigCall(thp, p1, thread_terminate(thp), {TRUE, FALSE}), {})

\* Every call with every outcome, the semaphore pair naming one port included.
DeadlockCalls == PortFirstCalls \cup SelfDeadlockCalls \cup LeakingCalls

MCSymmetry == Permutations(MCThreads)
====
