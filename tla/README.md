# TLA+ models of the Darling Mach IPC kernel module

This directory holds TLA+ specifications of the Mach message-passing engine in
`src/src/lkm/ipc_msg.c` and the traps that drive it (`src/src/lkm/traps.c`).
They are checked with TLC. Each module translates the C code step by step, and
each run asks one question of it.

## 1. Inventory of the system

| Part | Source | State | Operations |
|------|--------|-------|------------|
| Port | `ipc_port.c` (not in `src/`), used throughout | alive flag (`PORT_IS_VALID`), `messages` list, `queue_size`, `queue_send`/`queue_recv` wait queues, `sets` hash, server role, port lock | created by allocate traps, destroyed when its receive right is put |
| Right | `ipc_right.c` (not in `src/`) | type (SEND, RECEIVE, SEND_ONCE, PORT_SET, DEAD_NAME), `num_refs`, port pointer | `ipc_right_new`, `ipc_right_put`, `ipc_right_mod_refs`, clones for receive |
| Namespace | `ipc_space.c` (not in `src/`) | name → right table, namespace lock | lookup (locked or unlocked), insert, name_put |
| Right processing | `ipc_msg.c` l.43-194 | — | `ipc_process_right` (produce), `_abort` (release), `_end` (commit the source side) |
| Send | `ipc_msg.c` l.196-313 | kmsg: target, reply, complex items | lookups, produce target, descriptor copy-in, produce reply, commit, unlock, dead-port check, hand-off |
| Descriptor walker | `ipc_msg.c` l.569-850 | — | `walk_complex_msg` with the copy-in, abort, finish and copy-out callbacks |
| Delivery | `ipc_msg.c` l.425-567 | delivery record: `delivered`, `recipient_died`, `recipient_freed` | enqueue, wake the receivers or sets, block, clean up |
| Receive | `ipc_msg.c` l.852-1089 | cloned right, `locked` | validate the name, wait for a message, dequeue, size check, copy-out of rights, wake the sender |
| Server dispatch | `ipc_msg.c` l.315-423, `servers/thread_act.c` | kernel namespace | routine lookup, reply right insertion, recursive reply send |
| Traps | `traps.c` | task namespace | allocate, mod_refs, deallocate, destroy, port-set insert/move/extract, task/thread self, semaphores |

**Interactions.**
- A sender locks its namespace and produces rights, releases the namespace lock, then locks the target port and enqueues.
- A receiver in another thread locks its namespace, clones its receive right, and waits on the port.
- Port death (the receive right put by `mach_port_destroy` or `deallocate`) wakes both kinds of waiter.
- Port sets reroute the receivers' wake-up.

**The behaviours that make this hard:**
- sleeping and waking through Linux `wait_event_*` with timeouts and signals;
- a sender's cleanup racing the receiver that dequeues its message;
- two lock scopes (namespace, then port);
- multi-step right transfer with abort and finish paths;
- stale right pointers kept across steps that may free them.

**Properties that make each part correct.**
- Delivery:
  - every delivery is in exactly one place;
  - `queue_size` equals the list length;
  - a successful send was received;
  - a sleeping sender whose message was received, or whose port died, returns from its wait;
  - FIFO order (spec §5).
- Send and right processing:
  - a MOVE consumes exactly one reference (spec §8);
  - a failed send leaves no partial consumption and no lock held (spec §4.2, §7);
  - a descriptor that does not resolve fails the send;
  - no right is used after it was put.
- Receive:
  - with `MACH_RCV_LARGE`, an oversize message stays queued (the comment at l.1005-1007, spec §4.5);
  - error paths release only what they took.
- Locks: no lock-order cycle between namespace and port locks; no thread waits forever for one; no thread sleeps holding one.
- The port as a whole: it behaves as a mailbox in which each message is posted once and then received, withdrawn or lost exactly once.

## 2. Modules

### `IpcDelivery` — `ipc_msg_deliver` and `ipc_msg_recv` on one port

**State.**
- Port: `alive`, `queue` (a sequence; the head is `list_first_entry`), `queue_size`, and `inSet` (`!hash_empty(port->sets)`).
- Per-sender delivery flags: `delivered`, `recipient_died`, `recipient_freed`.
- A program counter and options per thread: `spc`/`rpc`, `sopt`/`ropt`.
- The return codes.
- The history variables `enqOrder`, `dequeued`, `withdrawn` and `discarded`, kept for the properties.

**Sleeping.** The thread joins the wait queue and tests the condition in one step, as `wait_event_*` does. Then:
- `SendCheck` and `RecvCheck` model a wake-up that re-tests the condition;
- `SendTimeout`, `SendInterrupt`, `RecvTimeout` and `RecvInterrupt` model the early returns, which are possible only while the condition is false;
- `Wake(pc, ts)` is `wake_up` on the queue the threads `ts` sleep on.

**The leaked port lock.** After its wait, a sender retakes the port lock and unlocks it only if the port is still valid (l.534-545). A failed send to a port that died returns with the lock held, which `leaked` records. Every later step that locks the port then waits forever: `SendFinish`, `SendToDeadPort`, `RecvBegin` on the port's name, and a receiver's re-lock in `RecvCheck`. So the delivery cfgs set `CHECK_DEADLOCK FALSE`: the system really can stop there.

**Actions.** Each action is one critical section of the code:

| Action | What it covers |
|--------|----------------|
| `SendEnqueue` | l.436-483 with the SEND_ONCE return |
| `SendFinish` | the whole cleanup under the port lock, l.530-566 |
| `RecvDequeue` | l.979-1089 |
| `PortDestroy` | modelled from the spec: `ipc_port.c` is not in `src/` |
| `PortSetInsert`, `PortSetExtract` | the success paths of the insert/move and extract member traps (`traps.c`) |

**Port sets.** The port can join and leave one set. The receivers in `SetReceivers` call `ipc_msg_recv` on the set's name; the others use the port's name.
- On the set's name, `right->port` is the set's own port. The receiver tests the set's own list and `queue_size` (`RecvEmpty`, `RecvCond`), which no delivery to a member changes: `SetQueueSize` is 0.
- `ipc_msg_deliver` wakes the set's waiters when the port is in a set, and the port's own waiters otherwise (`WokenByDelivery`).
- A receive on the port's name while it is in a set fails with `MACH_RCV_IN_SET` at entry (`RecvEntry`). A receiver already inside the call is not re-checked.
- `PortSetOps` turns the member traps off for the liveness run.

### `IpcSendRights` — `ipc_msg_send` up to the hand-off

One send runs step by step over a namespace and a message that `Init` chooses from constant sets.

**Pointer model.**
- `table0` is the namespace at `ipc_space_lock`. The pointers `in_remote_right` and `in_local_right` point into it.
- `freed` records the names whose right object was put during the send. A later write through a stale pointer goes to freed memory and does not change `table`.

**Lock model.**
- `nsLock` counts namespace locks held.
- `portLock[p]` counts locks held on port p.
- `ipc_space_lookup` returns with the port locked; `ipc_right_put` does not unlock it (l.552-557).

**Actions.** One per step of the function:
- `SendLookup`, `SendProcessTarget`;
- `CopyInDescriptor`, `CopyInAbort`, `CopyInFinishDescriptor` for the walker callbacks;
- `SendProcessReply`, `SendEndTarget`, `SendEndReply`, `SendCheckDest`, `SendAbort`;
- `PortDies`, the one concurrent event. It is modelled from the spec and is possible only while no lock on the port is held.

### `Mailbox` — what a port promises

An abstract specification with no threads, locks or wait queues.
- **State:** `open`, and the sets `pending`, `received`, `withdrawn` and `lost`.
- **Actions:** `Post`, `Take` and `Withdraw` of one message, and `Close`.

`IpcDelivery` defines `AbstractMailbox == INSTANCE Mailbox WITH ...`, and `MailboxRefinement` is `AbstractMailbox!MSpec`. The refinement mapping:
- `open` is `alive`;
- `pending` is the set of queued deliveries;
- `received` is the set of dequeued ones;
- `withdrawn` and `lost` are the history sets of the same names (`discarded` for `lost`).

The refinement holds when every code step is a mailbox step or leaves all of these unchanged. In particular:
- a sender never withdraws a delivery a receiver already took;
- nothing is enqueued on, or dequeued from, a dead port.

FIFO order is deliberately not part of the promise, because the code does not keep it (`delivery_fifo`).

### `IpcTraps` — the lock behaviour of the traps

All threads of a task share its namespace lock `Ns` and the locks of the ports its names denote. The model abstracts each trap to the set of its **lock programs**: the sequence of acquisitions and releases that each control path performs, in code order. The paths come from the outcomes of the trap's lookups and checks.

**State and actions.**
- `owner` gives each lock's holder.
- Each thread has `prog`, its current program, and `pos`, its step in it.
- `Call` is `mach_dev_ioctl` dispatching a trap.
- `Acquire` and `Release` are the lock calls. An acquire waits while the lock is held, also by the same thread: the locks are not recursive.
- `Return` returns from the trap; `ThreadExit` is `do_exit`.
- A `Sleep` step of a program is a wait: the wait of `ipc_msg_deliver` for delivery (not for SEND_ONCE), the wait of `ipc_msg_recv` on an empty queue, and the sleep of `mach_semaphore_wait`. `Asleep(t)` holds while thread `t` is at such a step, and `Wake` ends it. The model does not track what ends a wait, so a wait may end at any time.

**What the programs translate.** Each trap operator (`mach_task_self_trap`, `mach_port_mod_refs_trap`, the member traps, the semaphore traps, `bsdthread_terminate_trap`, `mach_msg_overwrite_trap`) translates its function's lock calls and early returns. So do `SendCopyIn`, `ipc_msg_deliver`, `ipc_msg_recv` and `ipc_msg_recv_rejected` for the message path.

**The MIG server path.** `MigCall` is a send to a server port: `ipc_msg_deliver` hands the message, with the target still locked, to `ipc_msg_invoke_server`.
- Its error paths unlock the target and return.
- Otherwise it inserts the reply right into `kernel_namespace` (lock `KNs`) and runs the routine. Then it unlocks the target and sends the reply from `kernel_namespace` (`ReplySend`). A failed reply is put.
- The routines of `servers/thread_act.c` are `thread_terminate`, `thread_info` and the `KERN_NOT_SUPPORTED` stubs.
- The reply can only go to a port of which the task holds the receive right, so the recursive invoke (l.405) is not reachable from user messages and is not modelled.

**Assumptions about code outside `src/`**, taken from the spec:
- `ipc_space_lookup` returns with the port locked;
- `ipc_space_make_send`, `ipc_space_make_receive` and `ipc_space_right_insert` take the namespace lock themselves;
- `ipc_right_put_if_noref` and `ipc_space_right_put` release the port of the right they put;
- the semaphore primitives release the port they are handed, and `mach_semaphore_wait` sleeps after releasing it (the spec leaves the primitives unspecified; this is the only order in which a signal could reach a sleeping waiter).

**Not in this module.** What the traps do to the table, and the semaphore counts. No lock property depends on them.

**The call sets in `MCIpcTraps`:**
- `NsFirstCalls`: every call whose paths take the namespace lock before any port lock;
- `NsFirstCalls` includes the MIG calls to the thread port of the stub routines, which take no lock;
- `PortFirstCalls`: adds `mach_task_self_trap`, `mach_host_self_trap`, receives that insert a reply right, and `thread_info` on the thread port;
- `LeakingCalls`: adds the paths that end with a port still locked, and `thread_terminate` on the thread port;
- `SelfDeadlockCalls`: a semaphore pair naming one port twice.

## 3. Runs

| Run | Cfg | Expect | What it shows |
|-----|-----|--------|---------------|
| delivery_safety | `MCIpcDelivery.cfg` | pass | With 2 senders, 2 receivers (one on the port, one on a set the port joins and leaves), timeouts, signals, killable waits, oversize messages and port death, deliveries are conserved. `queue_size` matches the list. A SUCCESS send was received. The port refines `Mailbox`. |
| delivery_liveness | `MCIpcDelivery_live.cfg` | pass | With the port in no set and under weak fairness, a receiver waiting while a message is queued returns or sees the queue emptied (`ReceiverServed`). A sender asleep when its message has been received or its port has died leaves the wait (`SenderNotLeftAsleep`). It may then wait forever to retake the port lock, when an earlier sender's cleanup left the dead port locked (l.537-545); `traps_deadlock` covers that hang. |
| delivery_port_set | `MCIpcDelivery_ReceiverServed.cfg` | violation | `ReceiverServed` fails once the port is in a set. The trace: a receiver on the set is woken by each delivery to the member and sleeps again, because it tests the set's own queue. Also verified with no set receivers: a receiver asleep on the port before it joined the set is never woken (l.461). |
| delivery_fifo | `MCIpcDelivery_FifoOrder.cfg` | violation | The queue is LIFO: `list_add` (l.455) with `list_first_entry` (l.988). |
| delivery_aborted_send | `MCIpcDelivery_AbortedSendUndone.cfg` | violation | A send reporting interrupted or timed out is not undone (`AbortedSendUndone`, spec 8). The trace: the sender keeps the target right it consumed, because only the success branch puts it (l.530). Also verified: its message can have been received in the window before the sender retakes the port lock (l.539). |
| delivery_too_large | `MCIpcDelivery_LargeKeepsMessage.cfg` | violation | With `MACH_RCV_LARGE`, the comment at l.1005-1007 says an oversize message is not dequeued. The trace: the branch is empty, so the receive falls through to the free and unlink (l.1053-1056) and returns success with the message gone. Without the option the message is dropped with `MACH_RCV_TOO_LARGE`, as the comment at l.1000 says. |
| rights_send | `MCIpcSendRights.cfg` | pass | A send whose moves are covered and whose descriptors resolve consumes exactly the moved references. |
| rights_stale_pointer | `MCIpcSendRights_StashedRightsLive.cfg` | violation | `in_local_right` and `in_remote_right` are used after the descriptor finish put them. |
| rights_failed_send | `MCIpcSendRights_SendExitState.cfg` | violation | `ipc_msg_send` breaks its exit contract (`SendExitState`, spec 4.2). The trace shows `ipc_process_right_abort` leaving the port locked. The same property also covers: the dead-port path locks twice and unlocks the namespace twice; a reply failure leaves descriptor moves committed and descriptor rights leaked; and a bad descriptor does not fail the send, because `ipc_msg_complex_copyin` returns its untouched `ret` (l.794), so the message is handed on with the descriptor not copied in. |
| traps_locks | `MCIpcTraps.cfg` | pass | Two threads making any namespace-first calls, sleeps included, never wait for each other's locks in a cycle (`NoLockCycle`). |
| traps_sleep_locked | `MCIpcTraps_SleepsWithoutLocks.cfg` | violation | A thread sleeps holding a lock (`SleepsWithoutLocks`, spec 5). The trace: `semaphore_wait_signal_trap` locks both semaphores' ports, hands the wait port to `mach_semaphore_wait` and sleeps with the signal port still locked, since it signals only after the wait (l.832-835). |
| traps_deadlock | `MCIpcTraps_NoStuckThread.cfg` | violation | A thread waits forever. The trace is `semaphore_wait_signal_trap` with wait == signal (l.833): the thread locks the signal port, then looks the same port up again and waits for itself. Also verified: with `PortFirstCalls` alone, `mach_task_self_trap` (task port, then namespace) against a trap that holds the namespace and locks the task port to check its task name; with only `LeakingCalls`, a thread blocks on the port a rejected receive, a terminate on a dead semaphore, or a failed send to a dead port left locked. Also verified, each alone beside `NsFirstCalls`: `thread_info` holding the thread port waits for the namespace held by a trap that waits for the thread port; `thread_terminate` locks the thread port it already holds. |

`PROJECT.json` lists each finding with its source line.

**Bounds.**

`MCIpcDelivery`:
- **Threads:** two senders and two receivers. Two deliveries can be queued at once. In the safety run r1 receives on the port and r2 on the set, so only one receiver dequeues from the port; a receive racing a sender's cleanup needs only one.
- **Options:** four send-option records and three receive-option records cover every branch of the blocking code: timeout, interruptible, killable, SEND_ONCE, oversize with and without `MACH_RCV_LARGE`.
- **Receive calls:** `MaxRecvCalls = 2`, so a receiver can take a second message.
- **Symmetry:** over senders in the safety run only. Their options are chosen in `Init`, so permuting them maps behaviours to behaviours. The receivers are not symmetric there, because r2 receives on the set.
- **Port sets:** one set, and one receiver on it (r2) in the safety and port-set runs. That is enough for both wake-up failures, which each need one receiver and one sender. The safety run has 2.8 million states and takes 100 s.
- **Liveness run:** two option records per side and one receive call each, so that the run finishes.

`MCIpcSendRights`:
- **Names and ports:** two of each. Every right kind with one or two user references, and at most one entry per port.
- **Messages:** every message over those names with all six dispositions and at most one port descriptor. This gives 217,854 initial states and 3.5 million states in 35 s.
- **Why this is enough:** one descriptor and two names already let a name repeat between destination, reply and descriptor, which is what every finding needs.

`MCIpcTraps`:
- **Threads:** two threads with one call each. Every two-thread lock-order cycle and every leaked lock needs only one call per thread.
- **Ports:** the task port, the host port, a thread port (the server port of `thread_act`) and two user ports, so that a message, a port set or a semaphore pair can name two distinct ports.
- **Names:** trap arguments range over these ports and a name with no right.
- **Sends:** user sends in the call sets wait for delivery (not SEND_ONCE); the SEND_ONCE path is the MIG reply.
- **Run time:** the pass run has 323k states (with symmetry over the threads) and finishes in 11 s.

**Fairness.** Weak fairness is assumed only on steps a runnable thread takes by itself:
- a woken sender's re-test and its cleanup;
- a woken receiver's re-test and its dequeue step.

Linux runs a runnable task eventually, so these are justified. Timeouts, signals and port death are never forced.

`IpcTraps` checks only safety properties and assumes no fairness. Whether a wait ends depends on the task's user code: a semaphore may never be signalled, and the pair `semaphore_wait_signal(p1, p2)` / `semaphore_wait_signal(p2, p1)` waits forever. So the kernel does not promise that a trap returns. Sleeping while holding a lock is checked as a safety property (`SleepsWithoutLocks`).

## 4. Plan

Done in the order of importance:

1. `IpcDelivery` (done).
2. `IpcSendRights` (done).
3. `IpcTraps` and the refinement of `Mailbox` (done).
4. The lock behaviour of the MIG server path, in `IpcTraps` (done).
5. Port sets in `IpcDelivery`: membership, set receivers, the `IN_SET` check and the set wake-up (done).
6. Sleeping in `IpcTraps`: the waits of `ipc_msg_deliver`, `ipc_msg_recv` and `mach_semaphore_wait` (done).

Still to do:

7. **Receive entry error paths:** `MACH_RCV_INVALID_NAME`, `PORT_DIED` and `IN_SET` put the namespace's own right, not a clone. This needs the rights of `IpcSendRights`.
8. **`IpcNamespace`:** `mach_port_allocate`, `mod_refs`, `deallocate` and `destroy` composed with `IpcSendRights`. This adds reference counts on rights and ports, with which the target-right leak of `ipc_msg_deliver` (l.530, now seen as `holdsTarget`) becomes a count that never reaches zero.
9. **Semaphore counts:** with counts and signals, `semaphore_wait_signal_trap`'s wait-then-signal order becomes a deadlock TLC can show (a condition wait that keeps its mutex).

## 5. Not modelled

- **Character device and ioctl transport, BSD wrappers, dyld:** I/O and translation without concurrent state.
- **Semaphore counts:** the primitives (`mach_semaphore_*`) are outside `src/` and the spec leaves them unspecified. `IpcTraps` models their locking and the sleep of a wait, and lets a wait end at any time.
- **The table effects of the namespace and port-set traps:** `IpcTraps` abstracts them away. The name table lives in `ipc_space.c`, outside `src/`.
- **The NULL dereference in `bsdthread_terminate_trap`** on an invalid semaphore name.
- **The NULL dereference in `ipc_msg_invoke_server`** (l.329) of a MIG message without a reply port.
- **The recursive server invoke** (l.405): it needs a SEND_ONCE right to a server port, and no task can make one.
- **The thread registry** that `thread_terminate` changes: the routine never gets past its lookup when called through MIG.
- **Messages sent to a port set's own port, the destruction of a set, and several sets:** `IpcDelivery` has one port in at most one set.
- **Allocation failure** of `kmalloc` and `ipc_right_new`.
- **Out-of-line memory descriptors:** they carry no rights.
- **The 32/64-bit descriptor layout.**
