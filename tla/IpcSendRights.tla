--------------------------- MODULE IpcSendRights ---------------------------
(***************************************************************************)
(* The first half of ipc_msg_send (src/src/lkm/ipc_msg.c): with the       *)
(* sender's namespace locked, the destination and reply names are looked  *)
(* up, the rights the message asks for are produced (ipc_process_right),  *)
(* the port descriptors of a complex message are copied in by the        *)
(* descriptor walker, the source rights are committed (ipc_process_right_ *)
(* end) or, on an error, the produced rights are aborted                  *)
(* (ipc_process_right_abort); then the destination port is locked and     *)
(* checked alive before the message is handed to ipc_msg_deliver.         *)
(*                                                                         *)
(* One send is modelled, step by step; the namespace lock excludes every  *)
(* other namespace operation, so the only concurrent event is the death   *)
(* of a port (its receive right released by another thread).  A message  *)
(* and the sender's namespace are chosen in Init from constant sets.      *)
(*                                                                         *)
(* Lock effects are counted: nsLock for the namespace lock, portLock[p]   *)
(* for each port lock.  ipc_space_lookup returns with the right's port    *)
(* locked; ipc_space_lookup_unlocked does not lock it; ipc_right_put does *)
(* not unlock it (see ipc_msg_deliver, l.552-557).  The lock and unlock   *)
(* inside ipc_process_right balance and are left out.                     *)
(***************************************************************************)
EXTENDS Integers, Sequences, FiniteSets

CONSTANTS
  Names,         \* port names of the sender's namespace (model values)
  Ports,         \* ports those names refer to
  NULL,          \* the null port name, 0
  NoEntry,       \* model value: no right under a name
  NoRight,       \* model value: a null right pointer
  TableChoices,  \* the namespaces the sender may start with
  MsgChoices     \* the messages the sender may send

ASSUME NULL \notin Names

\* Right types and message dispositions (mach/port.h, mach/message.h).
SEND == "SEND"
RECEIVE == "RECEIVE"
SEND_ONCE == "SEND_ONCE"
RightTypes == {SEND, RECEIVE, SEND_ONCE}
COPY_SEND == "COPY_SEND"
MOVE_SEND == "MOVE_SEND"
MAKE_SEND == "MAKE_SEND"
MAKE_SEND_ONCE == "MAKE_SEND_ONCE"
MOVE_SEND_ONCE == "MOVE_SEND_ONCE"
MOVE_RECEIVE == "MOVE_RECEIVE"
Dispositions == {COPY_SEND, MOVE_SEND, MAKE_SEND, MAKE_SEND_ONCE,
                 MOVE_SEND_ONCE, MOVE_RECEIVE}

\* Return codes.
SUCCESS == "MACH_MSG_SUCCESS"
INVALID_DEST == "MACH_SEND_INVALID_DEST"
INVALID_REPLY == "MACH_SEND_INVALID_REPLY"
INVALID_TYPE == "MACH_SEND_INVALID_TYPE"
INVALID_HEADER == "MACH_SEND_INVALID_HEADER"
Errors == {INVALID_DEST, INVALID_REPLY, INVALID_TYPE, INVALID_HEADER}

Entry == [type : RightTypes, refs : Nat \ {0}, port : Ports]
Right == [type : RightTypes, port : Ports]
Descriptor == [name : Names \cup {NULL}, disp : Dispositions]
Message == [dest : Names \cup {NULL}, destDisp : Dispositions,
            reply : Names \cup {NULL}, replyDisp : Dispositions,
            descs : Seq(Descriptor)]

VARIABLES
  table,     \* the namespace: name -> right entry or NoEntry
  alive,     \* PORT_IS_VALID, per port
  msg,       \* the message being sent
  pc,        \* step of ipc_msg_send
  idx,       \* descriptor index of the walker
  target,    \* kmsg->target
  reply,     \* kmsg->reply
  items,     \* kmsg->complex_items, one per descriptor
  live,      \* produced rights not yet put, by RightId
  freed,     \* names whose right object has been put during this send
  ret,       \* the return code
  nsLock,    \* namespace lock count
  portLock,  \* port lock counts
  table0     \* the namespace as the send found it (history)

vars == <<table, alive, msg, pc, idx, target, reply, items, live, freed, ret,
          nsLock, portLock, table0>>

-----------------------------------------------------------------------------
\* ipc_space_lookup_unlocked: the entry under a name, NoEntry for 0.
Lookup(n) == IF n \in Names THEN table[n] ELSE NoEntry

\* ipc_process_right: the right produced for a disposition from the
\* sender's entry, or the error code.
Produced(t, p) == [ok |-> TRUE, right |-> [type |-> t, port |-> p]]
Failed(code) == [ok |-> FALSE, err |-> code]

ProcessRight(disp, e) ==
  CASE disp \in {COPY_SEND, MOVE_SEND} ->
         IF e.type = SEND THEN Produced(SEND, e.port) ELSE Failed(INVALID_TYPE)
    [] disp \in {MAKE_SEND, MAKE_SEND_ONCE} ->
         IF e.type = RECEIVE
           THEN Produced(IF disp = MAKE_SEND THEN SEND ELSE SEND_ONCE, e.port)
           ELSE Failed(INVALID_TYPE)
    [] disp = MOVE_SEND_ONCE ->
         IF e.type = SEND_ONCE THEN Produced(SEND_ONCE, e.port)
                               ELSE Failed(INVALID_TYPE)
    [] OTHER -> Failed(INVALID_HEADER)

\* Plausible slips in the code below, each a variant of one definition.
\* A MOVE_SEND that reaches zero references leaves the name in place.
EndRightKeepsEmpty(disp, n) ==
  /\ table' = IF n \in freed \/ disp \notin {MOVE_SEND, MOVE_SEND_ONCE} THEN table
              ELSE IF disp = MOVE_SEND_ONCE THEN [table EXCEPT ![n] = NoEntry]
              ELSE [table EXCEPT ![n].refs = @ - 1]
  /\ freed' = IF n \notin freed /\ disp = MOVE_SEND_ONCE THEN freed \cup {n}
              ELSE freed
\* COPY_SEND falls through into the MOVE_SEND case.
EndRightCopyDecrements(disp, n) ==
  LET removes == n \notin freed /\ disp \in {COPY_SEND, MOVE_SEND}
                 /\ table[n].refs = 1
  IN
  /\ table' = IF n \in freed \/ disp \notin {COPY_SEND, MOVE_SEND, MOVE_SEND_ONCE}
                THEN table
              ELSE IF removes \/ disp = MOVE_SEND_ONCE
                THEN [table EXCEPT ![n] = NoEntry]
              ELSE [table EXCEPT ![n].refs = @ - 1]
  /\ freed' = IF removes \/ (n \notin freed /\ disp = MOVE_SEND_ONCE)
                THEN freed \cup {n} ELSE freed

\* ipc_process_right_end on the right under name n: a MOVE_SEND drops one
\* user reference and removes the name at zero; a MOVE_SEND_ONCE removes
\* it; COPY and MAKE leave it.  A right whose object was already put is
\* freed memory: the write goes there and the namespace is not changed.
EndRight(disp, n) ==
  LET e == table[n]
      gone == n \in freed
      removes == /\ ~gone
                  /\ \/ disp = MOVE_SEND_ONCE
                     \/ disp = MOVE_SEND /\ e.refs = 1
  IN
  /\ table' = IF gone \/ disp \notin {MOVE_SEND, MOVE_SEND_ONCE} THEN table
              ELSE IF removes THEN [table EXCEPT ![n] = NoEntry]
              ELSE [table EXCEPT ![n].refs = @ - 1]
  /\ freed' = IF removes THEN freed \cup {n} ELSE freed

\* ipc_process_right_abort of a produced right: its port is locked and the
\* right put; the lock is not released.
AbortLocks(rights) ==
  [p \in Ports |-> portLock[p] + Cardinality({k \in DOMAIN rights :
                                   rights[k] # NoRight /\ rights[k].port = p})]

IsComplex == msg.descs # <<>>

\* Identities of the rights a send produces.
TargetId == <<"target", 0>>
ReplyId == <<"reply", 0>>
ItemId(i) == <<"item", i>>

MoveDisps == {MOVE_SEND, MOVE_SEND_ONCE}

-----------------------------------------------------------------------------
Init ==
  /\ table \in TableChoices
  /\ table0 = table
  /\ alive = [p \in Ports |-> TRUE]
  /\ msg \in MsgChoices
  /\ pc = "lookup"
  /\ idx = 1
  /\ target = NoRight
  /\ reply = NoRight
  /\ items = [i \in DOMAIN msg.descs |-> NoRight]
  /\ live = {}
  /\ freed = {}
  /\ ret = SUCCESS
  /\ nsLock = 0
  /\ portLock = [p \in Ports |-> 0]

\* ipc_msg_send, l.222-245: lock the namespace, look up the destination
\* and, when one is given, the reply name.  The pointers found here
\* (in_remote_right, in_local_right) point at the entries of table0.
SendLookup ==
  /\ pc = "lookup"
  /\ nsLock' = nsLock + 1
  /\ CASE Lookup(msg.dest) = NoEntry ->
           ret' = INVALID_DEST /\ pc' = "err"
      [] msg.reply # NULL /\ Lookup(msg.reply) = NoEntry ->
           ret' = INVALID_REPLY /\ pc' = "err"
      [] OTHER -> pc' = "target" /\ UNCHANGED ret
  /\ UNCHANGED <<table, alive, msg, idx, target, reply, items, live, freed,
                 portLock, table0>>

\* l.247-256: produce the target right, kmsg->target.
SendProcessTarget ==
  LET r == ProcessRight(msg.destDisp, table0[msg.dest]) IN
  /\ pc = "target"
  /\ IF r.ok
       THEN /\ target' = r.right
            /\ live' = live \cup {TargetId}
            /\ pc' = IF IsComplex THEN "copyin" ELSE "reply"
            /\ UNCHANGED ret
       ELSE ret' = r.err /\ pc' = "err" /\ UNCHANGED <<target, live>>
  /\ UNCHANGED <<table, alive, msg, idx, reply, items, freed, nsLock,
                 portLock, table0>>

\* __ipc_msg_copyin_complex, walked by ipc_msg_complex_copyin (l.775-778):
\* a null name gives a null item; a missing name or a failed
\* ipc_process_right stops the walk and goes to the abort walk.
CopyInDescriptor ==
  LET d == msg.descs[idx]
      e == Lookup(d.name)
      r == IF e = NoEntry THEN Failed(INVALID_DEST) ELSE ProcessRight(d.disp, e)
      ok == d.name = NULL \/ r.ok
  IN
  /\ pc = "copyin"
  /\ IF ok
       THEN /\ items' = [items EXCEPT ![idx] = IF d.name = NULL THEN NoRight ELSE r.right]
            /\ live' = IF d.name = NULL THEN live ELSE live \cup {ItemId(idx)}
            /\ pc' = IF idx = Len(msg.descs) THEN "cfinish" ELSE "copyin"
            /\ idx' = IF idx = Len(msg.descs) THEN 1 ELSE idx + 1
       ELSE pc' = "cabort" /\ UNCHANGED <<items, live, idx>>
  /\ UNCHANGED <<table, alive, msg, target, reply, freed, ret, nsLock,
                 portLock, table0>>

\* ipc_msg_complex_copyin, l.786-794, with __ipc_msg_copyin_complex_abort:
\* every produced item is aborted (its port locked, the right put), the
\* item array is freed, and the local ret, still KERN_SUCCESS, is returned,
\* so ipc_msg_send carries on with the reply right.
CopyInAbort ==
  /\ pc = "cabort"
  /\ portLock' = AbortLocks(items)
  /\ live' = live \ {ItemId(i) : i \in DOMAIN items}
  /\ items' = [i \in DOMAIN items |-> NoRight]
  /\ pc' = "reply"
  /\ UNCHANGED <<table, alive, msg, idx, target, reply, freed, ret, nsLock,
                 table0>>

\* __ipc_msg_copyin_complex_finish (l.712-749) on one descriptor: the name
\* is looked up again with ipc_space_lookup (which locks the entry's port),
\* ipc_process_right_end commits the disposition, and the item's port is
\* unlocked, whether or not the lookup found the name.
CopyInFinishDescriptor ==
  LET d == msg.descs[idx]
      item == items[idx]
      e == Lookup(d.name)
  IN
  /\ pc = "cfinish"
  /\ IF item = NoRight
       THEN UNCHANGED <<table, freed, portLock>>
       ELSE IF e = NoEntry
       THEN /\ portLock' = [portLock EXCEPT ![item.port] = @ - 1]
            /\ UNCHANGED <<table, freed>>
       ELSE /\ EndRight(d.disp, d.name)
            /\ portLock' = [portLock EXCEPT ![e.port] = @ + 1,
                                             ![item.port] = @ - 1]
  /\ pc' = IF idx = Len(msg.descs) THEN "reply" ELSE "cfinish"
  /\ idx' = IF idx = Len(msg.descs) THEN idx ELSE idx + 1
  /\ UNCHANGED <<alive, msg, target, reply, items, live, ret, nsLock, table0>>

\* l.265-275: produce the reply right from in_local_right, the pointer
\* found at l.237, whose object the complex finish may have put since.
SendProcessReply ==
  LET r == ProcessRight(msg.replyDisp, table0[msg.reply]) IN
  /\ pc = "reply"
  /\ IF msg.reply = NULL
       THEN pc' = "end_target" /\ UNCHANGED <<reply, live, ret>>
       ELSE IF r.ok
       THEN reply' = r.right /\ live' = live \cup {ReplyId} /\ pc' = "end_target"
            /\ UNCHANGED ret
       ELSE ret' = r.err /\ pc' = "err" /\ UNCHANGED <<reply, live>>
  /\ UNCHANGED <<table, alive, msg, idx, target, items, freed, nsLock,
                 portLock, table0>>

\* l.277-278: commit the destination disposition on in_remote_right.
SendEndTarget ==
  /\ pc = "end_target"
  /\ EndRight(msg.destDisp, msg.dest)
  /\ pc' = "end_reply"
  /\ UNCHANGED <<alive, msg, idx, target, reply, items, live, ret, nsLock,
                 portLock, table0>>

\* l.280-287: commit the reply disposition, unlock the namespace.
SendEndReply ==
  /\ pc = "end_reply"
  /\ IF msg.reply # NULL THEN EndRight(msg.replyDisp, msg.reply)
                         ELSE UNCHANGED <<table, freed>>
  /\ nsLock' = nsLock - 1
  /\ pc' = "check"
  /\ UNCHANGED <<alive, msg, idx, target, reply, items, live, ret, portLock,
                 table0>>

\* l.289-297: lock the target port; a dead port goes to err, a live one
\* is handed, locked, to ipc_msg_deliver.
SendCheckDest ==
  /\ pc = "check"
  /\ portLock' = [portLock EXCEPT ![target.port] = @ + 1]
  /\ IF alive[target.port]
       THEN pc' = "handoff" /\ UNCHANGED ret
       ELSE pc' = "err" /\ ret' = INVALID_DEST
  /\ UNCHANGED <<table, alive, msg, idx, target, reply, items, live, freed,
                 nsLock, table0>>

\* l.302-312: abort the target and reply rights, unlock the namespace.
SendAbort ==
  /\ pc = "err"
  /\ portLock' = AbortLocks(<<target, reply>>)
  /\ live' = live \ {TargetId, ReplyId}
  /\ nsLock' = nsLock - 1
  /\ pc' = "failed"
  /\ UNCHANGED <<table, alive, msg, idx, target, reply, items, freed, ret,
                 table0>>

\* Another thread releases the receive right of port p, which it can do
\* only while nobody holds the port lock.
PortDies(p) ==
  /\ alive[p]
  /\ portLock[p] = 0
  /\ pc \notin {"handoff", "failed"}
  /\ alive' = [alive EXCEPT ![p] = FALSE]
  /\ UNCHANGED <<table, msg, pc, idx, target, reply, items, live, freed, ret,
                 nsLock, portLock, table0>>

\* ipc_msg_send has returned or handed the message to ipc_msg_deliver.
Done ==
  /\ pc \in {"handoff", "failed"}
  /\ UNCHANGED vars

Next ==
  \/ SendLookup \/ SendProcessTarget \/ CopyInDescriptor \/ CopyInAbort
  \/ CopyInFinishDescriptor \/ SendProcessReply \/ SendEndTarget
  \/ SendEndReply \/ SendCheckDest \/ SendAbort
  \/ \E p \in Ports : PortDies(p)
  \/ Done

Spec == Init /\ [][Next]_vars

-----------------------------------------------------------------------------
\* The namespace keeps only live entries (a right with no user reference is
\* removed), the produced rights are rights, and the step is a step.
TypeOK ==
  /\ table \in [Names -> Entry \cup {NoEntry}]
  /\ alive \in [Ports -> BOOLEAN]
  /\ pc \in {"lookup", "target", "copyin", "cabort", "cfinish", "reply",
             "end_target", "end_reply", "check", "err", "handoff", "failed"}
  /\ target \in Right \cup {NoRight}
  /\ reply \in Right \cup {NoRight}
  /\ items \in [DOMAIN msg.descs -> Right \cup {NoRight}]
  /\ freed \subseteq Names
  /\ ret \in Errors \cup {SUCCESS}
  /\ nsLock \in Int /\ portLock \in [Ports -> Int]

\* The (name, disposition) pairs of the message: destination, reply and
\* port descriptors.
Uses == <<[name |-> msg.dest, disp |-> msg.destDisp]>>
        \o (IF msg.reply = NULL THEN <<>>
            ELSE <<[name |-> msg.reply, disp |-> msg.replyDisp]>>)
        \o msg.descs

\* The number of MOVE dispositions the message applies to name n.
MovesOf(n) == Cardinality({i \in DOMAIN Uses :
                             Uses[i].name = n /\ Uses[i].disp \in MoveDisps})

\* The sender holds enough user references for every move it asks for.
MovesCovered == \A n \in Names :
                  table0[n] # NoEntry => MovesOf(n) <= table0[n].refs

\* Every non-null descriptor names a right its disposition applies to.
DescriptorsResolve ==
  \A i \in DOMAIN msg.descs :
    LET d == msg.descs[i] IN
    d.name = NULL \/ (table0[d.name] # NoEntry
                      /\ ProcessRight(d.disp, table0[d.name]).ok)

\* The namespace a correct send leaves: each MOVE_SEND takes one user
\* reference, a MOVE_SEND_ONCE the right itself, and a right left without
\* references is removed; COPY and MAKE leave the sender's rights alone.
ExpectedEntry(n) ==
  LET e == table0[n]
      k == MovesOf(n)
  IN  IF e = NoEntry \/ k = 0 THEN e
      ELSE IF e.type = SEND_ONCE \/ k = e.refs THEN NoEntry
      ELSE [e EXCEPT !.refs = @ - k]

\* When ipc_msg_send hands a message to ipc_msg_deliver, the finish steps
\* (the descriptor walk, then the target and reply rights) have consumed
\* from every name exactly the references its moves took: for every
\* message whose descriptors resolve and whose moves the sender's
\* references cover.
MovedRefsConsumed ==
  (pc = "handoff" /\ MovesCovered /\ DescriptorsResolve)
    => table = [n \in Names |-> ExpectedEntry(n)]

\* The right objects in_remote_right and in_local_right, looked up before
\* the complex finish, are still live whenever ipc_msg_send dereferences
\* them afterwards: to produce the reply right, and to commit a MOVE on
\* the destination or reply right.
StashedRightsLive ==
  /\ pc = "reply" /\ msg.reply # NULL => msg.reply \notin freed
  /\ pc = "end_target" /\ msg.destDisp \in MoveDisps => msg.dest \notin freed
  /\ pc = "end_reply" /\ msg.reply # NULL /\ msg.replyDisp \in MoveDisps
       => msg.reply \notin freed

\* Spec 4.2, the exit contract of ipc_msg_send: a send that fails leaves
\* the sender's namespace as it found it, every right it produced
\* released (no partial right consumption), the namespace lock released
\* exactly once and no port locked; a send that hands the message on has
\* copied in every port descriptor (step 3: a descriptor naming nothing,
\* or a right of the wrong type, makes the send fail) and holds the
\* target port's lock and no other.
DescriptorsCopiedIn ==
  \A i \in DOMAIN msg.descs : msg.descs[i].name # NULL => ItemId(i) \in live

SendExitState ==
  /\ pc = "failed" => /\ table = table0 /\ live = {}
                     /\ nsLock = 0 /\ \A p \in Ports : portLock[p] = 0
  /\ pc = "handoff" => /\ DescriptorsCopiedIn
                      /\ nsLock = 0
                      /\ \A p \in Ports :
                           portLock[p] = IF p = target.port THEN 1 ELSE 0

====
