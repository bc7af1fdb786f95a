-------------------------- MODULE MCIpcSendRights --------------------------
(***************************************************************************)
(* IpcSendRights for TLC: two names, two ports, and every message of at   *)
(* most MCMaxDescs port descriptors over those names.                     *)
(***************************************************************************)
EXTENDS IpcSendRights

CONSTANTS n1, n2, p1, p2

MCNames == {n1, n2}
MCPorts == {p1, p2}

\* At most this many port descriptors per message.
MCMaxDescs == 1

\* The rights a name may hold: a send right with one or two user
\* references, a receive right, or a send-once right.
MCEntries == {[type |-> SEND, refs |-> 1, port |-> p] : p \in MCPorts}
             \cup {[type |-> SEND, refs |-> 2, port |-> p] : p \in MCPorts}
             \cup {[type |-> t, refs |-> 1, port |-> p] :
                     t \in {RECEIVE, SEND_ONCE}, p \in MCPorts}

\* A namespace holds at most one entry per port.
MCTables == {t \in [MCNames -> MCEntries \cup {NoEntry}] :
               \A a, b \in MCNames :
                 a # b /\ t[a] # NoEntry /\ t[b] # NoEntry
                   => t[a].port # t[b].port}

MCDescs == [name : MCNames \cup {NULL}, disp : Dispositions]

MCMessages ==
  [dest : MCNames \cup {NULL}, destDisp : Dispositions,
   reply : MCNames \cup {NULL}, replyDisp : Dispositions,
   descs : UNION {[1 .. k -> MCDescs] : k \in 0 .. MCMaxDescs}]

\* A null reply name carries no disposition that matters: keep one.
MCMsgChoices == {m \in MCMessages :
                   m.reply = NULL => m.replyDisp = COPY_SEND}

====
