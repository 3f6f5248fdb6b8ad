------------------------------ MODULE Connections ------------------------------
(***************************************************************************)
(* What the command handlers and the event loop promise each other about    *)
(* connections.  A client is accepted, served, and disconnected; serving it *)
(* leaves output for clients that are connected, and only for them; it may  *)
(* be marked to be closed, with output for itself, and is then not served   *)
(* any more; output is flushed, and with the flush of a client marked close *)
(* the connection ends.                                                     *)
(*                                                                          *)
(* ChatServer implements it (the handlers, whatever commands arrive), and   *)
(* so does EventLoop (the kernel queue, whatever the handlers do).          *)
(***************************************************************************)
CONSTANT Fd

VARIABLES
    up,        \* the process runs
    clients,   \* the connected sockets
    closing,   \* the sockets whose client is marked close
    pending    \* the sockets with output that was not sent yet

vars == <<up, clients, closing, pending>>

Init == up = TRUE /\ clients = {} /\ closing = {} /\ pending = {}

Accept(f) ==
    /\ up /\ f \in Fd \ clients
    /\ clients' = clients \cup {f}
    /\ UNCHANGED <<up, closing, pending>>

\* A line of the client is handled, or a part of the handling of one.
Serve(f) ==
    /\ up /\ f \in clients \ closing
    /\ \E T \in SUBSET clients : pending' = pending \cup T
    /\ closing' \in {closing, closing \cup {f}}
    /\ f \in closing' => f \in pending'
    /\ UNCHANGED <<up, clients>>

Gone(f) ==
    /\ clients' = clients \ {f}
    /\ closing' = closing \ {f}
    /\ pending' = pending \ {f}

\* The connection ends, whatever is left to be sent.
Drop(f) == up /\ f \in clients /\ Gone(f) /\ UNCHANGED up

\* The last output of a client marked close.
Farewell(f) == up /\ f \in closing /\ f \in pending /\ Gone(f) /\ UNCHANGED up

Flush(f) ==
    /\ up /\ f \in pending \ closing
    /\ pending' = pending \ {f}
    /\ UNCHANGED <<up, clients, closing>>

Stop == up /\ up' = FALSE /\ UNCHANGED <<clients, closing, pending>>

Next ==
    \/ Stop
    \/ \E f \in Fd : Accept(f) \/ Serve(f) \/ Drop(f) \/ Farewell(f) \/ Flush(f)

SafeSpec == Init /\ [][Next]_vars

\* A client marked close is not kept forever.
Spec == SafeSpec /\ \A f \in Fd : WF_vars(Farewell(f))

================================================================================
