------------------------------ MODULE MCEventLoop ------------------------------
(***************************************************************************)
(* Statements of the repository about the event loop that the code does not *)
(* keep.                                                                    *)
(***************************************************************************)
EXTENDS EventLoop

\* Server.cpp:134 - on an error the client's socket is closed, and the events
\* registered for it leave the queue: none of them reaches the next client of
\* that number.
DisconnectedByOwnEvents ==
    [][\A f \in clients : f \notin clients' => ~Head(events).stale]_vars

\* Server.cpp:206 - a send() that fails closes that connection, and no more.
SendErrorsAreLocal == status # "SIGPIPE"

================================================================================
