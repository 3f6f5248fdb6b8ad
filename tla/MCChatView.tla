------------------------------ MODULE MCChatView ------------------------------
(***************************************************************************)
(* ChatView for TLC, with the sockets and nicknames of MCChatServer.        *)
(***************************************************************************)
EXTENDS MCChatServer, ChatView

================================================================================
