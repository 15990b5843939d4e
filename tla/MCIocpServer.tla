---------------------------- MODULE MCIocpServer ----------------------------
(* Two handlers and two clients.                                            *)
EXTENDS IocpServer

CONSTANTS h1, h2, a1, a2

MCHandlers == {h1, h2}
MCClients == {a1, a2}

=============================================================================
