------------------------------ MODULE MCBroker ------------------------------
(* Small instances of Broker.                                              *)
EXTENDS Broker

CONSTANTS h, d, b, r1, r2, window, lsp, other, taskH, taskB, manualD, manualH, manualB

\* One root, a jetbrains and an LSP service.  h runs under the Codex host taskH
\* and is identified by it; d runs under the same host, with the id an older
\* broker gave it; b too, but under another host and in a hybrid session.
OneRoot == [k \in Keys |-> IF k = other THEN r2 ELSE r1]
Asks == [c \in Clients |-> window]
Hybrid == [c \in Clients |-> IF c = b THEN lsp ELSE None]
Owner == [c \in Clients |-> CASE c = h -> taskH [] c = d -> manualD [] c = b -> manualB]
Manual == [c \in Clients |-> CASE c = h -> manualH [] c = d -> manualD [] c = b -> manualB]
Host == [c \in Clients |-> IF c = b THEN taskB ELSE taskH]

\* Two roots with one jetbrains service each: h and d share one, b has its own.
Apart == [c \in Clients |-> IF c = b THEN other ELSE window]
Alone == [c \in Clients |-> None]
OneTask == [c \in Clients |-> IF c = b THEN taskB ELSE taskH]
=============================================================================
