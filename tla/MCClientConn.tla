---------------------------- MODULE MCClientConn ----------------------------
(* ClientConn with a will topic and two messages for it. *)
EXTENDS ClientConn

Wills == {Empty, [topic |-> "a", msg |-> "x"]}
=============================================================================
