-------------------------- MODULE MCHttpConnection --------------------------
(* Instance of HttpConnection for TLC. *)
EXTENDS HttpConnection, TLC
=============================================================================
