----------------------------- MODULE MCConnections -----------------------------
(***************************************************************************)
(* Requests and engines are interchangeable.                               *)
(***************************************************************************)
EXTENDS Connections, TLC

Interchangeable == Permutations(Request) \cup Permutations(Engine)
=============================================================================
