---------------------------- MODULE MCWireStream ----------------------------
(***************************************************************************)
(* WireStream with frames of at most 3 bytes of payload and a threshold of *)
(* 2: sizes below, at and above both, and payloads that compression makes  *)
(* larger.                                                                 *)
(***************************************************************************)
EXTENDS WireStream
=============================================================================
