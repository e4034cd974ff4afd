----------------------------- MODULE MCRouting -----------------------------
(***************************************************************************)
(* voiceglue, a client that registers and makes a call, and one that       *)
(* serves calls.                                                           *)
(***************************************************************************)
EXTENDS VglueLifecycle

CONSTANTS vg, cl, sv, ch1, ch2

MCCovers == [u \in Urls |-> Dnis]
=============================================================================
