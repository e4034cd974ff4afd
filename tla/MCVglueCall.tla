---------------------------- MODULE MCVglueCall ----------------------------
(***************************************************************************)
(* Instances of VglueCall for TLC.  The grammar accepts "1" and "11": one  *)
(* key can be a match that may go on, a complete match, or no match.       *)
(***************************************************************************)
EXTENDS VglueCall

MCMatch(digits) ==
  CASE digits = <<>>         -> 0
    [] digits = <<"1">>      -> 1
    [] digits = <<"1", "1">> -> 2
    [] OTHER                 -> -1

\* Made or not made; an audio item never needs a parse.
MCAudioStatuses == {-1, 1}
=============================================================================
