---------------------------- MODULE MCMessageKey ----------------------------
(***************************************************************************)
(* Constants of the run of MessageKey.                                     *)
(***************************************************************************)
EXTENDS MessageKey

\* One text is the beginning of the others, which go on with a digit and a dash.
MCText == {<<Letter>>, <<Letter, Digit(1)>>, <<Letter, Dash>>}
=============================================================================
