-------------------------------- MODULE Trees -------------------------------
(***************************************************************************)
(* What interpret() (vm.c) tells apart of the trees it gets from the       *)
(* parser before it asks what statement they are.                          *)
(***************************************************************************)

\* No statement starts with the first token; also an absent child.
None == [kind |-> "NONE"]

\* There was no token.
NoStatement == [kind |-> "NOTHING"]

\* The kind of the tree of a text at which the process ended.
Exited == "exited"
=============================================================================
