--------------------------- MODULE MCInterpreter ---------------------------
(* Pages for TLC to run the interpreter on. *)
EXTENDS Interpreter

\* A root document that asks, and a leaf that calls a subdialog.
Leaf == [root |-> None, leaf |-> "root"]
LeafDialogs == [root |-> <<<<"initial", "input">>, <<"other">>>>,
                leaf |-> <<<<"block", "subdialog">>>>]
=============================================================================
