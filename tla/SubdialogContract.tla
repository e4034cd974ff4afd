------------------------- MODULE SubdialogContract -------------------------
(***************************************************************************)
(* What the interpreter promises pages that call each other: a document    *)
(* that calls a subdialog waits in the item it calls from, unchanged,      *)
(* until the subdialog returns; what is returned is taken in that item     *)
(* before the document goes anywhere else.  When the call ends, all ends.  *)
(***************************************************************************)
EXTENDS Integers, Sequences

CONSTANTS Docs, Items, NoItem

VARIABLES
  frames,    \* the documents that run, the one on top first, and the items
             \* they call a subdialog from
  returned   \* the subdialog has returned, its caller has not noticed

vars == <<frames, returned>>

Frame(d) == [doc |-> d, calls |-> NoItem]
Top      == Head(frames)
Calling  == frames # <<>> /\ Top.calls # NoItem

Init == frames = <<>> /\ returned = FALSE

\* The first document, or another one in place of the one that runs.
Load == /\ ~Calling /\ ~returned
        /\ \E d \in Docs :
             frames' = <<Frame(d)>> \o (IF frames = <<>> THEN <<>> ELSE Tail(frames))
        /\ UNCHANGED returned

Call == /\ frames # <<>> /\ ~Calling /\ ~returned
        /\ \E i \in Items : frames' = <<[Top EXCEPT !.calls = i]>> \o Tail(frames)
        /\ UNCHANGED returned
Enter == /\ Calling /\ ~returned
         /\ \E d \in Docs : frames' = <<Frame(d)>> \o frames
         /\ UNCHANGED returned

\* What the item does with what was returned to it may be to return in turn.
Return == /\ Len(frames) > 1 /\ ~Calling
          /\ frames' = Tail(frames) /\ returned' = TRUE
Resume == /\ Calling /\ returned
          /\ frames' = <<[Top EXCEPT !.calls = NoItem]>> \o Tail(frames)
          /\ UNCHANGED returned
Take == /\ ~Calling /\ returned
        /\ returned' = FALSE /\ UNCHANGED frames

End == frames # <<>> /\ frames' = <<>> /\ returned' = FALSE

Next == Load \/ Call \/ Enter \/ Return \/ Resume \/ Take \/ End

Spec == Init /\ [][Next]_vars
=============================================================================
