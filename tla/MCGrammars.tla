----------------------------- MODULE MCGrammars -----------------------------
(* Pages for TLC to load grammars from. *)
EXTENDS Grammars

Grammar(place, attribute, dialog, field, dynamic, text) ==
  [place |-> place, attribute |-> attribute, dialog |-> dialog,
   field |-> field, dynamic |-> dynamic, text |-> text]

\* A leaf: a form with a field, which has a grammar of its own and one that is
\* an expression, with the same text.  A root: a form and a link.
LeafRoot == [leaf |-> "root", root |-> None]
LeafPage ==
  [leaf |-> <<Grammar("field", "none", "form", "field", FALSE, "digits"),
              Grammar("field", "dialog", "form", "other", TRUE, "digits")>>,
   root |-> <<Grammar("dialog", "document", "main", "", FALSE, "menu"),
              Grammar("dialog", "none", "main", "", FALSE, "choice")>>]
LeafLinks == <<"help">>

Item(kind, dialog, field, modal, universals) ==
  [kind |-> kind, dialog |-> dialog, field |-> field, modal |-> modal,
   universals |-> universals]
LeafItems ==
  [leaf |-> {Item("field", "form", "field", FALSE, TRUE),
             Item("field", "form", "other", TRUE, FALSE),
             Item("record", "form", "record", TRUE, FALSE),
             Item("transfer", "form", "transfer", TRUE, TRUE),
             Item("subdialog", "form", "call", FALSE, FALSE)},
   root |-> {Item("field", "main", "main", FALSE, FALSE)}]

Ten == 1..10
=============================================================================
