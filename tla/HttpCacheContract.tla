------------------------- MODULE HttpCacheContract -------------------------
(***************************************************************************)
(* What voiceglue main and its interpreter threads may rely on of the http *)
(* cache: a request is answered once; a parse tree named in an answer is   *)
(* the cache's at that moment; the cache owns a tree from the report of it *)
(* until it says that the tree is to be freed, which it says once.         *)
(* How long it keeps a page, and when it fetches it again, is its affair.  *)
(***************************************************************************)
EXTENDS Integers, Sequences

CONSTANTS Ids, None

VARIABLES
  open,      \* requests made and not answered
  owned,     \* trees the cache owns
  out        \* messages to main that main has not read

vars == <<open, owned, out>>

New     == SubSeq(out', Len(out) + 1, Len(out'))
OfType(type) == {i \in DOMAIN New : New[i].type = type}
Named(type) == {New[i].tree : i \in OfType(type)} \ {None}
Answered == {New[i].id : i \in OfType("done")}

Init == open = {} /\ owned = {} /\ out = <<>>

Ask == /\ \E id \in Ids \ open : open' = open \cup {id}
       /\ UNCHANGED <<owned, out>>

\* The cache serves what it has: any number of answers and trees to free.
Serve(reported) ==
  /\ Len(out') >= Len(out) /\ SubSeq(out', 1, Len(out)) = out
  /\ \A i, j \in OfType("done") : New[i].id = New[j].id => i = j
  /\ \A i, j \in OfType("free") : New[i].tree = New[j].tree => i = j
  /\ Answered \subseteq open
  /\ Named("done") \subseteq owned
  /\ Named("free") \subseteq owned
  /\ reported \cap owned = {}
  /\ open' = open \ Answered
  /\ owned' \subseteq (owned \cup reported) \ Named("free")

Deliver == /\ out # <<>> /\ out' = Tail(out)
           /\ UNCHANGED <<open, owned>>

Next == Ask \/ Deliver \/ \E reported \in SUBSET Ids : Serve(reported)

Spec == Init /\ [][Next]_vars
=============================================================================
