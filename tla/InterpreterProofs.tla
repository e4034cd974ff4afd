------------------------- MODULE InterpreterProofs -------------------------
(***************************************************************************)
(* What holds of the interpreter for every set of pages and every limit on *)
(* its stack, its rethrows and its events.                                 *)
(***************************************************************************)
EXTENDS Interpreter, SequenceTheorems, TLAPS

-----------------------------------------------------------------------------
(* The scope stack.                                                         *)

Scopes == {"session", "defaults", "application", "document", "dialog", "local",
           "anonymous"}

\* The stack with the scopes up to the n-th, and an anonymous one on top.
Over(n) == Append(Outer(n), "anonymous")
Same(c, scopes) == [c EXCEPT !.scopes = scopes]

\* The first elements of a sequence.
LEMMA Elements ==
  ASSUME NEW S, NEW s \in Seq(S), NEW n \in Nat, n <= Len(s)
  PROVE  \A i \in 1..n : s[i] \in S
<1> TAKE i \in 1..n
<1>1. i \in 1..Len(s)
  OBVIOUS
<1> QED
  BY <1>1, ElementOfSeq

\* The scopes of each level, one by one.
LEMMA OuterIs ==
  ASSUME NEW n \in 2..6
  PROVE  /\ Outer(n) \in Seq(Scopes) /\ Len(Outer(n)) = n
         /\ \A i \in 1..n : Outer(n)[i] = Order[i]
<1>1. Order \in Seq(Scopes) /\ Len(Order) = 6
  BY DEF Order, Scopes
<1>2. \A i \in 1..n : Order[i] \in Scopes
  BY <1>1, Elements
<1> QED
  BY <1>2, SubSeqProperties DEF Outer

\* Taking the scope on top off,
LEMMA OuterDown ==
  ASSUME NEW n \in 3..6
  PROVE  SubSeq(Outer(n), 1, Len(Outer(n)) - 1) = Outer(n - 1)
<1>1. /\ Outer(n) \in Seq(Scopes) /\ Len(Outer(n)) = n
      /\ Outer(n - 1) \in Seq(Scopes) /\ Len(Outer(n - 1)) = n - 1
      /\ \A i \in 1..n - 1 : Outer(n)[i] = Outer(n - 1)[i]
  <2>1. PICK m \in 2..6 : m = n - 1
    OBVIOUS
  <2>2. /\ Outer(m) \in Seq(Scopes) /\ Len(Outer(m)) = m
        /\ \A i \in 1..m : Outer(m)[i] = Order[i]
    BY OuterIs
  <2>3. /\ Outer(n) \in Seq(Scopes) /\ Len(Outer(n)) = n
        /\ \A i \in 1..n : Outer(n)[i] = Order[i]
    <3>1. n \in 2..6
      OBVIOUS
    <3> QED
      BY <3>1, OuterIs
  <2>4. ASSUME NEW i \in 1..m  PROVE Outer(n)[i] = Outer(m)[i]
    <3>1. i \in 1..n
      BY <2>1
    <3> QED
      BY <2>2, <2>3, <3>1
  <2> QED
    BY <2>1, <2>2, <2>3, <2>4
<1>2. \A i \in 1..n - 1 : Outer(n)[i] \in Scopes
  BY <1>1, Elements
<1>3. /\ SubSeq(Outer(n), 1, n - 1) \in Seq(Scopes)
      /\ Len(SubSeq(Outer(n), 1, n - 1)) = n - 1
      /\ \A i \in 1..n - 1 : SubSeq(Outer(n), 1, n - 1)[i] = Outer(n)[i]
  BY <1>2, SubSeqProperties
<1> QED
  BY <1>1, <1>3, SeqEqual

\* pushing the next one,
LEMMA OuterUp ==
  ASSUME NEW n \in 2..5
  PROVE  Append(Outer(n), Order[n + 1]) = Outer(n + 1)
<1>1. /\ Outer(n) \in Seq(Scopes) /\ Len(Outer(n)) = n
      /\ Outer(n + 1) \in Seq(Scopes) /\ Len(Outer(n + 1)) = n + 1
      /\ \A i \in 1..n : Outer(n + 1)[i] = Outer(n)[i]
      /\ Outer(n + 1)[n + 1] = Order[n + 1]
  <2>1. PICK m \in 2..6 : m = n + 1
    OBVIOUS
  <2>2. /\ Outer(m) \in Seq(Scopes) /\ Len(Outer(m)) = m
        /\ \A i \in 1..m : Outer(m)[i] = Order[i]
    BY OuterIs
  <2>3. /\ Outer(n) \in Seq(Scopes) /\ Len(Outer(n)) = n
        /\ \A i \in 1..n : Outer(n)[i] = Order[i]
    <3>1. n \in 2..6
      OBVIOUS
    <3> QED
      BY <3>1, OuterIs
  <2>4. ASSUME NEW i \in 1..n  PROVE Outer(m)[i] = Outer(n)[i]
    <3>1. i \in 1..m
      BY <2>1
    <3> QED
      BY <2>2, <2>3, <3>1
  <2>5. Outer(m)[m] = Order[m]
    <3>1. m \in 1..m
      OBVIOUS
    <3> QED
      BY <2>2, <3>1
  <2> QED
    BY <2>1, <2>2, <2>3, <2>4, <2>5
<1>2. Order[n + 1] \in Scopes
  BY <1>1, ElementOfSeq
<1> QED
  BY <1>1, <1>2, AppendProperties, SeqEqual

\* and taking an anonymous one off.
LEMMA OverIs ==
  ASSUME NEW n \in 2..6
  PROVE  /\ Over(n) \in Seq(Scopes) /\ Len(Over(n)) = n + 1
         /\ Over(n)[n + 1] = "anonymous"
         /\ SubSeq(Over(n), 1, Len(Over(n)) - 1) = Outer(n)
<1>1. Outer(n) \in Seq(Scopes) /\ Len(Outer(n)) = n
  BY OuterIs
<1>2. /\ Over(n) \in Seq(Scopes) /\ Len(Over(n)) = n + 1
      /\ Over(n)[n + 1] = "anonymous"
      /\ \A i \in 1..n : Over(n)[i] = Outer(n)[i]
  BY <1>1, AppendProperties DEF Over, Scopes
<1>3. \A i \in 1..n : Over(n)[i] \in Scopes
  BY <1>2, Elements
<1>4. /\ SubSeq(Over(n), 1, n) \in Seq(Scopes)
      /\ Len(SubSeq(Over(n), 1, n)) = n
      /\ \A i \in 1..n : SubSeq(Over(n), 1, n)[i] = Over(n)[i]
  BY <1>3, SubSeqProperties
<1>5. SubSeq(Over(n), 1, n) = Outer(n)
  BY <1>1, <1>2, <1>4, SeqEqual
<1> QED
  BY <1>2, <1>5

\* What is on top.
LEMMA Tops ==
  ASSUME NEW c, NEW n \in 2..6, NEW name
  PROVE  /\ c.scopes = Outer(n) => (CurrentScope(c, name) <=> name = Order[n])
         /\ c.scopes = Over(n) => (CurrentScope(c, name) <=> name = "anonymous")
<1>1. Len(Outer(n)) = n /\ Outer(n)[n] = Order[n]
  <2>1. Len(Outer(n)) = n /\ \A i \in 1..n : Outer(n)[i] = Order[i]
    BY OuterIs
  <2>2. n \in 1..n
    OBVIOUS
  <2> QED
    BY <2>1, <2>2
<1>2. Len(Over(n)) = n + 1 /\ Over(n)[n + 1] = "anonymous"
  BY OverIs
<1>3. ASSUME c.scopes = Outer(n)
      PROVE  CurrentScope(c, name) <=> name = Order[n]
  BY <1>1, <1>3 DEF CurrentScope
<1>4. ASSUME c.scopes = Over(n)
      PROVE  CurrentScope(c, name) <=> name = "anonymous"
  BY <1>2, <1>4 DEF CurrentScope
<1> QED
  BY <1>3, <1>4

\* Popping a scope if it is the one on top.
LEMMA PopAnonymous ==
  ASSUME NEW c \in Contexts, NEW n \in 2..6, c.scopes \in {Outer(n), Over(n)}
  PROVE  PopIf(c, "anonymous") = Same(c, Outer(n))
<1>1. Order[n] # "anonymous"
  BY DEF Order
<1>2. Same(c, c.scopes) = c
  BY DEF Same, Contexts
<1> QED
  BY <1>1, <1>2, Tops, OverIs DEF PopIf, PopScope, Same

\* ... or leaving the stack as it is if another one is on top.
LEMMA PopOther ==
  ASSUME NEW c \in Contexts, NEW n \in 2..6, c.scopes = Outer(n),
         NEW m \in 3..6
  PROVE  PopIf(c, Order[m]) = Same(c, Outer(IF n = m THEN n - 1 ELSE n))
<1>1. Order[n] = Order[m] <=> n = m
  BY DEF Order
<1>2. Same(c, c.scopes) = c
  BY DEF Same, Contexts
<1>3. CurrentScope(c, Order[m]) <=> n = m
  BY <1>1, Tops
<1>4. CASE n = m
  <2>1. PopIf(c, Order[m]) = Same(c, SubSeq(c.scopes, 1, Len(c.scopes) - 1))
    BY <1>3, <1>4 DEF PopIf, PopScope, Same
  <2> QED
    BY <2>1, <1>4, OuterDown
<1>5. CASE n # m
  BY <1>2, <1>3, <1>5 DEF PopIf
<1> QED
  BY <1>4, <1>5

-----------------------------------------------------------------------------
(* The invariant: what holds of the context that runs, of those that wait   *)
(* and of the data on its way between them, at each place of the loops.     *)

Loaded(c)  == c.doc \in Docs /\ c.dialog \in DOMAIN Dialogs[c.doc]
Waiting(c) == /\ c \in Contexts /\ Loaded(c) /\ c.scopes = Outer(6)
              /\ c.last \in ItemsOf(c) /\ KindOf(c, c.last) = "subdialog"

\* The scopes while a dialog runs, content and events included.
InDialog == {Outer(5), Outer(6), Over(5), Over(6)}

\* Nothing is on its way to a <subdialog>; or one of the two is.
Clear(s) == s.result = 0 /\ s.event = 0
Back(s)  == \/ s.result = Depth /\ s.event = 0
            \/ s.result = 0 /\ s.event = Depth

\* The parameters are for the context on top.
Params(n) == n \in {0, Depth - 1}

\* The form item that is processed next, or the match that is.
ItemOK(c, s) == s.answer # NoAnswer \/ c.item \in ItemsOf(c)
AtItem(c, s) == \/ Clear(s) /\ ItemOK(c, s)
                \/ /\ Back(s) /\ s.answer = NoAnswer
                   /\ c.item \in ItemsOf(c) /\ KindOf(c, c.item) = "subdialog"

\* In a dialog, with nothing on its way.
Quiet(c, s) == Loaded(c) /\ c.last = NoItem /\ Clear(s) /\ s.params = 0

AtInstall ==
  /\ jump.doc \in Docs /\ jump.dialog \in DOMAIN Dialogs[jump.doc]
  /\ Clear(carried)
  /\ \/ jump.sub /\ Waiting(exe) /\ carried.params = Depth
     \/ /\ ~jump.sub /\ exe.last = NoItem /\ carried.params = 0
        /\ \/ Loaded(exe) /\ exe.scopes \in InDialog
           \/ /\ exe.doc = None /\ callers = <<>>
              /\ exe.scopes \in {Outer(2), Over(2)}

AtOuter ==
  \/ /\ Loaded(exe) /\ exe.last = NoItem /\ exe.scopes = Outer(4)
     /\ Clear(carried) /\ Params(carried.params)
  \/ Waiting(exe) /\ Back(carried) /\ carried.params = 0

AtInner ==
  /\ Loaded(exe) /\ exe.last = NoItem
  /\ \/ /\ newDialog /\ Clear(carried) /\ Params(carried.params)
        /\ exe.scopes \in InDialog \cup {Outer(4)}
        /\ exe.item = NoItem \/ carried.answer # NoAnswer
     \/ /\ ~newDialog /\ carried.params = 0 /\ exe.scopes \in InDialog
        /\ AtItem(exe, carried)

AtInit ==
  /\ Quiet(exe, carried) /\ ~newDialog /\ Params(form.params)
  /\ exe.item = NoItem \/ ItemOK(exe, carried)

AtPhase ==
  /\ Loaded(exe) /\ exe.last = NoItem /\ ~newDialog /\ carried.params = 0
  /\ exe.scopes = Outer(5) /\ AtItem(exe, carried)

AtEvent ==
  /\ exe.last = NoItem
  /\ \/ /\ handling.site = "load" /\ exe.doc = None /\ callers = <<>>
        /\ Clear(carried) /\ carried.params = 0
        /\ exe.scopes \in {Outer(2), Over(2)}
     \/ /\ handling.site = "install" /\ Loaded(exe) /\ Clear(carried)
        /\ Params(carried.params)
     \/ handling.site = "init" /\ AtInit /\ exe.scopes \in {Outer(5), Over(5)}
     \/ /\ handling.site = "inner" /\ Quiet(exe, carried) /\ ~newDialog
        /\ exe.scopes \in InDialog

AllWaiting == \A i \in DOMAIN callers : Waiting(callers[i])

IInv ==
  /\ TypeOK /\ AllWaiting
  /\ pc \in {"idle", "done"} => exe = ExecutionContext /\ callers = <<>>
  /\ pc = "idle"    => carried = Nothing
  /\ pc = "install" => AtInstall
  /\ pc = "outer"   => AtOuter
  /\ pc = "inner"   => AtInner
  /\ pc = "init"    => AtInit /\ exe.scopes = Outer(5)
  /\ pc = "phase"   => AtPhase
  /\ pc = "next"    => /\ Quiet(exe, carried) /\ ~newDialog
                       /\ exe.scopes \in InDialog
  /\ pc = "event"   => AtEvent
-----------------------------------------------------------------------------
(* Outcomes.                                                                *)

Answers == [dialog : Nat, item : Int]
Data    == [params : Nat, result : Nat, event : Nat, answer : Answers]
Jumps   == [doc : Docs \cup {None}, app : Docs \cup {None}, dialog : Nat,
            sub : BOOLEAN, submit : BOOLEAN]

\* The number that stands for no form item is none of an item.
LEMMA NoItemIs == NoItem \in Int /\ NoItem \notin Nat
BY DEF NoItem

\* A dialog of a document is a sequence of items.
LEMMA DialogsTyped ==
  ASSUME NEW d \in Docs, NEW k \in DOMAIN Dialogs[d]
  PROVE  /\ k \in Nat \ {0}
         /\ Dialogs[d][k] \in Seq(Kinds)
         /\ DOMAIN Dialogs[d][k] \subseteq Nat \ {0}
<1>1. Dialogs[d] \in Seq(Seq(Kinds))
  BY InterpreterAssumption
<1>2. k \in 1..Len(Dialogs[d])
  BY <1>1, LenProperties
<1>3. Dialogs[d][k] \in Seq(Kinds)
  BY <1>1, <1>2, ElementOfSeq
<1>4. Len(Dialogs[d]) \in Nat /\ DOMAIN Dialogs[d][k] = 1..Len(Dialogs[d][k])
      /\ Len(Dialogs[d][k]) \in Nat
  BY <1>1, <1>3, LenProperties
<1> QED
  BY <1>2, <1>3, <1>4

\* The stacks of a context that waits or runs are stacks of the types.
LEMMA ScopesTyped ==
  ASSUME NEW n \in 2..6
  PROVE  Outer(n) \in Nested /\ Over(n) \in Nested
BY DEF Nested, Over

\* What a context keeps when content that runs in it does not touch its items.
Leaves(c, e) ==
  /\ e \in Contexts
  /\ e.doc = c.doc /\ e.dialog = c.dialog /\ e.item = c.item /\ e.last = c.last
  /\ e.scopes = c.scopes

\* Where a transition may go.
Goes(c, s, sub, o) ==
  /\ Leaves(c, o.exe) /\ o.carried = s /\ o.thrown.to \in Jumps
  /\ \/ o.thrown.type = "event"
     \/ /\ o.thrown.type = "doc" /\ o.thrown.to.sub = sub
        /\ o.thrown.to.doc \in Docs
        /\ o.thrown.to.dialog \in DOMAIN Dialogs[o.thrown.to.doc]
     \/ /\ o.thrown.type = "dialog" /\ ~sub /\ c.doc \in Docs
        /\ o.thrown.at.dialog \in DOMAIN Dialogs[c.doc]

\* PerformTransition ends in an event or a jump to a dialog of another document.
LEMMA PerformTransitionGoes ==
  ASSUME NEW c \in Contexts, NEW s, NEW d \in Docs, NEW k \in DOMAIN Dialogs[d],
         NEW sub \in BOOLEAN, NEW submit \in BOOLEAN,
         NEW o \in PerformTransition(c, s, d, k, sub, submit)
  PROVE  Goes(c, s, sub, o) /\ o.thrown.type # "dialog"
<1> DEFINE named == [c EXCEPT !.appName = Application[d]]
<1>1. k \in Nat
  BY DialogsTyped
<1>2. Application[d] \in Docs \cup {None}
  BY InterpreterAssumption
<1>3. Leaves(c, c) /\ Leaves(c, named)
  BY <1>2 DEF Leaves, Contexts
<1>4. ASSUME NEW x, Leaves(c, x), o = Out(x, s, Throws("event"))
      PROVE  Goes(c, s, sub, o) /\ o.thrown.type # "dialog"
  BY <1>4 DEF Goes, Out, Throws, NoJump, Jumps
<1>5. ASSUME NEW x, Leaves(c, x), NEW app \in Docs \cup {None},
             o = Out(x, s, JumpDoc(d, app, k, sub, submit))
      PROVE  Goes(c, s, sub, o) /\ o.thrown.type # "dialog"
  BY <1>5, <1>1 DEF Goes, Out, JumpDoc, Throws, NoJump, Jumps
<1>6. c.app \in Docs \cup {None}
  BY DEF Contexts
<1> QED
  <2>1. \/ o = Out(c, s, Throws("event"))
        \/ o = Out(named, s, Throws("event"))
        \/ o = Out(named, s, JumpDoc(d, None, k, sub, submit))
        \/ o = Out(c, s, JumpDoc(d, c.app, k, sub, submit))
        \/ o = Out(named, s, JumpDoc(d, Application[d], k, sub, submit))
    BY DEF PerformTransition
  <2> QED
    BY <2>1, <1>2, <1>3, <1>4, <1>5, <1>6

\* So does a transition to any target; one to a fragment may also jump to a
\* dialog of the same document.
LEMMA TransitionsGo ==
  ASSUME NEW c \in Contexts, NEW s, NEW sub \in BOOLEAN, NEW submit \in BOOLEAN,
         c.doc # None => Loaded(c),
         NEW o \in Transitions(c, s, sub, submit)
  PROVE  Goes(c, s, sub, o)
<1> DEFINE
      Others == UNION {PerformTransition(c, s, t[1], t[2], sub, submit) :
                         t \in Targets}
      Own    == UNION {FragmentTransition(c, s, k, sub, submit) :
                         k \in IF c.doc = None THEN {} ELSE DOMAIN Dialogs[c.doc]}
<1>0. Transitions(c, s, sub, submit) = Others \cup Own
  BY Zenon DEF Transitions
<1>1. CASE o \in Others
  <2>1. PICK t \in Targets : o \in PerformTransition(c, s, t[1], t[2], sub, submit)
    BY <1>1
  <2>2. t[1] \in Docs /\ t[2] \in DOMAIN Dialogs[t[1]]
    BY DEF Targets
  <2> QED
    BY <2>1, <2>2, PerformTransitionGoes
<1>2. CASE o \in Own
  <2>1. PICK k : /\ c.doc # None /\ k \in DOMAIN Dialogs[c.doc]
                 /\ o \in FragmentTransition(c, s, k, sub, submit)
    BY <1>2
  <2>2. c.doc \in Docs /\ c.app \in Docs \cup {None} /\ Leaves(c, c)
    BY <2>1 DEF Contexts, Leaves
  <2>3. k \in Nat
    BY <2>1, <2>2, DialogsTyped
  <2>4. CASE sub
    <3>1. o = Out(c, s, JumpDoc(c.doc, c.app, k, sub, submit))
      BY <2>1, <2>4 DEF FragmentTransition
    <3> QED
      BY <3>1, <2>1, <2>2, <2>3 DEF Goes, Out, JumpDoc, Throws, NoJump, Jumps
  <2>5. CASE ~sub
    <3>1. o = Out(c, s, JumpDialog(k))
      BY <2>1, <2>5 DEF FragmentTransition
    <3> QED
      BY <3>1, <2>1, <2>2, <2>5
         DEF Goes, Out, JumpDialog, Throws, NoJump, NoAnswer, Jumps
  <2> QED
    BY <2>4, <2>5
<1> HIDE DEF Others, Own
<1> QED
  BY <1>0, <1>1, <1>2

\* goto and submit clear what a subdialog was given or returned, and nothing else.
LEMMA ClearSdIs ==
  ASSUME NEW s \in Data
  PROVE  /\ ClearSd(s) \in Data /\ Clear(ClearSd(s)) /\ ClearSd(s).params = 0
         /\ Clear(s) /\ s.params = 0 => ClearSd(s) = s
BY DEF ClearSd, Nothing, Data, Answers, Clear, NoAnswer, NoItem

\* What executable content may end in, run with the data s: c is the context it
\* leaves.
Ending(c, s, o) ==
  /\ o.exe \in Contexts
  /\ o.exe.doc = c.doc /\ o.exe.dialog = c.dialog /\ o.exe.item = c.item
  /\ o.exe.last = c.last /\ o.exe.scopes = c.scopes /\ o.thrown.to \in Jumps
  /\ \/ o.thrown.type \in {"end", "exit"} /\ o.carried = s
     \/ o.thrown.type = "event" /\ o.carried \in {s, ClearSd(s)}
     \/ /\ o.thrown.type = "doc" /\ o.carried = ClearSd(s)
        /\ ~o.thrown.to.sub /\ o.thrown.to.doc \in Docs
        /\ o.thrown.to.dialog \in DOMAIN Dialogs[o.thrown.to.doc]
     \/ /\ o.thrown.type = "dialog" /\ o.carried = ClearSd(s) /\ c.doc \in Docs
        /\ o.thrown.at.dialog \in DOMAIN Dialogs[c.doc]
     \/ /\ o.thrown.type = "item" /\ o.carried = ClearSd(s) /\ c.doc \in Docs
        /\ o.thrown.at.item \in ItemsOf(c)
     \/ /\ o.thrown.type = "return" /\ Depth # 1
        /\ o.carried \in {[s EXCEPT !.result = Depth - 1],
                          [s EXCEPT !.event = Depth - 1]}

\* <goto> may jump within the dialog, to a dialog or to a document, or throw.
LEMMA GotoEnds ==
  ASSUME NEW c \in Contexts, NEW s, c.doc # None => Loaded(c), NEW o \in Goto(c, s)
  PROVE  Ending(c, s, o)
<1>1. CASE o \in Transitions(c, ClearSd(s), FALSE, FALSE)
  <2>1. Goes(c, ClearSd(s), FALSE, o)
    BY <1>1, TransitionsGo
  <2> QED
    BY <2>1 DEF Goes, Leaves, Ending
<1>2. ASSUME NEW i, c.doc # None, i \in ItemsOf(c),
             o = Out(c, ClearSd(s), JumpItem(i))
      PROVE  Ending(c, s, o)
  <2>1. c.doc \in Docs
    BY <1>2 DEF Contexts
  <2> QED
    BY <1>2, <2>1
       DEF Ending, Out, JumpItem, Throws, NoJump, NoAnswer, Jumps
<1> QED
  BY <1>1, <1>2 DEF Goto

\* <submit> may jump to a document, or throw.
LEMMA SubmitEnds ==
  ASSUME NEW c \in Contexts, NEW s, c.doc # None => Loaded(c), NEW o \in Submit(c, s)
  PROVE  Ending(c, s, o)
<1>1. Goes(c, ClearSd(s), FALSE, o)
  BY TransitionsGo DEF Submit
<1> QED
  BY <1>1 DEF Goes, Leaves, Ending

\* <throw>, <exit> and <disconnect> leave context and data as they are.
LEMMA ThrowEnds ==
  ASSUME NEW c \in Contexts, NEW s, NEW type \in {"end", "event", "exit"}
  PROVE  Ending(c, s, Out(c, s, Throws(type)))
BY DEF Ending, Out, Throws, NoJump, Jumps

\* <return> leaves either a result or an event, and never both.
LEMMA ReturnEnds ==
  ASSUME NEW c \in Contexts, NEW s, NEW o \in Return(c, s)
  PROVE  Ending(c, s, o)
<1>1. CASE Depth = 1
  <2>1. o = Out(c, s, Throws("event"))
    BY <1>1 DEF Return
  <2> QED
    BY <2>1, ThrowEnds
<1>2. CASE Depth # 1
  <2> DEFINE results == {[s EXCEPT !.result = Depth - 1],
                         [s EXCEPT !.event = Depth - 1]}
  <2>1. PICK t \in results : o = Out(c, t, Throws("return"))
    BY <1>2 DEF Return
  <2>2. o.exe = c /\ o.carried = t /\ o.thrown.type = "return" /\ o.thrown.to = NoJump
    BY <2>1 DEF Out, Throws
  <2>3. NoJump \in Jumps
    BY DEF NoJump, Jumps
  <2> QED
    BY <1>2, <2>1, <2>2, <2>3 DEF Ending
<1> QED
  BY <1>1, <1>2

\* Content runs with an anonymous scope on top.
LEMMA AnonymousIs ==
  ASSUME NEW c \in Contexts, NEW n \in 2..6, c.scopes \in {Outer(n), Over(n)}
  PROVE  Anonymous(c) = Same(c, Over(n)) /\ Anonymous(c) \in Contexts
<1>1. PopIf(c, "anonymous") = Same(c, Outer(n))
  BY PopAnonymous
<1>2. Anonymous(c) = Same(c, Over(n))
  BY <1>1 DEF Anonymous, PushScope, Same, Over, Contexts
<1> QED
  BY <1>2, ScopesTyped DEF Same, Contexts

\* Executable content ends in one of those, with its anonymous scope on the stack.
LEMMA ContentEnds ==
  ASSUME NEW c \in Contexts, NEW s, c.doc # None => Loaded(c),
         NEW n \in 2..6, c.scopes \in {Outer(n), Over(n)},
         NEW o \in ExecuteContent(c, s)
  PROVE  Ending(Same(c, Over(n)), s, o)
<1>1. PICK e \in Effects(Anonymous(c)) :
        o \in {Out(e, s, Throws("end")), Out(e, s, Throws("event")),
               Out(e, s, Throws("exit"))}
              \cup Goto(e, s) \cup Submit(e, s) \cup Return(e, s)
  BY DEF ExecuteContent
<1>2. Leaves(Same(c, Over(n)), e)
  BY AnonymousIs DEF Effects, Leaves, Same, Contexts
<1>3. e \in Contexts /\ (e.doc # None => Loaded(e))
  BY <1>2 DEF Leaves, Same, Contexts, Loaded
<1>4. Ending(e, s, o)
  <2>1. CASE o \in {Out(e, s, Throws("end")), Out(e, s, Throws("event")),
                    Out(e, s, Throws("exit"))}
    BY <2>1, <1>3, ThrowEnds
  <2>2. CASE o \in Goto(e, s)
    BY <2>2, <1>3, GotoEnds
  <2>3. CASE o \in Submit(e, s)
    BY <2>3, <1>3, SubmitEnds
  <2>4. CASE o \in Return(e, s)
    BY <2>4, <1>3, ReturnEnds
  <2> QED
    BY <1>1, <2>1, <2>2, <2>3, <2>4
<1> QED
  BY <1>2, <1>4 DEF Ending, Leaves, ItemsOf, Dialog

-----------------------------------------------------------------------------
(* What is thrown and caught keeps the invariant.                           *)

\* An outcome that may be caught.
Ends(o) ==
  /\ o.exe \in Contexts /\ o.carried \in Data /\ o.thrown.to \in Jumps
  /\ \/ o.thrown.type = "exit"
     \/ /\ Loaded(o.exe) /\ o.exe.last = NoItem /\ o.exe.scopes \in InDialog
        /\ ~newDialog /\ o.carried.params = 0
        /\ \/ o.thrown.type = "event" /\ o.carried.result = 0
           \/ o.thrown.type = "end" /\ Clear(o.carried)
           \/ /\ o.thrown.type = "item" /\ Clear(o.carried)
              /\ o.thrown.at.item \in ItemsOf(o.exe)
           \/ /\ o.thrown.type = "dialog" /\ Clear(o.carried)
              /\ o.thrown.at.dialog \in DOMAIN Dialogs[o.exe.doc]
           \/ /\ o.thrown.type = "answer" /\ Clear(o.carried)
              /\ o.thrown.at.dialog \in DOMAIN Dialogs[o.exe.doc]
              /\ o.thrown.at \in Answers
              /\ o.thrown.at # NoAnswer
           \/ /\ o.thrown.type = "return" /\ Depth # 1
              /\ \/ o.carried.result = Depth - 1 /\ o.carried.event = 0
                 \/ o.carried.event = Depth - 1 /\ o.carried.result = 0
     \/ /\ o.thrown.type = "doc" /\ Clear(o.carried) /\ o.thrown.to.doc \in Docs
        /\ o.thrown.to.dialog \in DOMAIN Dialogs[o.thrown.to.doc]
        /\ \/ /\ o.thrown.to.sub /\ Waiting(o.exe) /\ o.carried.params = Depth
           \/ /\ ~o.thrown.to.sub /\ o.exe.last = NoItem /\ o.carried.params = 0
              /\ \/ Loaded(o.exe) /\ o.exe.scopes \in InDialog
                 \/ /\ o.exe.doc = None /\ callers = <<>>
                    /\ o.exe.scopes \in {Outer(2), Over(2)}

Env == line \in BOOLEAN /\ externalEvents \in 0..MaxEvents

\* The values a call starts with have their types.
LEMMA InitialIs ==
  /\ ExecutionContext \in Contexts /\ ExecutionContext.scopes = Outer(2)
  /\ ExecutionContext.doc = None /\ ExecutionContext.last = NoItem
  /\ NoJump \in Jumps /\ Nothing \in Data /\ NoAnswer \in Answers
<1>1. Outer(2) = <<"session", "defaults">>
  <2>1. Outer(2) \in Seq(Scopes) /\ Len(Outer(2)) = 2
        /\ Outer(2)[1] = "session" /\ Outer(2)[2] = "defaults"
    BY OuterIs DEF Order
  <2>2. <<"session", "defaults">> \in Seq(Scopes)
    BY DEF Scopes
  <2> QED
    BY <2>1, <2>2, SeqEqual
<1>2. Outer(2) \in Nested
  BY ScopesTyped
<1> QED
  BY <1>1, <1>2
     DEF ExecutionContext, Contexts, NoItem, NoJump, Jumps, Nothing, Data, NoAnswer,
         Answers

\* VXI::Run cleans up whatever state it ends in.
LEMMA EndKeeps ==
  ASSUME TypeOK, End, Env'
  PROVE  IInv'
<1>1. TypeOK'
  <2>1. exe' \in Contexts /\ callers' \in Seq(Contexts) /\ jump' \in Jumps
    BY InitialIs, EmptySeq DEF End
  <2>2. carried' \in Data
    BY DEF TypeOK, Data, Answers, End
  <2>3. /\ handling' \in [site : {"none", "load", "install", "init", "inner"},
                          rethrows : 0..MaxRethrows - 1]
        /\ form' \in [at : Nat, params : Nat]
    BY InterpreterAssumption DEF End, Calm, NoForm
  <2>4. {newDialog, stopRequested, lineHungUp, line}' \subseteq BOOLEAN
    BY DEF TypeOK, End, Env
  <2> QED
    BY <2>1, <2>2, <2>3, <2>4 DEF TypeOK, End, Env, Jumps, Data, Answers
<1>2. callers' = <<>> /\ pc' = "done" /\ exe' = ExecutionContext
  BY DEF End
<1> QED
  BY <1>1, <1>2, EmptySeq DEF IInv, AllWaiting

\* The dialog of a loaded context has numbered items of the kinds known.
LEMMA DocTyped ==
  ASSUME NEW c \in Contexts, Loaded(c)
  PROVE  /\ c.dialog \in Nat \ {0} /\ ItemsOf(c) \subseteq Nat \ {0}
         /\ \A i \in ItemsOf(c) : KindOf(c, i) \in Kinds
<1>1. /\ c.dialog \in Nat \ {0} /\ Dialog(c) \in Seq(Kinds)
      /\ ItemsOf(c) \subseteq Nat \ {0}
  BY DialogsTyped DEF Loaded, Dialog, ItemsOf
<1>2. \A i \in 1..Len(Dialog(c)) : Dialog(c)[i] \in Kinds
  BY <1>1, ElementOfSeq
<1> QED
  BY <1>1, <1>2, LenProperties DEF ItemsOf, KindOf

\* The context that a subdialog returns to.
LEMMA Popped ==
  ASSUME callers \in Seq(Contexts), AllWaiting, Depth # 1, PopExecutionContext
  PROVE  /\ Waiting(exe') /\ callers' \in Seq(Contexts) /\ AllWaiting'
         /\ Depth' = Depth - 1
<1>1. callers # <<>>
  BY EmptySeq DEF Depth
<1>2. /\ Head(callers) = callers[1] /\ Tail(callers) \in Seq(Contexts)
      /\ Len(Tail(callers)) = Len(callers) - 1
      /\ \A i \in 1..Len(Tail(callers)) : Tail(callers)[i] = callers[i + 1]
  BY <1>1, HeadTailProperties
<1>3. Len(callers) \in Nat \ {0} /\ DOMAIN callers = 1..Len(callers)
      /\ DOMAIN Tail(callers) = 1..Len(Tail(callers))
  BY <1>1, <1>2, EmptySeq, LenProperties
<1>4. Waiting(callers[1])
  BY <1>3 DEF AllWaiting
<1>5. ASSUME NEW i \in DOMAIN Tail(callers)  PROVE Waiting(Tail(callers)[i])
  <2>1. i + 1 \in DOMAIN callers /\ Tail(callers)[i] = callers[i + 1]
    BY <1>2, <1>3
  <2> QED
    BY <2>1 DEF AllWaiting
<1>6. exe' = callers[1] /\ callers' = Tail(callers)
  BY <1>2 DEF PopExecutionContext
<1>7. Waiting(exe')
  BY <1>4, <1>6
<1>8. AllWaiting'
  BY <1>5, <1>6 DEF AllWaiting
<1>9. Depth' = Depth - 1
  BY <1>2, <1>3, <1>6 DEF Depth
<1> QED
  BY <1>2, <1>6, <1>7, <1>8, <1>9

Places    == {"idle", "install", "outer", "inner", "init", "phase", "next",
              "event", "done"}
Handlings == [site : {"none", "load", "install", "init", "inner"},
              rethrows : 0..MaxRethrows - 1]
Forms     == [at : Nat, params : Nat]

Typed ==
  /\ exe \in Contexts /\ callers \in Seq(Contexts) /\ pc \in Places
  /\ jump \in Jumps /\ handling \in Handlings /\ carried \in Data
  /\ form \in Forms /\ Env
  /\ newDialog \in BOOLEAN /\ stopRequested \in BOOLEAN /\ lineHungUp \in BOOLEAN

\* The type invariant, spelt out for the provers.
LEMMA TypedIs == TypeOK <=> Typed
BY DEF TypeOK, Typed, Places, Jumps, Handlings, Data, Answers, Forms, Env

\* ... and for the next state.
LEMMA TypedNext == Typed' => TypeOK'
BY DEF TypeOK, Typed, Places, Jumps, Handlings, Data, Answers, Forms, Env

\* The records a handling of events and an initialisation start from are typed.
LEMMA FreshIs ==
  /\ Calm \in Handlings /\ NoForm \in Forms
  /\ \A site \in {"none", "load", "install", "init", "inner"} :
       [site |-> site, rethrows |-> 0] \in Handlings
BY InterpreterAssumption DEF Calm, NoForm, Handlings, Forms

\* What a caught outcome leaves.
LEMMA CaughtTyped ==
  ASSUME TypeOK, AllWaiting, NEW o, Ends(o), o.thrown.type # "exit",
         CaughtHere(o), Env'
  PROVE  TypeOK' /\ AllWaiting'
<1>1. /\ o.exe \in Contexts /\ o.carried \in Data /\ o.thrown.to \in Jumps
      /\ form' = NoForm /\ lineHungUp' = lineHungUp /\ stopRequested' = stopRequested
  BY DEF Ends, CaughtHere, DoEvent
<1>2. /\ form' \in Forms /\ lineHungUp' \in BOOLEAN /\ stopRequested' \in BOOLEAN
      /\ newDialog \in BOOLEAN /\ callers \in Seq(Contexts)
  BY <1>1, FreshIs, TypedIs DEF Typed
<1>3. CASE o.thrown.type = "event"
  <2>1. /\ pc' = "event" /\ exe' = o.exe /\ callers' = callers
        /\ carried' = [o.carried EXCEPT !.event = 0] /\ jump' = NoJump
        /\ handling' = [site |-> "inner", rethrows |-> 0]
        /\ newDialog' = newDialog
    BY <1>3 DEF CaughtHere, DoEvent
  <2>2. carried' \in Data
    BY <1>1, <2>1 DEF Data
  <2>3. TypeOK'
    BY <1>1, <1>2, <2>1, <2>2, FreshIs, InitialIs, TypedNext DEF Typed, Places
  <2> QED
    BY <2>1, <2>3 DEF AllWaiting
<1>4. CASE o.thrown.type = "return"
  <2>1. /\ pc' = "outer" /\ PopExecutionContext /\ carried' = o.carried
        /\ jump' = o.thrown.to /\ handling' = Calm /\ newDialog' = newDialog
    BY <1>4 DEF CaughtHere
  <2>2. Depth # 1
    BY <1>4 DEF Ends
  <2>3. exe' \in Contexts /\ callers' \in Seq(Contexts) /\ AllWaiting'
    BY <1>2, <2>1, <2>2, Popped DEF Waiting
  <2> QED
    BY <1>1, <1>2, <2>1, <2>3, FreshIs, TypedNext DEF Typed, Places
<1>5. CASE o.thrown.type \notin {"event", "return"}
  <2>1. /\ pc' \in Places /\ callers' = callers /\ jump' = o.thrown.to
        /\ handling' = Calm /\ newDialog' \in BOOLEAN
    BY <1>2, <1>5 DEF CaughtHere, Places
  <2>2. exe' \in Contexts /\ carried' \in Data
    <3>1. CASE o.thrown.type = "item"
      <4>1. Loaded(o.exe) /\ o.thrown.at.item \in ItemsOf(o.exe)
        BY <3>1 DEF Ends
      <4>2. o.thrown.at.item \in Int
        BY <1>1, <4>1, DocTyped
      <4>3. exe' = [o.exe EXCEPT !.item = o.thrown.at.item] /\ carried' = o.carried
        BY <3>1 DEF CaughtHere
      <4> QED
        BY <1>1, <4>2, <4>3 DEF Contexts
    <3>2. CASE o.thrown.type = "dialog"
      <4>1. Loaded(o.exe) /\ o.thrown.at.dialog \in DOMAIN Dialogs[o.exe.doc]
        BY <3>2 DEF Ends
      <4>2. o.thrown.at.dialog \in Nat
        BY <4>1, DialogsTyped DEF Loaded
      <4>3. /\ exe' = [o.exe EXCEPT !.dialog = o.thrown.at.dialog, !.item = NoItem]
            /\ carried' = o.carried
        BY <3>2 DEF CaughtHere
      <4>4. [o.exe EXCEPT !.dialog = o.thrown.at.dialog, !.item = NoItem] \in Contexts
        BY <1>1, <4>2, NoItemIs DEF Contexts
      <4> QED
        BY <1>1, <4>3, <4>4
    <3>3. CASE o.thrown.type = "answer"
      <4>1. o.thrown.at \in Answers
        BY <3>3 DEF Ends
      <4>3. /\ exe' = [o.exe EXCEPT !.dialog = o.thrown.at.dialog,
                                    !.item = o.thrown.at.item]
            /\ carried' = [o.carried EXCEPT !.answer = o.thrown.at]
        BY <3>3 DEF CaughtHere
      <4> QED
        BY <1>1, <4>1, <4>3 DEF Contexts, Data, Answers
    <3>4. CASE o.thrown.type \notin {"item", "dialog", "answer"}
      BY <1>1, <1>5, <3>4 DEF CaughtHere
    <3> QED
      BY <3>1, <3>2, <3>3, <3>4
  <2>3. TypeOK'
    BY <1>1, <1>2, <2>1, <2>2, FreshIs, TypedNext DEF Typed
  <2> QED
    BY <2>1, <2>3 DEF AllWaiting
<1> QED
  BY <1>3, <1>4, <1>5

\* Whoever catches the outcome of a step, the invariant holds afterwards.
LEMMA CaughtKeeps ==
  ASSUME TypeOK, AllWaiting, NEW o, Ends(o), Caught(o), Env'
  PROVE  IInv'
<1>1. CASE o.thrown.type = "exit"
  BY <1>1, EndKeeps DEF Caught
<1>2. CASE o.thrown.type # "exit"
  <2>0. CaughtHere(o)
    BY <1>2 DEF Caught
  <2>1. TypeOK' /\ AllWaiting'
    BY <1>2, <2>0, CaughtTyped
  <2>2. /\ \/ o.thrown.type \in {"event", "end", "item", "dialog", "answer", "return"}
           \/ o.thrown.type = "doc"
        /\ o.thrown.type # "doc" =>
             /\ Loaded(o.exe) /\ o.exe.last = NoItem /\ o.exe.scopes \in InDialog
             /\ ~newDialog /\ o.carried.params = 0
        /\ o.exe \in Contexts /\ o.carried \in Data
    BY <1>2 DEF Ends
  <2>3. CASE o.thrown.type = "event"
    <3>1. /\ pc' = "event" /\ exe' = o.exe /\ newDialog' = newDialog
          /\ carried' = [o.carried EXCEPT !.event = 0]
          /\ handling' = [site |-> "inner", rethrows |-> 0]
      BY <2>0, <2>3 DEF CaughtHere, DoEvent
    <3>2. o.carried.result = 0
      BY <2>3 DEF Ends
    <3>3. /\ carried'.result = 0 /\ carried'.event = 0 /\ carried'.params = 0
          /\ handling'.site = "inner"
      BY <2>2, <2>3, <3>1, <3>2 DEF Data
    <3>4. AtEvent'
      BY <2>2, <2>3, <3>1, <3>3 DEF AtEvent, Quiet, Clear, Loaded
    <3> QED
      BY <2>1, <3>1, <3>4 DEF IInv
  <2>4. CASE o.thrown.type = "end"
    <3>1. pc' = "next" /\ exe' = o.exe /\ newDialog' = newDialog /\ carried' = o.carried
      BY <2>0, <2>4 DEF CaughtHere
    <3>2. Clear(o.carried)
      BY <2>4 DEF Ends
    <3>3. Quiet(exe, carried)' /\ ~newDialog' /\ exe'.scopes \in InDialog
      BY <2>2, <2>4, <3>1, <3>2 DEF Quiet, Clear, Loaded
    <3> QED
      BY <2>1, <3>1, <3>3 DEF IInv
  <2>5. CASE o.thrown.type = "item"
    <3>1. /\ pc' = "inner" /\ newDialog' = newDialog /\ carried' = o.carried
          /\ exe' = [o.exe EXCEPT !.item = o.thrown.at.item]
      BY <2>0, <2>5 DEF CaughtHere
    <3>2. Clear(o.carried) /\ o.thrown.at.item \in ItemsOf(o.exe)
      BY <2>5 DEF Ends
    <3>3. /\ exe'.doc = o.exe.doc /\ exe'.dialog = o.exe.dialog
          /\ exe'.last = NoItem /\ exe'.scopes \in InDialog
          /\ exe'.item = o.thrown.at.item
      BY <2>2, <2>5, <3>1 DEF Contexts
    <3>4. AtInner'
      BY <2>2, <2>5, <3>1, <3>2, <3>3
         DEF AtInner, AtItem, ItemOK, ItemsOf, Dialog, Clear, Loaded
    <3> QED
      BY <2>1, <3>1, <3>4 DEF IInv
  <2>6. CASE o.thrown.type = "dialog"
    <3>1. /\ pc' = "inner" /\ newDialog' = TRUE /\ carried' = o.carried
          /\ exe' = [o.exe EXCEPT !.dialog = o.thrown.at.dialog, !.item = NoItem]
      BY <2>0, <2>6 DEF CaughtHere
    <3>2. Clear(o.carried) /\ o.thrown.at.dialog \in DOMAIN Dialogs[o.exe.doc]
      BY <2>6 DEF Ends
    <3>3. /\ exe'.doc = o.exe.doc /\ exe'.dialog = o.thrown.at.dialog
          /\ exe'.last = NoItem /\ exe'.scopes \in InDialog /\ exe'.item = NoItem
      BY <2>2, <2>6, <3>1 DEF Contexts
    <3>4. AtInner'
      BY <2>2, <2>6, <3>1, <3>2, <3>3 DEF AtInner, Params, Clear, Loaded
    <3> QED
      BY <2>1, <3>1, <3>4 DEF IInv
  <2>7. CASE o.thrown.type = "answer"
    <3>1. /\ pc' = "inner"
          /\ newDialog' = (newDialog \/ o.exe.dialog # o.thrown.at.dialog)
          /\ carried' = [o.carried EXCEPT !.answer = o.thrown.at]
          /\ exe' = [o.exe EXCEPT !.dialog = o.thrown.at.dialog,
                                  !.item = o.thrown.at.item]
      BY <2>0, <2>7 DEF CaughtHere
    <3>2. /\ Clear(o.carried) /\ o.thrown.at.dialog \in DOMAIN Dialogs[o.exe.doc]
          /\ o.thrown.at # NoAnswer
      BY <2>7 DEF Ends
    <3>3. /\ exe'.doc = o.exe.doc /\ exe'.dialog = o.thrown.at.dialog
          /\ exe'.last = NoItem /\ exe'.scopes \in InDialog
      BY <2>2, <2>7, <3>1 DEF Contexts
    <3>4. carried'.params = 0 /\ Clear(carried') /\ carried'.answer # NoAnswer
      BY <2>2, <2>7, <3>1, <3>2 DEF Data, Clear
    <3>5. AtInner'
      BY <2>2, <2>7, <3>1, <3>2, <3>3, <3>4
         DEF AtInner, AtItem, ItemOK, Params, Clear, Loaded
    <3> QED
      BY <2>1, <3>1, <3>5 DEF IInv
  <2>8. CASE o.thrown.type = "return"
    <3>1. pc' = "outer" /\ PopExecutionContext /\ carried' = o.carried
      BY <2>0, <2>8 DEF CaughtHere
    <3>2. /\ Depth # 1
          /\ \/ o.carried.result = Depth - 1 /\ o.carried.event = 0
             \/ o.carried.event = Depth - 1 /\ o.carried.result = 0
      BY <2>8 DEF Ends
    <3>3. Waiting(exe') /\ Depth' = Depth - 1
      BY <3>1, <3>2, Popped, TypedIs DEF Typed
    <3>4. AtOuter'
      BY <2>2, <2>8, <3>1, <3>2, <3>3 DEF AtOuter, Back
    <3> QED
      BY <2>1, <3>1, <3>4 DEF IInv
  <2>9. CASE o.thrown.type = "doc"
    <3>1. /\ pc' = "install" /\ exe' = o.exe /\ carried' = o.carried
          /\ jump' = o.thrown.to /\ callers' = callers
      BY <2>0, <2>9 DEF CaughtHere
    <3>2. /\ Clear(o.carried) /\ o.thrown.to.doc \in Docs
          /\ o.thrown.to.dialog \in DOMAIN Dialogs[o.thrown.to.doc]
          /\ \/ /\ o.thrown.to.sub /\ Waiting(o.exe) /\ o.carried.params = Depth
             \/ /\ ~o.thrown.to.sub /\ o.exe.last = NoItem /\ o.carried.params = 0
                /\ \/ Loaded(o.exe) /\ o.exe.scopes \in InDialog
                   \/ /\ o.exe.doc = None /\ callers = <<>>
                      /\ o.exe.scopes \in {Outer(2), Over(2)}
      BY <2>9 DEF Ends
    <3>3. AtInstall'
      BY <3>1, <3>2 DEF AtInstall, Clear, Waiting, Loaded, ItemsOf, KindOf, Dialog,
                        Depth
    <3> QED
      BY <2>1, <3>1, <3>3 DEF IInv
  <2> QED
    BY <2>2, <2>3, <2>4, <2>5, <2>6, <2>7, <2>8, <2>9
<1> QED
  BY <1>1, <1>2

-----------------------------------------------------------------------------
(* What the elements of a dialog end in may be caught.                      *)

Running(c, s) ==
  /\ c \in Contexts /\ s \in Data /\ Quiet(c, s) /\ c.scopes \in InDialog
  /\ ~newDialog

\* The outcome may be caught, and leaves the document it was run in; it does not
\* call a subdialog.
Runs(c, o) == Ends(o) /\ o.exe.doc = c.doc
Plain(o)   == o.thrown.type = "doc" => ~o.thrown.to.sub

\* What content ends in may be caught, when nothing was on its way before.
LEMMA EndingEnds ==
  ASSUME NEW c, NEW s \in Data, Quiet(c, s), c.scopes \in InDialog, ~newDialog,
         TypeOK, NEW o, Ending(c, s, o)
  PROVE  Runs(c, o) /\ Plain(o)
<1>1. /\ ClearSd(s) = s /\ s.result = 0 /\ s.event = 0 /\ s.params = 0
      /\ c.last = NoItem /\ Loaded(c)
  BY ClearSdIs DEF Quiet, Clear
<1>2. /\ o.exe \in Contexts /\ Loaded(o.exe) /\ o.exe.last = NoItem
      /\ o.exe.scopes \in InDialog /\ o.thrown.to \in Jumps
      /\ ItemsOf(o.exe) = ItemsOf(c) /\ o.exe.doc = c.doc
  BY <1>1 DEF Ending, Loaded, ItemsOf, Dialog
<1>0. Plain(o)
  BY DEF Ending, Plain
<1>3. CASE o.thrown.type = "return"
  <2>1. Depth \in Nat \ {0}
    <3>1. callers \in Seq(Contexts)
      BY TypedIs DEF Typed
    <3> QED
      BY <3>1, LenProperties DEF Depth
  <2>2. /\ Depth # 1
        /\ o.carried \in {[s EXCEPT !.result = Depth - 1],
                          [s EXCEPT !.event = Depth - 1]}
    BY <1>3 DEF Ending
  <2>3. /\ o.carried \in Data /\ o.carried.params = 0
        /\ \/ o.carried.result = Depth - 1 /\ o.carried.event = 0
           \/ o.carried.event = Depth - 1 /\ o.carried.result = 0
    BY <1>1, <2>1, <2>2 DEF Data
  <2> QED
    BY <1>0, <1>2, <1>3, <2>2, <2>3 DEF Ends, Runs
<1>4. CASE o.thrown.type # "return"
  <2>1. o.carried = s
    BY <1>1, <1>4 DEF Ending
  <2> QED
    BY <1>0, <1>1, <1>2, <1>4, <2>1 DEF Ending, Ends, Runs, Clear
<1> QED
  BY <1>3, <1>4

\* Something thrown in a dialog may be caught.
LEMMA ThrowRuns ==
  ASSUME NEW c, NEW s, Running(c, s), TypeOK, NEW type \in {"end", "event", "exit"}
  PROVE  /\ Runs(c, Out(c, s, Throws(type)))
         /\ Plain(Out(c, s, Throws(type)))
BY ThrowEnds, EndingEnds DEF Running

\* What executable content of a dialog ends in may be caught.
LEMMA ContentRuns ==
  ASSUME NEW c, NEW s, Running(c, s), TypeOK, NEW o \in ExecuteContent(c, s)
  PROVE  Runs(c, o) /\ Plain(o)
<1>1. PICK n \in {5, 6} : c.scopes \in {Outer(n), Over(n)}
  BY DEF Running, InDialog
<1>2. n \in 2..6 /\ c \in Contexts /\ Loaded(c) /\ s \in Data /\ ~newDialog
  BY DEF Running, Quiet
<1>3. Ending(Same(c, Over(n)), s, o)
  BY <1>1, <1>2, ContentEnds
<1>4. /\ Same(c, Over(n)).doc = c.doc /\ Same(c, Over(n)).dialog = c.dialog
      /\ Same(c, Over(n)).last = c.last /\ Same(c, Over(n)).scopes = Over(n)
  BY <1>2 DEF Same, Contexts
<1>5. Quiet(Same(c, Over(n)), s) /\ Same(c, Over(n)).scopes \in InDialog
  BY <1>4 DEF Running, Quiet, Loaded, InDialog
<1> QED
  BY <1>2, <1>3, <1>4, <1>5, EndingEnds DEF Runs

\* What a <goto> of a dialog ends in may be caught.
LEMMA GotoRuns ==
  ASSUME NEW c, NEW s, Running(c, s), TypeOK, NEW o \in Goto(c, s)
  PROVE  Runs(c, o) /\ Plain(o)
BY GotoEnds, EndingEnds DEF Running, Quiet

\* What the <filled> elements end in may be caught, however many of them run.
LEMMA FilledRuns ==
  ASSUME NEW c, NEW s, Running(c, s), TypeOK,
         NEW items, items \subseteq ItemsOf(c),
         NEW o \in ProcessFilledElements(c, s, items)
  PROVE  Runs(c, o) /\ Plain(o)
<1> DEFINE done == [c EXCEPT !.filled = @ \cup items \cup Initials(c), !.item = NoItem]
<1>1. items \subseteq Nat /\ Initials(c) \subseteq Nat
  BY DocTyped DEF Running, Quiet, Initials
<1>2. /\ done \in Contexts /\ done.doc = c.doc /\ done.dialog = c.dialog
      /\ done.last = c.last /\ done.scopes = c.scopes
  BY <1>1, NoItemIs DEF Running, Contexts
<1>3. \/ o = Out(done, s, Throws("end")) \/ o = Out(c, s, Throws("event"))
      \/ o \in ExecuteContent(done, s)
  BY DEF ProcessFilledElements
<1> HIDE DEF done
<1>4. Running(done, s)
  BY <1>2 DEF Running, Quiet, Loaded
<1> QED
  BY <1>2, <1>3, <1>4, ThrowRuns, ContentRuns DEF Runs

\* What handling a match ends in may be caught.
LEMMA MatchRuns ==
  ASSUME NEW c, NEW s, Running(c, s), TypeOK, NEW o \in HandleRemoteMatch(c, s)
  PROVE  Runs(c, o) /\ Plain(o)
<1>1. CASE o = Out(c, s, Throws("end"))
  BY <1>1, ThrowRuns
<1>2. ASSUME NEW items, items \subseteq ItemsOf(c),
             o \in ProcessFilledElements(c, s, items)
      PROVE  Runs(c, o) /\ Plain(o)
  BY <1>2, FilledRuns
<1> DEFINE mixed == c.item \notin ItemsOf(c) \/ KindOf(c, c.item) = "initial"
           slots == IF mixed THEN (SUBSET InputItems(c)) \ {{}} ELSE {{c.item}}
<1>3. \A items \in slots : items \subseteq ItemsOf(c)
  BY DEF InputItems
<1>4. \/ o = Out(c, s, Throws("end"))
      \/ \E items \in slots : o \in ProcessFilledElements(c, s, items)
  BY DEF HandleRemoteMatch
<1> QED
  BY <1>1, <1>2, <1>3, <1>4

\* A <subdialog> fails with an event, or jumps and leaves its caller waiting for it.
LEMMA SubdialogRuns ==
  ASSUME NEW c, NEW s, Running(c, s), TypeOK, c.scopes = Outer(6),
         c.item \in ItemsOf(c), KindOf(c, c.item) = "subdialog",
         NEW o \in SubdialogElement(c, s)
  PROVE  Runs(c, o)
<1>1. PICK t \in Transitions(c, s, TRUE, FALSE) :
        o = IF t.thrown.type = "doc"
            THEN Out([t.exe EXCEPT !.last = c.item],
                     [t.carried EXCEPT !.params = Depth], t.thrown)
            ELSE t
  BY DEF SubdialogElement
<1>2. /\ c \in Contexts /\ s \in Data /\ Loaded(c) /\ Clear(s)
      /\ s.params = 0 /\ c.last = NoItem /\ ~newDialog /\ c.scopes \in InDialog
  BY DEF Running, Quiet
<1>3. Goes(c, s, TRUE, t)
  BY <1>2, TransitionsGo
<1>4. CASE t.thrown.type = "doc"
  <2>1. /\ o.exe = [t.exe EXCEPT !.last = c.item] /\ o.thrown = t.thrown
        /\ o.carried = [s EXCEPT !.params = Depth]
    BY <1>1, <1>3, <1>4 DEF Out, Goes
  <2>2. c.item \in Nat
    BY <1>2, DocTyped
  <2>3. /\ o.exe \in Contexts /\ o.exe.doc = c.doc /\ o.exe.dialog = c.dialog
        /\ o.exe.last = c.item /\ o.exe.scopes = Outer(6)
    BY <1>3, <2>1, <2>2 DEF Goes, Leaves, Contexts
  <2>4. Waiting(o.exe)
    BY <1>2, <2>3 DEF Waiting, Loaded, ItemsOf, KindOf, Dialog
  <2>5. Depth \in Nat
    BY LenProperties, TypedIs DEF Depth, Typed
  <2>6. o.carried \in Data /\ Clear(o.carried) /\ o.carried.params = Depth
    BY <1>2, <2>1, <2>5 DEF Data, Clear
  <2> QED
    BY <1>3, <1>4, <2>1, <2>3, <2>4, <2>6 DEF Ends, Goes, Runs
<1>5. CASE t.thrown.type # "doc"
  <2>1. o = t /\ o.thrown.type = "event"
    BY <1>1, <1>3, <1>5 DEF Goes
  <2>2. o.exe \in Contexts /\ Loaded(o.exe) /\ o.exe.last = NoItem
        /\ o.exe.scopes \in InDialog /\ o.carried = s /\ o.thrown.to \in Jumps
    BY <1>2, <1>3, <2>1 DEF Goes, Leaves, Loaded
  <2> QED
    BY <1>2, <1>3, <2>1, <2>2 DEF Ends, Goes, Leaves, Runs, Clear
<1> QED
  BY <1>4, <1>5

\* A match of another context's grammar may be caught by the loop.
LEMMA AnswerRuns ==
  ASSUME NEW c, NEW s, Running(c, s), TypeOK, NEW d \in DOMAIN Dialogs[c.doc],
         NEW i \in {Form} \cup ItemsOf(c)
  PROVE  Runs(c, Out(c, s, AnswerInformation(d, i)))
<1> DEFINE o == Out(c, s, AnswerInformation(d, i))
<1>1. d \in Nat \ {0} /\ i \in Int
  BY DialogsTyped, DocTyped DEF Running, Quiet, Loaded, Form
<1>2. /\ o.exe = c /\ o.carried = s /\ o.thrown.type = "answer"
      /\ o.thrown.at = [dialog |-> d, item |-> i] /\ o.thrown.to = NoJump
  BY DEF Out, AnswerInformation, Throws
<1>3. o.thrown.at \in Answers /\ o.thrown.at # NoAnswer
  BY <1>1, <1>2 DEF Answers, NoAnswer
<1>4. o.thrown.at.dialog \in DOMAIN Dialogs[o.exe.doc]
  BY <1>2
<1> HIDE DEF o
<1>5. Runs(c, o)
  BY <1>2, <1>3, <1>4, InitialIs DEF Ends, Running, Quiet, Runs
<1> QED
  BY <1>5 DEF o

\* What a recognition ends in may be caught.
LEMMA RecognitionRuns ==
  ASSUME NEW c, NEW s, Running(c, s), TypeOK, c.item \in ItemsOf(c),
         NEW o \in Recognition(c, s)
  PROVE  Runs(c, o)
<1>1. c.dialog \in DOMAIN Dialogs[c.doc]
  BY DEF Running, Quiet, Loaded
<1>2. \/ o = Out(c, s, Throws("event"))
      \/ o \in Goto(c, s)
      \/ \E d \in DOMAIN Dialogs[c.doc] : o = Out(c, s, AnswerInformation(d, Form))
      \/ o = Out(c, s, AnswerInformation(c.dialog, c.item))
  BY DEF Recognition
<1> QED
  BY <1>1, <1>2, ThrowRuns, GotoRuns, AnswerRuns

\* What a <block> ends in may be caught.
LEMMA BlockRuns ==
  ASSUME NEW c, NEW s, Running(c, s), TypeOK, c.item \in ItemsOf(c),
         NEW o \in BlockElement(c, s)
  PROVE  Runs(c, o)
<1> DEFINE done == [c EXCEPT !.filled = @ \cup {c.item}]
<1>1. c.item \in Nat
  BY DocTyped DEF Running, Quiet
<1>2. /\ done \in Contexts /\ done.doc = c.doc /\ done.dialog = c.dialog
      /\ done.last = c.last /\ done.scopes = c.scopes
  BY <1>1 DEF Running, Contexts
<1>3. o \in ExecuteContent(done, s)
  BY DEF BlockElement
<1> HIDE DEF done
<1>4. Running(done, s)
  BY <1>2 DEF Running, Quiet, Loaded
<1> QED
  BY <1>2, <1>3, <1>4, ContentRuns DEF Runs

\* What CollectPhase ends in may be caught, whatever the kind of the item.
LEMMA CollectRuns ==
  ASSUME NEW c, NEW s, Running(c, s), TypeOK, c.item \in ItemsOf(c),
         c.scopes = Outer(6), NEW o \in CollectPhase(c, s)
  PROVE  Runs(c, o)
<1>1. KindOf(c, c.item) \in Kinds
  BY DocTyped DEF Running, Quiet
<1>2. CASE KindOf(c, c.item) = "block"
  BY <1>2, BlockRuns DEF CollectPhase
<1>3. CASE KindOf(c, c.item) = "subdialog"
  BY <1>3, SubdialogRuns DEF CollectPhase
<1>4. CASE KindOf(c, c.item) = "other"
  <2>1. o \in OtherElement(c, s)
    BY <1>4 DEF CollectPhase
  <2>2. \/ o = Out(c, s, Throws("end")) \/ o = Out(c, s, Throws("event"))
        \/ o \in ProcessFilledElements(c, s, {c.item})
    BY <2>1 DEF OtherElement
  <2>3. {c.item} \subseteq ItemsOf(c)
    OBVIOUS
  <2> QED
    BY <2>2, <2>3, ThrowRuns, FilledRuns
<1>5. CASE KindOf(c, c.item) \in {"input", "initial", "menu"}
  <2>1. o \in Recognition(c, s)
    BY <1>5 DEF CollectPhase
  <2> QED
    BY <2>1, RecognitionRuns
<1> QED
  BY <1>1, <1>2, <1>3, <1>4, <1>5 DEF Kinds

-----------------------------------------------------------------------------
(* Each step keeps the invariant.                                           *)

\* A step that leaves the caller and the API alone keeps their types.
LEMMA EnvKept ==
  ASSUME TypeOK, UNCHANGED envVars
  PROVE  Env'
BY DEF TypeOK, Env, envVars

\* VXI::Run keeps the invariant: the initial document is loaded or the call ends.
LEMMA RunKeeps ==
  ASSUME IInv, Run
  PROVE  IInv'
<1>1. /\ TypeOK /\ AllWaiting /\ Env' /\ exe = ExecutionContext /\ callers = <<>>
      /\ carried = Nothing
  BY EnvKept DEF IInv, Run
<1>2. CASE End
  BY <1>1, <1>2, EndKeeps
<1>3. ASSUME NEW d \in Docs, NEW o \in PerformTransition(exe, carried, d, 1, FALSE, FALSE),
             \/ o.thrown.type = "doc" /\ Caught(o)
             \/ /\ o.thrown.type = "event" /\ UNCHANGED <<lineHungUp, form>>
                /\ DoEvent(o.exe, carried, "load")
      PROVE  IInv'
  <2>1. 1 \in DOMAIN Dialogs[d]
    <3>1. Dialogs[d] \in Seq(Seq(Kinds)) /\ Dialogs[d] # <<>>
      BY InterpreterAssumption
    <3> QED
      BY <3>1, EmptySeq, LenProperties
  <2>2. Goes(exe, carried, FALSE, o)
    BY <1>1, <2>1, InitialIs, PerformTransitionGoes
  <2>3. /\ o.exe \in Contexts /\ o.exe.doc = None /\ o.exe.last = NoItem
        /\ o.exe.scopes = Outer(2) /\ o.carried = Nothing /\ o.thrown.to \in Jumps
    BY <1>1, <2>2, InitialIs DEF Goes, Leaves
  <2>4. /\ Nothing.params = 0 /\ Nothing.result = 0 /\ Nothing.event = 0
        /\ Nothing \in Data
    BY InitialIs DEF Nothing
  <2>5. CASE o.thrown.type = "doc" /\ Caught(o)
    <3>1. Ends(o)
      BY <1>1, <2>2, <2>3, <2>4, <2>5 DEF Ends, Goes, Clear
    <3> QED
      BY <1>1, <2>5, <3>1, CaughtKeeps
  <2>6. CASE /\ o.thrown.type = "event" /\ UNCHANGED <<lineHungUp, form>>
             /\ DoEvent(o.exe, carried, "load")
    <3>1. /\ pc' = "event" /\ handling' = [site |-> "load", rethrows |-> 0]
          /\ exe' = o.exe /\ carried' = carried /\ jump' = NoJump
          /\ callers' = callers /\ newDialog' = newDialog
          /\ stopRequested' = stopRequested /\ lineHungUp' = lineHungUp /\ form' = form
      BY <2>6 DEF DoEvent
    <3>2. TypeOK'
      BY <1>1, <2>3, <2>4, <3>1, FreshIs, InitialIs, TypedIs, TypedNext
         DEF Typed, Places
    <3>3. AllWaiting'
      BY <1>1, <3>1 DEF AllWaiting
    <3>4. AtEvent'
      BY <1>1, <2>3, <2>4, <3>1 DEF AtEvent, Clear
    <3> QED
      BY <3>1, <3>2, <3>3, <3>4 DEF IInv
  <2> QED
    BY <1>3, <2>5, <2>6
<1> QED
  BY <1>2, <1>3 DEF Run

\* Another stack of scopes changes nothing else of a context.
LEMMA SameIs ==
  ASSUME NEW c \in Contexts, NEW scopes \in Nested
  PROVE  /\ Same(c, scopes) \in Contexts /\ Same(c, scopes).scopes = scopes
         /\ Same(c, scopes).doc = c.doc /\ Same(c, scopes).dialog = c.dialog
         /\ Same(c, scopes).item = c.item /\ Same(c, scopes).last = c.last
         /\ Same(c, scopes).filled = c.filled
         /\ \A others : Same(Same(c, scopes), others) = Same(c, others)
BY DEF Same, Contexts

\* Pushing the next scope of the order gives the stack one longer.
LEMMA PushIs ==
  ASSUME NEW c \in Contexts, NEW n \in 2..5, NEW scope, scope = Order[n + 1]
  PROVE  PushScope(Same(c, Outer(n)), scope) = Same(c, Outer(n + 1))
<1>1. Same(c, Outer(n)).scopes = Outer(n)
  BY DEF Same, Contexts
<1>2. Append(Outer(n), scope) = Outer(n + 1)
  BY OuterUp
<1> QED
  BY <1>1, <1>2 DEF PushScope, Same

\* The scope stack when the next document comes.
LEMMA ClearScopesIs ==
  ASSUME NEW c \in Contexts, NEW n \in {2, 5, 6}, c.scopes \in {Outer(n), Over(n)},
         NEW reinit \in BOOLEAN
  PROVE  \E m \in {2, 3} : ClearScopes(c, reinit) = Same(c, Outer(m))
<1> DEFINE c1 == PopIf(c, "anonymous")
           c2 == PopIf(c1, "local")
           c3 == PopIf(c2, "dialog")
           c4 == PopIf(c3, "document")
<1>1. c1 = Same(c, Outer(n))
  BY PopAnonymous
<1>2. PICK n2 \in {2, 5} : c2 = Same(c, Outer(n2))
  <2>1. c1 \in Contexts /\ c1.scopes = Outer(n)
    BY <1>1, SameIs, ScopesTyped
  <2>2. PopIf(c1, Order[6]) = Same(c1, Outer(IF n = 6 THEN n - 1 ELSE n))
    BY <2>1, PopOther
  <2>3. Order[6] = "local"
    BY DEF Order
  <2> QED
    BY <1>1, <2>2, <2>3, SameIs, ScopesTyped
<1>3. PICK n3 \in {2, 4} : c3 = Same(c, Outer(n3))
  <2>1. c2 \in Contexts /\ c2.scopes = Outer(n2)
    BY <1>2, SameIs, ScopesTyped
  <2>2. PopIf(c2, Order[5]) = Same(c2, Outer(IF n2 = 5 THEN n2 - 1 ELSE n2))
    BY <2>1, PopOther
  <2>3. Order[5] = "dialog"
    BY DEF Order
  <2> QED
    BY <1>2, <2>2, <2>3, SameIs, ScopesTyped
<1>4. PICK n4 \in {2, 3} : c4 = Same(c, Outer(n4))
  <2>1. c3 \in Contexts /\ c3.scopes = Outer(n3)
    BY <1>3, SameIs, ScopesTyped
  <2>2. PopIf(c3, Order[4]) = Same(c3, Outer(IF n3 = 4 THEN n3 - 1 ELSE n3))
    BY <2>1, PopOther
  <2>3. Order[4] = "document"
    BY DEF Order
  <2> QED
    BY <1>3, <2>2, <2>3, SameIs, ScopesTyped
<1>5. PICK n5 \in {2, 3} : PopIf(c4, "application") = Same(c, Outer(n5))
  <2>1. c4 \in Contexts /\ c4.scopes = Outer(n4)
    BY <1>4, SameIs, ScopesTyped
  <2>2. PopIf(c4, Order[3]) = Same(c4, Outer(IF n4 = 3 THEN n4 - 1 ELSE n4))
    BY <2>1, PopOther
  <2>3. Order[3] = "application"
    BY DEF Order
  <2> QED
    BY <1>4, <2>2, <2>3, SameIs, ScopesTyped
<1>6. ClearScopes(c, reinit) = IF reinit THEN PopIf(c4, "application") ELSE c4
  BY DEF ClearScopes
<1> HIDE DEF c4
<1> QED
  BY <1>4, <1>5, <1>6

\* A document is installed in a context with its own scopes and dialog, and the
\* item a caller waits for is kept.
LEMMA InstalledIs ==
  ASSUME NEW c \in Contexts, NEW n \in {2, 5, 6}, c.scopes \in {Outer(n), Over(n)},
         NEW j \in Jumps, j.doc \in Docs, NEW i \in 1..3
  PROVE  /\ Installed(c, j)[i] \in Contexts
         /\ Installed(c, j)[i].doc = j.doc /\ Installed(c, j)[i].dialog = j.dialog
         /\ Installed(c, j)[i].last = c.last
         /\ i = 3 => Installed(c, j)[i].scopes = Outer(4)
<1> DEFINE leafToRoot == ~j.submit /\ c.app = j.doc
           reinit == \/ j.sub
                     \/ j.app = None /\ c.app = None
                     \/ ~leafToRoot /\ j.app # c.app
           set     == [c EXCEPT !.app = j.app, !.doc = j.doc,
                                !.dialog = j.dialog, !.item = NoItem]
           cleared == ClearScopes(set, reinit)
           rooted  == IF CurrentScope(cleared, "defaults")
                      THEN PushScope(cleared, "application") ELSE cleared
<1>1. Installed(c, j) = <<set, rooted, PushScope(rooted, "document")>>
  BY DEF Installed
<1>2. /\ set \in Contexts /\ set.scopes = c.scopes /\ set.doc = j.doc
      /\ set.dialog = j.dialog /\ set.last = c.last
  BY NoItemIs DEF Contexts, Jumps
<1>3. reinit \in BOOLEAN
  BY DEF Jumps
<1> HIDE DEF set, reinit
<1>4. PICK m \in {2, 3} : cleared = Same(set, Outer(m))
  BY <1>2, <1>3, ClearScopesIs
<1> HIDE DEF cleared
<1>5. Order[2] = "defaults" /\ Order[3] = "application" /\ Order[4] = "document"
  BY DEF Order
<1>6. rooted = Same(set, Outer(3))
  <2>1. cleared.scopes = Outer(m)
    BY <1>2, <1>4, SameIs, ScopesTyped
  <2>2. CASE m = 2
    <3>1. CurrentScope(cleared, "defaults")
      BY <1>5, <2>1, <2>2, Tops
    <3>2. PushScope(Same(set, Outer(2)), "application") = Same(set, Outer(2 + 1))
      BY <1>2, <1>5, PushIs
    <3> QED
      BY <1>4, <2>2, <3>1, <3>2
  <2>3. CASE m = 3
    <3>1. "defaults" # Order[3]
      BY <1>5
    <3>2. ~CurrentScope(cleared, "defaults")
      BY <2>1, <2>3, <3>1, Tops
    <3> QED
      BY <1>4, <2>3, <3>2
  <2> QED
    BY <2>2, <2>3
<1> HIDE DEF rooted
<1>7. PushScope(rooted, "document") = Same(set, Outer(4))
  <2>1. PushScope(Same(set, Outer(3)), "document") = Same(set, Outer(3 + 1))
    BY <1>2, <1>5, PushIs
  <2> QED
    BY <1>6, <2>1
<1>8. Outer(3) \in Nested /\ Outer(4) \in Nested
  BY ScopesTyped
<1>9. /\ Installed(c, j)[1] = set /\ Installed(c, j)[2] = Same(set, Outer(3))
      /\ Installed(c, j)[3] = Same(set, Outer(4))
  BY <1>1, <1>6, <1>7
<1> QED
  <2>1. i = 1 \/ i = 2 \/ i = 3
    OBVIOUS
  <2> QED
    BY <2>1, <1>2, <1>8, <1>9, SameIs

\* InstallDocument keeps the invariant: for a subdialog the caller is pushed as it
\* waits, otherwise the scopes of the old document are popped.
LEMMA InstallKeeps ==
  ASSUME IInv, InstallDocument
  PROVE  IInv'
<1>1. TypeOK /\ AllWaiting /\ Env' /\ AtInstall /\ Typed
  BY EnvKept, TypedIs DEF IInv, InstallDocument
<1>2. CASE End
  BY <1>1, <1>2, EndKeeps
<1>3. CASE ~End
  <2> DEFINE from  == IF jump.sub THEN ExecutionContext ELSE exe
             steps == Installed(from, jump)
  <2>1. /\ callers' = IF jump.sub THEN <<exe>> \o callers ELSE callers
        /\ \/ pc' = "outer" /\ exe' = steps[3] /\ UNCHANGED handling
           \/ /\ pc' = "event"
              /\ handling' = [site |-> "install", rethrows |-> 0]
              /\ \E i \in 1..3 : exe' = steps[i]
        /\ jump' = NoJump
        /\ UNCHANGED <<carried, form, newDialog, flagVars>>
    BY <1>3 DEF InstallDocument
  <2>2. PICK n \in {2, 5, 6} : from \in Contexts /\ from.scopes \in {Outer(n), Over(n)}
                               /\ from.last = NoItem
    <3>1. CASE jump.sub
      BY <3>1, InitialIs
    <3>2. CASE ~jump.sub
      BY <1>1, <3>2 DEF AtInstall, InDialog, Typed
    <3> QED
      BY <3>1, <3>2
  <2>3. jump \in Jumps /\ jump.doc \in Docs /\ jump.dialog \in DOMAIN Dialogs[jump.doc]
    BY <1>1 DEF AtInstall, Typed
  <2> HIDE DEF from
  <2>4. \A i \in 1..3 : /\ steps[i] \in Contexts
                        /\ steps[i].doc = jump.doc /\ steps[i].dialog = jump.dialog
                        /\ steps[i].last = NoItem
                        /\ i = 3 => steps[i].scopes = Outer(4)
    BY <2>2, <2>3, InstalledIs
  <2> HIDE DEF steps
  <2>5. PICK i \in 1..3 : exe' = steps[i] /\ (pc' = "outer" => i = 3)
    <3>1. 3 \in 1..3
      OBVIOUS
    <3> QED
      BY <2>1, <3>1
  <2>6. /\ exe' \in Contexts /\ Loaded(exe') /\ exe'.last = NoItem
        /\ pc' = "outer" => exe'.scopes = Outer(4)
    BY <2>3, <2>4, <2>5 DEF Loaded
  <2>7. callers' \in Seq(Contexts) /\ AllWaiting' /\ carried.params \in {0, Depth' - 1}
    <3>1. CASE jump.sub
      <4>1. callers' = <<exe>> \o callers /\ Waiting(exe) /\ carried.params = Depth
        BY <1>1, <2>1, <3>1 DEF AtInstall
      <4>2. <<exe>> \in Seq(Contexts) /\ Len(<<exe>>) = 1 /\ <<exe>>[1] = exe
        BY <1>1 DEF Typed
      <4>3. /\ callers' \in Seq(Contexts) /\ Len(callers') = 1 + Len(callers)
            /\ \A k \in 1..1 + Len(callers) :
                 callers'[k] = IF k <= 1 THEN <<exe>>[k] ELSE callers[k - 1]
        BY <1>1, <4>1, <4>2, ConcatProperties DEF Typed
      <4>4. /\ DOMAIN callers' = 1..Len(callers') /\ DOMAIN callers = 1..Len(callers)
            /\ Len(callers) \in Nat
        BY <1>1, <4>3, LenProperties DEF Typed
      <4>5. ASSUME NEW k \in DOMAIN callers'  PROVE Waiting(callers'[k])
        <5>1. CASE k = 1
          BY <4>1, <4>2, <4>3, <4>4, <5>1
        <5>2. CASE k # 1
          <6>1. k - 1 \in DOMAIN callers /\ callers'[k] = callers[k - 1]
            BY <4>3, <4>4, <5>2
          <6> QED
            BY <1>1, <6>1 DEF AllWaiting
        <5> QED
          BY <5>1, <5>2
      <4>6. AllWaiting'
        BY <4>5 DEF AllWaiting
      <4> QED
        BY <4>1, <4>3, <4>4, <4>6 DEF Depth
    <3>2. CASE ~jump.sub
      BY <1>1, <2>1, <3>2 DEF AtInstall, AllWaiting, Typed
    <3> QED
      BY <3>1, <3>2
  <2>8. Clear(carried)
    BY <1>1 DEF AtInstall
  <2>9. TypeOK'
    <3>1. /\ carried' \in Data /\ form' \in Forms /\ newDialog' \in BOOLEAN
          /\ stopRequested' \in BOOLEAN /\ lineHungUp' \in BOOLEAN /\ jump' \in Jumps
          /\ pc' \in Places /\ handling' \in Handlings
      BY <1>1, <2>1, FreshIs, InitialIs DEF Typed, flagVars, Places
    <3> QED
      BY <1>1, <2>6, <2>7, <3>1, TypedNext DEF Typed
  <2>10. CASE pc' = "outer"
    <3>1. AtOuter'
      BY <2>1, <2>6, <2>7, <2>8, <2>10 DEF AtOuter, Loaded, Clear, Params
    <3> QED
      BY <2>7, <2>9, <2>10, <3>1 DEF IInv
  <2>11. CASE pc' = "event"
    <3>1. handling'.site = "install"
      BY <2>1, <2>11
    <3>2. AtEvent'
      BY <2>1, <2>6, <2>7, <2>8, <3>1 DEF AtEvent, Loaded, Clear, Params
    <3> QED
      BY <2>7, <2>9, <2>11, <3>2 DEF IInv
  <2> QED
    BY <2>1, <2>10, <2>11
<1> QED
  BY <1>2, <1>3

\* RunDocumentLoop keeps the invariant, also when it is about to resume a caller.
LEMMA RunDocumentLoopKeeps ==
  ASSUME IInv, RunDocumentLoop
  PROVE  IInv'
<1>1. TypeOK /\ AllWaiting /\ Env' /\ AtOuter /\ Typed
  BY EnvKept, TypedIs DEF IInv, RunDocumentLoop
<1>2. CASE End
  BY <1>1, <1>2, EndKeeps
<1>3. CASE ~End
  <2>1. /\ pc' = "inner" /\ newDialog' = (exe.last = NoItem)
        /\ exe' = [exe EXCEPT !.item = exe.last, !.last = NoItem]
        /\ carried' = [carried EXCEPT !.answer = NoAnswer]
        /\ UNCHANGED <<callers, jump, handling, form, flagVars>>
    BY <1>3 DEF RunDocumentLoop
  <2>2. /\ exe' \in Contexts /\ exe'.doc = exe.doc /\ exe'.dialog = exe.dialog
        /\ exe'.last = NoItem /\ exe'.item = exe.last /\ exe'.scopes = exe.scopes
    BY <1>1, <2>1, NoItemIs DEF Typed, Contexts
  <2>3. /\ carried' \in Data /\ carried'.params = carried.params
        /\ carried'.result = carried.result /\ carried'.event = carried.event
        /\ carried'.answer = NoAnswer
    BY <1>1, <2>1, InitialIs DEF Typed, Data
  <2>4. TypeOK'
    BY <1>1, <2>1, <2>2, <2>3, TypedNext DEF Typed, Places, flagVars
  <2>5. AllWaiting' /\ Depth' = Depth
    BY <1>1, <2>1 DEF AllWaiting, Depth
  <2>6. CASE exe.last = NoItem
    <3>1. /\ Loaded(exe) /\ exe.scopes = Outer(4) /\ Clear(carried)
          /\ Params(carried.params)
      <4>1. NoItem \notin ItemsOf(exe) \/ ~Waiting(exe)
        BY <1>1, DocTyped, NoItemIs DEF Waiting
      <4> QED
        BY <1>1, <2>6, <4>1 DEF AtOuter, Waiting
    <3>2. AtInner'
      BY <2>1, <2>2, <2>3, <2>5, <2>6, <3>1
         DEF AtInner, Loaded, Clear, Params
    <3> QED
      BY <2>1, <2>4, <2>5, <3>2 DEF IInv
  <2>7. CASE exe.last # NoItem
    <3>1. Waiting(exe) /\ Back(carried) /\ carried.params = 0
      BY <1>1, <2>7 DEF AtOuter
    <3>2. AtInner'
      BY <2>1, <2>2, <2>3, <2>5, <2>7, <3>1
         DEF AtInner, AtItem, Waiting, Loaded, Back, ItemsOf, KindOf, Dialog, InDialog
    <3> QED
      BY <2>1, <2>4, <2>5, <3>2 DEF IInv
  <2> QED
    BY <2>6, <2>7
<1> QED
  BY <1>2, <1>3

\* The scopes of a dialog that is left, and of one that begins.
LEMMA PhaseScopes ==
  ASSUME NEW c \in Contexts, NEW n \in {4, 5, 6}, c.scopes \in {Outer(n), Over(n)}
  PROVE  /\ PopIf(PopIf(c, "anonymous"), "local")
              = Same(c, Outer(IF n = 6 THEN 5 ELSE n))
         /\ PushScope(PopIf(PopIf(PopIf(c, "anonymous"), "local"), "dialog"), "dialog")
              = Same(c, Outer(5))
<1> DEFINE m == IF n = 6 THEN 5 ELSE n
<1>1. PopIf(c, "anonymous") = Same(c, Outer(n))
  BY PopAnonymous
<1>2. /\ n \in 2..6 /\ m \in {4, 5} /\ m \in 2..6
      /\ Order[5] = "dialog" /\ Order[6] = "local"
  BY DEF Order
<1>3. Same(c, Outer(n)) \in Contexts /\ Same(c, Outer(n)).scopes = Outer(n)
  BY <1>2, SameIs, ScopesTyped
<1>4. PopIf(Same(c, Outer(n)), Order[6])
        = Same(Same(c, Outer(n)), Outer(IF n = 6 THEN n - 1 ELSE n))
  BY <1>2, <1>3, PopOther
<1>5. PopIf(PopIf(c, "anonymous"), "local") = Same(c, Outer(m))
  BY <1>1, <1>2, <1>4, SameIs, ScopesTyped
<1> HIDE DEF m
<1>6. Same(c, Outer(m)) \in Contexts /\ Same(c, Outer(m)).scopes = Outer(m)
  BY <1>2, SameIs, ScopesTyped
<1>7. PopIf(Same(c, Outer(m)), Order[5])
        = Same(Same(c, Outer(m)), Outer(IF m = 5 THEN m - 1 ELSE m))
  BY <1>2, <1>6, PopOther
<1>8. PopIf(Same(c, Outer(m)), "dialog") = Same(c, Outer(4))
  BY <1>2, <1>7, SameIs, ScopesTyped
<1>9. PushScope(Same(c, Outer(4)), "dialog") = Same(c, Outer(4 + 1))
  BY <1>2, PushIs
<1> QED
  BY <1>5, <1>8, <1>9 DEF m

\* The head of RunInnerLoop keeps the invariant.
LEMMA RunInnerLoopKeeps ==
  ASSUME IInv, RunInnerLoop
  PROVE  IInv'
<1>1. TypeOK /\ AllWaiting /\ Env' /\ AtInner /\ Typed
  BY EnvKept, TypedIs DEF IInv, RunInnerLoop
<1>2. CASE End
  BY <1>1, <1>2, EndKeeps
<1>3. CASE ~End
  <2> DEFINE c     == PopIf(PopIf(exe, "anonymous"), "local")
             begun == PushScope(PopIf(c, "dialog"), "dialog")
  <2>1. /\ IF newDialog
           THEN /\ exe' = [begun EXCEPT !.filled = {}]
                /\ newDialog' = FALSE /\ pc' = "init"
                /\ form' = [at |-> 0, params |-> carried.params]
                /\ carried' = [carried EXCEPT !.params = 0]
           ELSE /\ exe' = c /\ pc' = "phase"
                /\ UNCHANGED <<newDialog, form, carried>>
        /\ UNCHANGED <<callers, jump, handling, flagVars>>
    BY <1>3 DEF RunInnerLoop
  <2>2. PICK n \in {4, 5, 6} : /\ exe.scopes \in {Outer(n), Over(n)}
                               /\ ~newDialog => n # 4
    <3>1. CASE exe.scopes = Outer(4) /\ newDialog
      BY <3>1
    <3>2. CASE exe.scopes \in InDialog
      BY <3>2 DEF InDialog
    <3> QED
      BY <1>1, <3>1, <3>2 DEF AtInner
  <2>3. exe \in Contexts
    BY <1>1 DEF Typed
  <2>4. c = Same(exe, Outer(IF n = 6 THEN 5 ELSE n)) /\ begun = Same(exe, Outer(5))
    BY <2>2, <2>3, PhaseScopes
  <2> HIDE DEF c, begun
  <2>5. AllWaiting' /\ Depth' = Depth
    BY <1>1, <2>1 DEF AllWaiting, Depth
  <2>6. /\ callers' \in Seq(Contexts) /\ jump' \in Jumps /\ handling' \in Handlings
        /\ stopRequested' \in BOOLEAN /\ lineHungUp' \in BOOLEAN
    BY <1>1, <2>1 DEF Typed, flagVars
  <2>7. Outer(5) \in Nested
    BY ScopesTyped
  <2>8. CASE newDialog
    <3>1. /\ begun \in Contexts /\ begun.scopes = Outer(5) /\ begun.doc = exe.doc
          /\ begun.dialog = exe.dialog /\ begun.item = exe.item
          /\ begun.last = exe.last
      BY <2>3, <2>4, <2>7, SameIs
    <3>2. exe' = [begun EXCEPT !.filled = {}]
      BY <2>1, <2>8
    <3>3. /\ exe' \in Contexts /\ exe'.scopes = Outer(5) /\ exe'.doc = exe.doc
          /\ exe'.dialog = exe.dialog /\ exe'.item = exe.item
          /\ exe'.last = exe.last
      BY <3>1, <3>2 DEF Contexts
    <3>4. /\ Loaded(exe) /\ exe.last = NoItem /\ Clear(carried)
          /\ Params(carried.params) /\ (exe.item = NoItem \/ carried.answer # NoAnswer)
      BY <1>1, <2>8 DEF AtInner
    <3>5. /\ carried' \in Data /\ carried'.params = 0 /\ Clear(carried')
          /\ carried'.answer = carried.answer
          /\ form' \in Forms /\ form'.params = carried.params
      BY <1>1, <2>1, <2>8, <3>4 DEF Typed, Data, Clear, Forms
    <3>6. TypeOK'
      BY <1>1, <2>1, <2>6, <2>8, <3>3, <3>5, TypedNext DEF Typed, Places
    <3>7. AtInit' /\ exe'.scopes = Outer(5)
      BY <2>1, <2>5, <2>8, <3>3, <3>4, <3>5
         DEF AtInit, Quiet, Loaded, Params, ItemOK, Clear
    <3> QED
      BY <2>1, <2>5, <2>8, <3>6, <3>7 DEF IInv
  <2>9. CASE ~newDialog
    <3>1. exe' = Same(exe, Outer(5))
      BY <2>1, <2>2, <2>4, <2>9
    <3>2. /\ exe' \in Contexts /\ exe'.scopes = Outer(5) /\ exe'.doc = exe.doc
          /\ exe'.dialog = exe.dialog /\ exe'.item = exe.item
          /\ exe'.last = exe.last
      BY <2>3, <2>7, <3>1, SameIs
    <3>3. TypeOK'
      BY <1>1, <2>1, <2>6, <2>9, <3>2, TypedNext DEF Typed, Places
    <3>4. AtPhase'
      BY <1>1, <2>1, <2>5, <2>9, <3>2
         DEF AtInner, AtPhase, Loaded, AtItem, ItemOK, Clear, Back, ItemsOf, KindOf,
             Dialog
    <3> QED
      BY <2>1, <2>5, <2>9, <3>3, <3>4 DEF IInv
  <2> QED
    BY <2>8, <2>9
<1> QED
  BY <1>2, <1>3

\* Initialising an item of a dialog keeps the invariant.
LEMMA FormInitKeeps ==
  ASSUME IInv, FormInit
  PROVE  IInv'
<1>1. /\ TypeOK /\ AllWaiting /\ Env' /\ AtInit /\ Typed /\ exe.scopes = Outer(5)
      /\ pc = "init"
  BY EnvKept, TypedIs DEF IInv, FormInit
<1>2. /\ UNCHANGED <<callers, jump, carried, newDialog, flagVars>>
      /\ form' = [form EXCEPT !.at = @ + 1]
      /\ \/ /\ \E filled \in {exe.filled, exe.filled \cup {form.at + 1}} :
                 exe' = [exe EXCEPT !.filled = filled]
            /\ UNCHANGED <<pc, handling>>
         \/ /\ pc' = "event" /\ handling' = [site |-> "init", rethrows |-> 0]
            /\ UNCHANGED exe
  BY DEF FormInit
<1>3. form' \in Forms /\ form'.params = form.params /\ form.at + 1 \in Nat
  BY <1>1, <1>2 DEF Typed, Forms
<1>4. /\ exe' \in Contexts /\ exe'.doc = exe.doc /\ exe'.dialog = exe.dialog
      /\ exe'.item = exe.item /\ exe'.last = exe.last /\ exe'.scopes = exe.scopes
  <2>1. exe \in Contexts
    BY <1>1 DEF Typed
  <2>2. ASSUME NEW filled \in {exe.filled, exe.filled \cup {form.at + 1}},
               exe' = [exe EXCEPT !.filled = filled]
        PROVE  /\ exe' \in Contexts /\ exe'.doc = exe.doc
               /\ exe'.dialog = exe.dialog /\ exe'.item = exe.item
               /\ exe'.last = exe.last /\ exe'.scopes = exe.scopes
    <3>1. filled \in SUBSET Nat
      BY <1>3, <2>1, <2>2 DEF Contexts
    <3> QED
      BY <2>1, <2>2, <3>1 DEF Contexts
  <2>3. CASE exe' = exe
    BY <2>1, <2>3
  <2> QED
    BY <1>2, <2>2, <2>3
<1>5. /\ pc' \in {"init", "event"} /\ handling' \in Handlings
      /\ pc' = "event" => handling'.site = "init"
  BY <1>1, <1>2, FreshIs DEF Typed
<1>6. TypeOK'
  BY <1>1, <1>2, <1>3, <1>4, <1>5, TypedNext DEF Typed, Places, flagVars
<1>7. AllWaiting' /\ Depth' = Depth
  BY <1>1, <1>2 DEF AllWaiting, Depth
<1>8. AtInit' /\ exe'.scopes = Outer(5)
  BY <1>1, <1>2, <1>3, <1>4, <1>7
     DEF AtInit, Quiet, Loaded, Params, ItemOK, Clear, ItemsOf, Dialog
<1>9. pc' = "event" => AtEvent'
  BY <1>1, <1>4, <1>5, <1>8 DEF AtEvent, AtInit, Quiet
<1> QED
  BY <1>5, <1>6, <1>7, <1>8, <1>9 DEF IInv

\* The end of FormInit keeps the invariant: the parameters have been taken.
LEMMA FormInitDoneKeeps ==
  ASSUME IInv, FormInitDone
  PROVE  IInv'
<1>1. /\ TypeOK /\ AllWaiting /\ Env' /\ AtInit /\ Typed /\ exe.scopes = Outer(5)
  BY EnvKept, TypedIs DEF IInv, FormInitDone
<1>2. CASE Caught(Out(exe, carried, Throws("event")))
  <2>1. Running(exe, carried)
    BY <1>1 DEF Running, AtInit, Typed, InDialog
  <2> QED
    BY <1>1, <1>2, <2>1, ThrowRuns, CaughtKeeps DEF Runs
<1>3. CASE /\ pc' = IF exe.item = NoItem THEN "next" ELSE "phase"
           /\ form' = NoForm
           /\ UNCHANGED <<exe, callers, jump, handling, carried, newDialog, flagVars>>
  <2>1. TypeOK'
    BY <1>1, <1>3, FreshIs, TypedNext DEF Typed, Places, flagVars
  <2>2. AllWaiting' /\ Depth' = Depth
    BY <1>1, <1>3 DEF AllWaiting, Depth
  <2>3. Quiet(exe, carried)' /\ ~newDialog' /\ exe'.scopes \in InDialog
    BY <1>1, <1>3 DEF AtInit, Quiet, Loaded, Clear, InDialog
  <2>4. pc' = "phase" => AtPhase'
    BY <1>1, <1>3
       DEF AtInit, AtPhase, Quiet, Loaded, Clear, AtItem, ItemOK, ItemsOf, Dialog
  <2> QED
    BY <1>3, <2>1, <2>2, <2>3, <2>4 DEF IInv
<1> QED
  BY <1>2, <1>3 DEF FormInitDone

\* DoInnerJump keeps the invariant: the item selected is one of the dialog.
LEMMA DoInnerJumpKeeps ==
  ASSUME IInv, DoInnerJump
  PROVE  IInv'
<1>1. /\ TypeOK /\ AllWaiting /\ Env' /\ Running(exe, carried)
  BY EnvKept, TypedIs DEF IInv, DoInnerJump, Running, Typed
<1>2. CASE End
  BY <1>1, <1>2, EndKeeps
<1>3. ASSUME NEW i \in ItemsOf(exe), Caught(Out(exe, carried, JumpItem(i)))
      PROVE  IInv'
  <2> DEFINE o == Out(exe, carried, JumpItem(i))
  <2>1. /\ o.exe = exe /\ o.carried = carried /\ o.thrown.type = "item"
        /\ o.thrown.at.item = i /\ o.thrown.to = NoJump
    BY DEF Out, JumpItem, Throws, NoAnswer
  <2>2. Caught(o)
    BY <1>3
  <2> HIDE DEF o
  <2>3. Ends(o)
    BY <1>1, <1>3, <2>1, InitialIs DEF Ends, Running, Quiet
  <2> QED
    BY <1>1, <2>2, <2>3, CaughtKeeps
<1> QED
  BY <1>2, <1>3 DEF DoInnerJump

\* The context when the phase begins, without what is on its way.
LEMMA PhaseRuns ==
  ASSUME IInv, pc = "phase"
  PROVE  /\ TypeOK /\ AllWaiting /\ Typed /\ AtPhase
         /\ carried.answer # NoAnswer => Clear(carried)
         /\ carried.answer = NoAnswer =>
              exe.item \in ItemsOf(exe) /\ (Clear(carried) \/ Back(carried))
         /\ \A s \in Data : Clear(s) /\ s.params = 0 => Running(exe, s)
<1>1. TypeOK /\ AllWaiting /\ Typed /\ AtPhase
  BY TypedIs DEF IInv
<1>2. \A s \in Data : Clear(s) /\ s.params = 0 => Running(exe, s)
  BY <1>1 DEF AtPhase, Typed, Running, Quiet, InDialog
<1> QED
  BY <1>1, <1>2 DEF AtPhase, AtItem, ItemOK

\* Handling a match that was put off keeps the invariant.
LEMMA MatchKeeps ==
  ASSUME IInv, Match
  PROVE  IInv'
<1> DEFINE s == [carried EXCEPT !.answer = NoAnswer]
<1>1. /\ TypeOK /\ AllWaiting /\ Typed /\ AtPhase /\ Clear(carried) /\ Env'
      /\ \A t \in Data : Clear(t) /\ t.params = 0 => Running(exe, t)
  BY PhaseRuns, EnvKept DEF Match
<1>2. s \in Data /\ Clear(s) /\ s.params = 0
  BY <1>1, InitialIs DEF Typed, Data, Clear, AtPhase
<1>3. PICK o \in HandleRemoteMatch(exe, s) : Caught(o)
  BY DEF Match
<1> HIDE DEF s
<1>4. Ends(o)
  BY <1>1, <1>2, <1>3, MatchRuns DEF Runs
<1> QED
  BY <1>1, <1>3, <1>4, CaughtKeeps

\* Taking the result of a subdialog keeps the invariant.
LEMMA ReturnedKeeps ==
  ASSUME IInv, Returned
  PROVE  IInv'
<1> DEFINE s == [carried EXCEPT !.result = 0]
<1>1. /\ TypeOK /\ AllWaiting /\ Typed /\ AtPhase /\ Env'
      /\ exe.item \in ItemsOf(exe) /\ (Clear(carried) \/ Back(carried))
      /\ \A t \in Data : Clear(t) /\ t.params = 0 => Running(exe, t)
      /\ carried.result # 0
  BY PhaseRuns, EnvKept DEF Returned
<1>2. s \in Data /\ Clear(s) /\ s.params = 0
  BY <1>1 DEF Typed, Data, Clear, Back, AtPhase
<1>3. PICK o \in ProcessFilledElements(exe, s, {exe.item}) : Caught(o)
  BY DEF Returned, ProcessReturn
<1> HIDE DEF s
<1>4. {exe.item} \subseteq ItemsOf(exe)
  BY <1>1
<1>5. Ends(o)
  BY <1>1, <1>2, <1>3, <1>4, FilledRuns DEF Runs
<1> QED
  BY <1>1, <1>3, <1>5, CaughtKeeps

\* Throwing the event a subdialog returned keeps the invariant.
LEMMA EventReturnedKeeps ==
  ASSUME IInv, EventReturned
  PROVE  IInv'
<1> DEFINE o == Out(exe, carried, Throws("event"))
<1>1. /\ TypeOK /\ AllWaiting /\ Typed /\ AtPhase /\ Env' /\ carried.result = 0
  BY PhaseRuns, EnvKept DEF EventReturned, Free
<1>2. /\ o.exe = exe /\ o.carried = carried /\ o.thrown.type = "event"
      /\ o.thrown.to = NoJump /\ Caught(o)
  BY DEF Out, Throws, EventReturned
<1> HIDE DEF o
<1>3. Ends(o)
  BY <1>1, <1>2, InitialIs DEF Ends, AtPhase, Typed, InDialog
<1> QED
  BY <1>1, <1>2, <1>3, CaughtKeeps

\* The local scope of the collect phase.
LEMMA LocalIs ==
  ASSUME NEW c \in Contexts, c.scopes = Outer(5)
  PROVE  Local(c) = Same(c, Outer(6))
<1>1. Order[6] = "local"
  BY DEF Order
<1>2. PopIf(c, Order[6]) = Same(c, Outer(IF 5 = 6 THEN 5 - 1 ELSE 5))
  BY PopOther
<1>3. PushScope(Same(c, Outer(5)), "local") = Same(c, Outer(5 + 1))
  BY <1>1, PushIs
<1> QED
  BY <1>1, <1>2, <1>3 DEF Local

\* With nothing returned, the item runs in the local scope.
LEMMA LocalRuns ==
  ASSUME IInv, pc = "phase", Free, carried.event = 0
  PROVE  /\ TypeOK /\ AllWaiting /\ Typed
         /\ Running(Local(exe), carried) /\ Local(exe).scopes = Outer(6)
         /\ Local(exe).item \in ItemsOf(Local(exe))
<1>1. /\ TypeOK /\ AllWaiting /\ Typed /\ AtPhase
      /\ exe.item \in ItemsOf(exe) /\ Clear(carried)
  BY PhaseRuns DEF Free, Clear
<1>2. /\ Local(exe) \in Contexts /\ Local(exe).scopes = Outer(6)
      /\ Local(exe).doc = exe.doc /\ Local(exe).dialog = exe.dialog
      /\ Local(exe).item = exe.item /\ Local(exe).last = exe.last
  BY <1>1, LocalIs, SameIs, ScopesTyped DEF AtPhase, Typed
<1>3. Running(Local(exe), carried)
  BY <1>1, <1>2 DEF Running, Quiet, Loaded, InDialog, AtPhase, Typed
<1> QED
  BY <1>1, <1>2, <1>3 DEF ItemsOf, Dialog

\* Throwing an external event keeps the invariant.
LEMMA ExternalEventKeeps ==
  ASSUME IInv, ExternalEvent
  PROVE  IInv'
<1>1. TypeOK /\ AllWaiting /\ Typed /\ Running(Local(exe), carried)
  BY LocalRuns DEF ExternalEvent, Free
<1>2. Env'
  BY <1>1, InterpreterAssumption DEF ExternalEvent, Typed, Env
<1>3. Caught(Out(Local(exe), carried, Throws("event")))
  BY DEF ExternalEvent
<1> QED
  BY <1>1, <1>2, <1>3, ThrowRuns, CaughtKeeps DEF Runs

\* CollectPhase keeps the invariant.
LEMMA CollectKeeps ==
  ASSUME IInv, Collect
  PROVE  IInv'
<1>1. /\ TypeOK /\ AllWaiting /\ Typed /\ Running(Local(exe), carried) /\ Env'
      /\ Local(exe).scopes = Outer(6) /\ Local(exe).item \in ItemsOf(Local(exe))
  BY LocalRuns, EnvKept DEF Collect, Free
<1>2. CASE \E o \in CollectPhase(Local(exe), carried) : Caught(o)
  <2>1. PICK o \in CollectPhase(Local(exe), carried) : Caught(o)
    BY <1>2
  <2>2. Ends(o)
    BY <1>1, <2>1, CollectRuns DEF Runs
  <2> QED
    BY <1>1, <2>1, <2>2, CaughtKeeps
<1>3. CASE CheckLineStatus(Local(exe), carried)
  <2>1. CASE End
    BY <1>1, <2>1, EndKeeps
  <2>2. CASE /\ lineHungUp' = TRUE
             /\ DoEvent(Local(exe), carried, "inner") /\ UNCHANGED form
    <3>1. /\ pc' = "event" /\ handling' = [site |-> "inner", rethrows |-> 0]
          /\ exe' = Local(exe) /\ carried' = carried /\ jump' = NoJump
          /\ callers' = callers /\ newDialog' = newDialog
          /\ stopRequested' = stopRequested /\ lineHungUp' = TRUE /\ form' = form
      BY <2>2 DEF DoEvent
    <3>2. TypeOK'
      BY <1>1, <3>1, FreshIs, InitialIs, TypedNext DEF Typed, Places, Running
    <3>3. AllWaiting'
      BY <1>1, <3>1 DEF AllWaiting
    <3>4. AtEvent'
      BY <1>1, <3>1 DEF AtEvent, Running, Quiet, Loaded, Clear
    <3> QED
      BY <3>1, <3>2, <3>3, <3>4 DEF IInv
  <2> QED
    BY <1>3, <2>1, <2>2 DEF CheckLineStatus
<1> QED
  BY <1>2, <1>3 DEF Collect

\* A nested stack is one of a level, with an anonymous scope on top or without.
LEMMA NestedIs ==
  ASSUME NEW scopes \in Nested
  PROVE  \E n \in 2..6 : scopes \in {Outer(n), Over(n)}
BY DEF Nested, Over

\* Content run for an event, whatever was being done.
LEMMA HandlerEnds ==
  ASSUME IInv, pc = "event", NEW n \in 2..6, exe.scopes \in {Outer(n), Over(n)},
         NEW o \in ExecuteContent(exe, carried)
  PROVE  /\ Ending(Same(exe, Over(n)), carried, o)
         /\ o.exe.doc = exe.doc /\ o.exe.dialog = exe.dialog /\ o.exe.item = exe.item
         /\ o.exe.last = exe.last /\ o.exe.scopes = Over(n)
         /\ o.exe \in Contexts
<1>1. AtEvent /\ Typed
  BY TypedIs DEF IInv
<1>2. exe \in Contexts /\ (exe.doc # None => Loaded(exe))
  BY <1>1 DEF AtEvent, AtInit, Quiet, Typed
<1>3. Ending(Same(exe, Over(n)), carried, o)
  BY <1>2, ContentEnds
<1>4. Over(n) \in Nested
  BY ScopesTyped
<1> QED
  BY <1>2, <1>3, <1>4, SameIs DEF Ending

\* The handler rethrows, or throws another event.
LEMMA AgainKeeps ==
  ASSUME IInv, pc = "event", NEW o \in ExecuteContent(exe, carried), Env',
         o.thrown.type = "event", Again(handling.rethrows),
         exe' = o.exe, carried' = o.carried,
         handling' = [handling EXCEPT !.rethrows = @ + 1],
         UNCHANGED <<callers, pc, jump, form, newDialog, flagVars>>
  PROVE  IInv'
<1>1. AtEvent /\ Typed /\ AllWaiting
  BY TypedIs DEF IInv
<1>2. PICK n \in 2..6 : exe.scopes \in {Outer(n), Over(n)}
  BY <1>1, NestedIs DEF Typed, Contexts
<1>3. /\ Ending(Same(exe, Over(n)), carried, o)
      /\ o.exe.doc = exe.doc /\ o.exe.dialog = exe.dialog /\ o.exe.item = exe.item
      /\ o.exe.last = exe.last /\ o.exe.scopes = Over(n) /\ o.exe \in Contexts
  BY <1>2, HandlerEnds
<1>4. o.carried \in {carried, ClearSd(carried)}
  BY <1>3 DEF Ending
<1>5. /\ carried' \in Data
      /\ Clear(carried) => Clear(carried')
      /\ carried'.params \in {carried.params, 0}
      /\ Clear(carried) /\ carried.params = 0 => carried' = carried
  <2>1. carried \in Data
    BY <1>1 DEF Typed
  <2>2. /\ ClearSd(carried) \in Data /\ Clear(ClearSd(carried))
        /\ ClearSd(carried).params = 0
        /\ Clear(carried) /\ carried.params = 0 => ClearSd(carried) = carried
    BY <2>1, ClearSdIs
  <2> QED
    BY <1>4, <2>1, <2>2
<1>6. handling' \in Handlings /\ handling'.site = handling.site
  BY SMTT(60), <1>1, InterpreterAssumption DEF Typed, Handlings, Again
<1>7. TypeOK'
  <2>1. /\ callers' \in Seq(Contexts) /\ pc' \in Places /\ jump' \in Jumps
        /\ form' \in Forms /\ newDialog' \in BOOLEAN
        /\ stopRequested' \in BOOLEAN /\ lineHungUp' \in BOOLEAN
    BY <1>1 DEF Typed, flagVars
  <2>2. exe' \in Contexts
    BY <1>3
  <2> QED
    BY <1>5, <1>6, <2>1, <2>2, TypedNext DEF Typed
<1>8. AllWaiting' /\ Depth' = Depth
  BY <1>1 DEF AllWaiting, Depth
<1>9. AtEvent'
  <2>1. CASE handling.site = "load"
    <3>1. /\ exe.doc = None /\ exe.last = NoItem /\ callers = <<>> /\ Clear(carried)
          /\ carried.params = 0 /\ exe.scopes \in {Outer(2), Over(2)}
      BY <1>1, <2>1 DEF AtEvent
    <3>2. exe'.doc = None /\ exe'.last = NoItem /\ callers' = <<>> /\ carried' = carried
      BY <1>3, <1>5, <3>1
    <3>3. o.exe.scopes = Over(2)
      BY <3>1, HandlerEnds
    <3> QED
      BY <1>6, <2>1, <3>1, <3>2, <3>3 DEF AtEvent, Clear
  <2>2. CASE handling.site = "install"
    BY <1>1, <1>3, <1>5, <1>6, <1>8, <2>2 DEF AtEvent, Clear, Params, Loaded
  <2>3. CASE handling.site = "init"
    <3>1. /\ AtInit /\ exe.scopes \in {Outer(5), Over(5)} /\ carried' = carried
      BY <1>1, <1>5, <2>3 DEF AtEvent, AtInit, Quiet
    <3>2. o.exe.scopes = Over(5)
      BY <3>1, HandlerEnds
    <3>3. AtInit'
      BY <1>3, <1>8, <3>1
         DEF AtInit, Quiet, Loaded, Clear, Params, ItemOK, ItemsOf, Dialog, flagVars
    <3> QED
      BY <1>6, <2>3, <3>1, <3>2, <3>3 DEF AtEvent, AtInit, Quiet
  <2>4. CASE handling.site = "inner"
    <3>1. /\ Quiet(exe, carried) /\ ~newDialog /\ exe.scopes \in InDialog
          /\ carried' = carried
      BY <1>1, <1>5, <2>4 DEF AtEvent, Quiet
    <3>2. PICK m \in {5, 6} : exe.scopes \in {Outer(m), Over(m)}
      BY <3>1 DEF InDialog
    <3>3. o.exe.scopes \in InDialog
      BY <3>2, HandlerEnds DEF InDialog
    <3> QED
      BY <1>3, <1>6, <2>4, <3>1, <3>3 DEF AtEvent, Quiet, Loaded, Clear
  <2> QED
    BY <1>1, <2>1, <2>2, <2>3, <2>4 DEF AtEvent
<1> QED
  BY <1>7, <1>8, <1>9 DEF IInv

\* DoEvent keeps the invariant: content of a handler, or the end of the rounds.
LEMMA HandleEventKeeps ==
  ASSUME IInv, HandleEvent
  PROVE  IInv'
<1>1. /\ TypeOK /\ AllWaiting /\ Typed /\ Env' /\ AtEvent /\ pc = "event"
  BY EnvKept, TypedIs DEF IInv, HandleEvent
<1>2. CASE End
  BY <1>1, <1>2, EndKeeps
<1>3. ASSUME NEW o \in ExecuteContent(exe, carried),
             handling.site = "init", o.thrown.type = "end",
             pc' = "init", exe' = PopIf(o.exe, "anonymous"),
             carried' = o.carried, handling' = Calm,
             UNCHANGED <<callers, jump, form, newDialog, flagVars>>
      PROVE  IInv'
  <2>1. AtInit /\ exe.scopes \in {Outer(5), Over(5)}
    BY <1>1, <1>3 DEF AtEvent
  <2>2. /\ Ending(Same(exe, Over(5)), carried, o)
        /\ o.exe.doc = exe.doc /\ o.exe.dialog = exe.dialog /\ o.exe.item = exe.item
        /\ o.exe.last = exe.last /\ o.exe.scopes = Over(5) /\ o.exe \in Contexts
    BY <1>1, <2>1, HandlerEnds
  <2>3. o.carried = carried
    BY <1>3, <2>2 DEF Ending
  <2>4. exe' = Same(o.exe, Outer(5)) /\ Outer(5) \in Nested
    BY <1>3, <2>2, PopAnonymous, ScopesTyped
  <2>5. /\ exe' \in Contexts /\ exe'.scopes = Outer(5) /\ exe'.doc = exe.doc
        /\ exe'.dialog = exe.dialog /\ exe'.item = exe.item /\ exe'.last = exe.last
    BY <2>2, <2>4, SameIs
  <2>6. TypeOK'
    BY <1>1, <1>3, <2>3, <2>5, FreshIs, TypedNext DEF Typed, Places, flagVars
  <2>7. AllWaiting' /\ Depth' = Depth
    BY <1>1, <1>3 DEF AllWaiting, Depth
  <2>8. AtInit'
    BY <1>3, <2>1, <2>3, <2>5, <2>7
       DEF AtInit, Quiet, Loaded, Clear, Params, ItemOK, ItemsOf, Dialog
  <2> QED
    BY <1>3, <2>5, <2>6, <2>7, <2>8 DEF IInv
<1>4. ASSUME NEW o \in ExecuteContent(exe, carried),
             handling.site \in {"init", "inner"}, Caught(o)
      PROVE  IInv'
  <2>1. Running(exe, carried)
    BY <1>1, <1>4 DEF AtEvent, AtInit, Running, Typed, InDialog
  <2> QED
    BY <1>1, <1>4, <2>1, ContentRuns, CaughtKeeps DEF Runs
<1>5. ASSUME NEW o \in ExecuteContent(exe, carried),
             o.thrown.type = "event", Again(handling.rethrows),
             exe' = o.exe, carried' = o.carried,
             handling' = [handling EXCEPT !.rethrows = @ + 1],
             UNCHANGED <<callers, pc, jump, form, newDialog, flagVars>>
      PROVE  IInv'
  BY <1>1, <1>5, AgainKeeps
<1>6. ASSUME NEW o \in ExecuteContent(exe, carried),
             handling.site = "load", o.thrown.type = "doc", Caught(o)
      PROVE  IInv'
  <2>1. /\ exe.doc = None /\ exe.last = NoItem /\ callers = <<>> /\ Clear(carried)
        /\ carried.params = 0 /\ exe.scopes \in {Outer(2), Over(2)}
    BY <1>1, <1>6 DEF AtEvent
  <2>2. /\ Ending(Same(exe, Over(2)), carried, o)
        /\ o.exe.doc = None /\ o.exe.last = NoItem /\ o.exe.scopes = Over(2)
        /\ o.exe \in Contexts
    BY <1>1, <2>1, HandlerEnds
  <2>3. /\ o.carried = ClearSd(carried) /\ ~o.thrown.to.sub /\ o.thrown.to \in Jumps
        /\ o.thrown.to.doc \in Docs
        /\ o.thrown.to.dialog \in DOMAIN Dialogs[o.thrown.to.doc]
    BY <1>6, <2>2 DEF Ending
  <2>4. o.carried \in Data /\ Clear(o.carried) /\ o.carried.params = 0
    BY <1>1, <2>3, ClearSdIs DEF Typed
  <2>5. Ends(o)
    BY <1>6, <2>1, <2>2, <2>3, <2>4 DEF Ends
  <2> QED
    BY <1>1, <1>6, <2>5, CaughtKeeps
<1> QED
  BY <1>2, <1>3, <1>4, <1>5, <1>6 DEF HandleEvent

\* The world changes nothing that the invariant is about.
LEMMA WorldKeeps ==
  ASSUME IInv, Hangup \/ DeclareStopRequest \/ DeclareExternalEvent
  PROVE  IInv'
<1>1. Typed /\ AllWaiting
  BY TypedIs DEF IInv
<1>2. /\ UNCHANGED <<exe, callers, pc, carried, loopVars, lineHungUp>>
      /\ stopRequested' \in BOOLEAN /\ Env'
  <2>1. CASE Hangup
    BY <1>1, <2>1 DEF Typed, Env, Hangup, flagVars
  <2>2. CASE DeclareStopRequest
    BY <1>1, <2>2 DEF Typed, Env, DeclareStopRequest, envVars
  <2>3. CASE DeclareExternalEvent
    BY <1>1, <2>3, InterpreterAssumption DEF Typed, Env, DeclareExternalEvent, flagVars
  <2> QED
    BY <2>1, <2>2, <2>3
<1>3. TypeOK'
  BY <1>1, <1>2, TypedNext DEF Typed, loopVars
<1>4. AllWaiting' /\ Depth' = Depth
  BY <1>1, <1>2 DEF AllWaiting, Depth
<1>5. /\ AtInstall => AtInstall'
      /\ AtOuter => AtOuter'
      /\ AtInner => AtInner'
  BY <1>2, <1>4
     DEF AtInstall, AtOuter, AtInner, AtItem, ItemOK, Back, Clear, Params, Waiting,
         Loaded, ItemsOf, KindOf, Dialog, loopVars
<1>6. /\ AtInit => AtInit'
      /\ AtPhase => AtPhase'
      /\ Quiet(exe, carried) => Quiet(exe, carried)'
  BY <1>2, <1>4
     DEF AtInit, AtPhase, AtItem, ItemOK, Back, Clear, Params, Quiet,
         Loaded, ItemsOf, KindOf, Dialog, loopVars
<1>7. AtEvent => AtEvent'
  BY <1>2, <1>4
     DEF AtEvent, AtInit, ItemOK, Clear, Params, Quiet, Loaded, ItemsOf, Dialog, loopVars
<1> QED
  BY <1>2, <1>3, <1>4, <1>5, <1>6, <1>7 DEF IInv, Quiet, Clear, Loaded, loopVars

\* The invariant holds of a new interpreter.
LEMMA InitHolds == Init => IInv
<1> SUFFICES ASSUME Init PROVE IInv
  OBVIOUS
<1>1. Typed
  <2>1. /\ exe \in Contexts /\ callers \in Seq(Contexts) /\ jump \in Jumps
        /\ handling \in Handlings /\ form \in Forms /\ carried \in Data
    BY InitialIs, FreshIs, EmptySeq DEF Init
  <2>2. externalEvents \in 0..MaxEvents
    BY InterpreterAssumption DEF Init
  <2>3. /\ newDialog \in BOOLEAN /\ stopRequested \in BOOLEAN
        /\ lineHungUp \in BOOLEAN /\ line \in BOOLEAN
    BY DEF Init
  <2> QED
    BY <2>1, <2>2, <2>3 DEF Init, Typed, Env, Places
<1>2. AllWaiting
  BY EmptySeq DEF Init, AllWaiting
<1> QED
  BY <1>1, <1>2, TypedIs DEF Init, IInv

\* The invariant is inductive.
LEMMA NextKeeps == IInv /\ [Next]_vars => IInv'
<1> SUFFICES ASSUME IInv, [Next]_vars PROVE IInv'
  OBVIOUS
<1>1. CASE UNCHANGED vars
  BY <1>1
     DEF IInv, TypeOK, AllWaiting, Waiting, AtInstall, AtOuter, AtInner, AtInit, AtPhase,
         AtEvent, AtItem, ItemOK, Back, Clear, Params, Quiet, Depth, Loaded, ItemsOf,
         KindOf, Dialog, vars, loopVars, flagVars, envVars
<1>2. CASE Step
  BY <1>2, RunKeeps, InstallKeeps, RunDocumentLoopKeeps, RunInnerLoopKeeps,
     FormInitKeeps, FormInitDoneKeeps, DoInnerJumpKeeps, MatchKeeps, ReturnedKeeps,
     EventReturnedKeeps, ExternalEventKeeps, CollectKeeps, HandleEventKeeps DEF Step
<1>3. CASE Hangup \/ DeclareStopRequest \/ DeclareExternalEvent
  BY <1>3, WorldKeeps
<1> QED
  BY <1>1, <1>2, <1>3 DEF Next

\* The invariant holds in every reachable state.
LEMMA Inductive == Spec => []IInv
BY InitHolds, NextKeeps, PTL DEF Spec

-----------------------------------------------------------------------------
(* Theorems.                                                                *)

\* There is at least one context.
LEMMA Deep == ASSUME TypeOK PROVE Depth \in Nat \ {0}
BY TypedIs, LenProperties DEF Typed, Depth

\* Every variable keeps its type.
THEOREM TypeCorrect == Spec => []TypeOK
BY Inductive, PTL DEF IInv

\* The scopes are nested whatever pages, jumps, events and returns come: a dialog
\* being collected has a fresh scope, a caller keeps that of its <subdialog>
\* (Scripter's scope stack, as VXI.cpp pushes and pops it).
THEOREM ScopesAreNested == Spec => []ScopesNested
<1>1. IInv => ScopesNested
  <2> SUFFICES ASSUME IInv PROVE ScopesNested
    OBVIOUS
  <2>1. exe.scopes \in Nested
    BY DEF IInv, TypeOK, Contexts
  <2>2. pc \in {"init", "phase"} => exe.scopes = Outer(5)
    BY DEF IInv, AtPhase
  <2>3. \A i \in DOMAIN callers : callers[i].scopes = Outer(6)
    BY DEF IInv, AllWaiting, Waiting
  <2> QED
    BY <2>1, <2>2, <2>3 DEF ScopesNested
<1> QED
  BY <1>1, Inductive, PTL

\* Parameters, results and events of subdialogs reach the context they are for, at
\* every depth (sdParams, sdResult and sdEvent of VXI.cpp).
THEOREM SubdialogsMatch == Spec => []SubdialogMatched
<1>1. IInv => SubdialogMatched
  <2> SUFFICES ASSUME IInv, pc # "done"
               PROVE  /\ pc = "init" => form.params \in {0, Depth - 1}
                      /\ carried.params # 0 =>
                           \/ pc = "install" /\ jump.sub /\ carried.params = Depth
                           \/ pc # "install" /\ carried.params = Depth - 1
                      /\ carried.result = 0 \/ carried.event = 0
                      /\ \A token \in {carried.result, carried.event} \ {0} :
                           /\ token = Depth
                           /\ pc = "phase" => KindOf(exe, exe.item) = "subdialog"
    BY DEF SubdialogMatched
  <2>1. pc = "init" => form.params \in {0, Depth - 1}
    BY DEF IInv, AtInit, Params
  <2>2. pc \in Places
    BY TypedIs DEF IInv, Typed
  <2>3. \/ pc = "install" /\ jump.sub /\ carried.params = Depth
        \/ pc # "install" /\ carried.params = Depth - 1
        \/ carried.params = 0
    BY <2>2 DEF IInv, Places, AtInstall, AtOuter, AtInner, AtInit, AtPhase, AtEvent,
                Params, Quiet, Nothing
  <2>4. Clear(carried) \/ Back(carried)
    BY <2>2 DEF IInv, Places, AtInstall, AtOuter, AtInner, AtInit, AtPhase, AtEvent,
                AtItem, Quiet, Nothing, Clear
  <2>5. pc = "phase" => Clear(carried) \/ KindOf(exe, exe.item) = "subdialog"
    BY DEF IInv, AtPhase, AtItem
  <2> QED
    BY <2>1, <2>3, <2>4, <2>5 DEF Clear, Back
<1> QED
  BY <1>1, Inductive, PTL

-----------------------------------------------------------------------------
(* The contract with the pages.                                             *)

FrameSet == [doc : Docs \cup {None}, calls : Int]
Above(cs) == [i \in DOMAIN cs |-> Frame(cs[i])]
Pending   == pc # "done" /\ (carried.result # 0 \/ carried.event # 0)
ItemSet   == UNION {DOMAIN Dialogs[t[1]][t[2]] : t \in Targets}

\* The frame the contract sees of a context is typed.
LEMMA FrameTyped ==
  ASSUME NEW c \in Contexts
  PROVE  Frame(c) \in FrameSet
BY DEF Frame, FrameSet, Contexts

\* The contract sees one frame for each caller.
LEMMA AboveIs ==
  ASSUME NEW cs \in Seq(Contexts)
  PROVE  /\ Above(cs) \in Seq(FrameSet) /\ Len(Above(cs)) = Len(cs)
         /\ \A i \in 1..Len(cs) : Above(cs)[i] = Frame(cs[i])
<1>1. DOMAIN cs = 1..Len(cs) /\ Len(cs) \in Nat
  BY LenProperties
<1>2. \A i \in 1..Len(cs) : Frame(cs[i]) \in FrameSet
  BY ElementOfSeq, FrameTyped
<1>3. Above(cs) = [i \in 1..Len(cs) |-> Frame(cs[i])]
  BY <1>1 DEF Above
<1>4. Above(cs) \in [1..Len(cs) -> FrameSet]
  BY <1>2, <1>3
<1>5. Above(cs) \in Seq(FrameSet)
  BY <1>1, <1>4, SeqDef
<1>6. DOMAIN Above(cs) = 1..Len(cs) /\ DOMAIN Above(cs) = 1..Len(Above(cs))
      /\ Len(Above(cs)) \in Nat
  BY <1>4, <1>5, LenProperties
<1>7. Len(Above(cs)) = Len(cs)
  BY <1>1, <1>6
<1> QED
  BY <1>3, <1>5, <1>7

\* A sequence with an element put before it.
LEMMA Cons ==
  ASSUME NEW S, NEW x \in S, NEW s \in Seq(S)
  PROVE  /\ <<x>> \o s \in Seq(S) /\ <<x>> \o s # <<>>
         /\ Len(<<x>> \o s) = Len(s) + 1
         /\ Head(<<x>> \o s) = x /\ Tail(<<x>> \o s) = s
<1>1. <<x>> \in Seq(S) /\ Len(<<x>>) = 1 /\ <<x>>[1] = x
  OBVIOUS
<1>2. /\ <<x>> \o s \in Seq(S) /\ Len(<<x>> \o s) = 1 + Len(s) /\ Len(s) \in Nat
      /\ \A i \in 1..1 + Len(s) :
           (<<x>> \o s)[i] = IF i <= 1 THEN <<x>>[i] ELSE s[i - 1]
  BY <1>1, ConcatProperties, LenProperties
<1>3. <<x>> \o s # <<>>
  BY <1>2, EmptySeq
<1>4. Head(<<x>> \o s) = x
  BY <1>1, <1>2, <1>3, HeadTailProperties
<1>5. Tail(<<x>> \o s) = s
  <2>1. /\ Tail(<<x>> \o s) \in Seq(S) /\ Len(Tail(<<x>> \o s)) = Len(s)
        /\ \A i \in 1..Len(s) : Tail(<<x>> \o s)[i] = (<<x>> \o s)[i + 1]
    BY <1>2, <1>3, HeadTailProperties
  <2>2. \A i \in 1..Len(s) : Tail(<<x>> \o s)[i] = s[i]
    BY <1>2, <2>1
  <2> QED
    BY <2>1, <2>2, SeqEqual
<1> QED
  BY <1>2, <1>3, <1>4, <1>5

\* A caller that is pushed is one frame more.
LEMMA AbovePush ==
  ASSUME NEW c \in Contexts, NEW cs \in Seq(Contexts)
  PROVE  Above(<<c>> \o cs) = <<Frame(c)>> \o Above(cs)
<1>1. /\ <<c>> \o cs \in Seq(Contexts) /\ Len(<<c>> \o cs) = Len(cs) + 1
      /\ Len(cs) \in Nat
  BY Cons, LenProperties
<1>2. <<c>> \in Seq(Contexts) /\ Len(<<c>>) = 1 /\ <<c>>[1] = c
  OBVIOUS
<1>3. /\ Above(<<c>> \o cs) \in Seq(FrameSet) /\ Len(Above(<<c>> \o cs)) = Len(cs) + 1
      /\ \A i \in 1..Len(cs) + 1 : Above(<<c>> \o cs)[i] = Frame((<<c>> \o cs)[i])
  BY <1>1, AboveIs
<1>4. /\ Above(cs) \in Seq(FrameSet) /\ Len(Above(cs)) = Len(cs)
      /\ \A i \in 1..Len(cs) : Above(cs)[i] = Frame(cs[i])
  BY AboveIs
<1>5. /\ <<Frame(c)>> \in Seq(FrameSet) /\ Len(<<Frame(c)>>) = 1
      /\ <<Frame(c)>>[1] = Frame(c)
  BY FrameTyped
<1>6. /\ <<Frame(c)>> \o Above(cs) \in Seq(FrameSet)
      /\ Len(<<Frame(c)>> \o Above(cs)) = Len(cs) + 1
      /\ \A i \in 1..Len(cs) + 1 : (<<Frame(c)>> \o Above(cs))[i]
           = IF i <= 1 THEN Frame(c) ELSE Above(cs)[i - 1]
  BY <1>1, <1>4, <1>5, ConcatProperties
<1>7. \A i \in 1..Len(cs) + 1 : (<<c>> \o cs)[i] = IF i <= 1 THEN c ELSE cs[i - 1]
  BY <1>1, <1>2, ConcatProperties
<1>8. ASSUME NEW i \in 1..Len(cs) + 1
      PROVE  Above(<<c>> \o cs)[i] = (<<Frame(c)>> \o Above(cs))[i]
  <2>1. CASE i <= 1
    <3>1. (<<c>> \o cs)[i] = c
      BY <1>7, <2>1
    <3>2. (<<Frame(c)>> \o Above(cs))[i] = Frame(c)
      BY <1>6, <2>1
    <3> QED
      BY <1>3, <3>1, <3>2
  <2>2. CASE ~(i <= 1)
    <3>1. i - 1 \in 1..Len(cs)
      BY <1>1, <2>2
    <3>2. Above(cs)[i - 1] = Frame(cs[i - 1])
      BY <1>4, <3>1
    <3> QED
      BY <1>3, <1>6, <1>7, <2>2, <3>2
  <2> QED
    BY <2>1, <2>2
<1> QED
  BY <1>3, <1>6, <1>8, SeqEqual

\* A caller that is resumed is one frame less.
LEMMA AbovePop ==
  ASSUME NEW cs \in Seq(Contexts), cs # <<>>
  PROVE  Above(cs) = <<Frame(Head(cs))>> \o Above(Tail(cs))
<1>1. Head(cs) \in Contexts /\ Tail(cs) \in Seq(Contexts)
  BY HeadTailProperties
<1>2. cs = <<Head(cs)>> \o Tail(cs)
  OBVIOUS
<1> QED
  BY <1>1, <1>2, AbovePush

\* The context that runs and those that wait, as the contract sees them.
LEMMA FramesAre ==
  ASSUME IInv
  PROVE  /\ exe.doc = None => Frames = <<>> /\ ~Pending
         /\ exe.doc # None =>
              /\ Frames = <<Frame(exe)>> \o Above(callers)
              /\ Frames \in Seq(FrameSet) /\ Frames # <<>>
              /\ Head(Frames) = Frame(exe) /\ Tail(Frames) = Above(callers)
              /\ Len(Frames) = Depth
<1>1. Typed /\ exe \in Contexts /\ callers \in Seq(Contexts) /\ pc \in Places
  BY TypedIs DEF IInv, Typed
<1>2. ASSUME exe.doc = None
      PROVE  Frames = <<>> /\ ~Pending
  <2>1. ~Loaded(exe)
    BY <1>2, InterpreterAssumption DEF Loaded
  <2>2. pc = "done" \/ Clear(carried)
    BY <1>1, <2>1 DEF IInv, Places, AtInstall, AtOuter, AtInner, AtInit, AtPhase,
                      AtEvent, Waiting, Quiet, Nothing, Clear
  <2> QED
    BY <1>2, <2>2 DEF Frames, Pending, Clear
<1>3. ASSUME exe.doc # None
      PROVE  /\ Frames = <<Frame(exe)>> \o Above(callers)
             /\ Frames \in Seq(FrameSet) /\ Frames # <<>>
             /\ Head(Frames) = Frame(exe) /\ Tail(Frames) = Above(callers)
             /\ Len(Frames) = Depth
  <2>1. Frames = <<Frame(exe)>> \o Above(callers)
    BY <1>3 DEF Frames, Above
  <2>2. /\ Above(callers) \in Seq(FrameSet) /\ Len(Above(callers)) = Len(callers)
        /\ Frame(exe) \in FrameSet /\ Len(callers) \in Nat
    BY <1>1, AboveIs, FrameTyped, LenProperties
  <2> QED
    BY <2>1, <2>2, Cons DEF Depth
<1> QED
  BY <1>2, <1>3

\* A step of the contract, or none.
Kept == Contract!Next \/ UNCHANGED <<Frames, Pending>>

\* A step that keeps document, awaited item and callers is none of the contract.
LEMMA Stutter ==
  ASSUME exe'.doc = exe.doc, exe'.last = exe.last, callers' = callers,
         Pending' <=> Pending
  PROVE  Frames' = Frames /\ Kept
<1>1. Frame(exe)' = Frame(exe)
  BY DEF Frame
<1>2. [i \in DOMAIN callers |-> Frame(callers[i])]'
        = [i \in DOMAIN callers |-> Frame(callers[i])]
  BY DEF Frame
<1>3. Frames' = Frames
  BY <1>1, <1>2 DEF Frames
<1>4. Pending' = Pending
  BY DEF Pending
<1> QED
  BY <1>3, <1>4 DEF Kept

\* The steps of the contract, in the terms of the interpreter.
LEMMA ContractSteps ==
  ASSUME IInv, exe.doc # None
  PROVE  /\ Frames' = <<>> /\ ~Pending' => Kept
         /\ exe.last = NoItem /\ Pending /\ ~Pending' /\ Frames' = Frames => Kept
         /\ exe.last = NoItem /\ ~Pending /\ ~Pending' =>
              /\ \A i \in ItemSet :
                   Frames' = <<[Frame(exe) EXCEPT !.calls = i]>> \o Above(callers)
                     => Kept
              /\ \A d \in Docs :
                   Frames' = <<[doc |-> d, calls |-> NoItem]>> \o Above(callers)
                     => Kept
         /\ exe.last # NoItem /\ ~Pending /\ ~Pending' =>
              \A d \in Docs : Frames' = <<[doc |-> d, calls |-> NoItem]>> \o Frames
                => Kept
         /\ exe.last = NoItem /\ Depth > 1 /\ Pending' /\ Frames' = Above(callers)
              => Kept
         /\ exe.last # NoItem /\ Pending /\ Pending'
            /\ Frames' = <<[Frame(exe) EXCEPT !.calls = NoItem]>> \o Above(callers)
              => Kept
<1>1. /\ Frames # <<>> /\ Head(Frames) = Frame(exe) /\ Tail(Frames) = Above(callers)
      /\ Len(Frames) = Depth /\ Frame(exe).calls = exe.last
  BY FramesAre DEF Frame
<1>2. /\ Contract!Calling <=> exe.last # NoItem
      /\ Contract!Top = Frame(exe)
  BY <1>1 DEF Contract!Calling, Contract!Top
<1>3. Frames' = <<>> /\ ~Pending' => Kept
  BY <1>1 DEF Kept, Contract!Next, Contract!End, Pending
<1>4. exe.last = NoItem /\ Pending /\ ~Pending' /\ Frames' = Frames => Kept
  BY <1>2 DEF Kept, Contract!Next, Contract!Take, Pending
<1>5. ASSUME exe.last = NoItem, ~Pending, ~Pending', NEW i \in ItemSet,
             Frames' = <<[Frame(exe) EXCEPT !.calls = i]>> \o Above(callers)
      PROVE  Kept
  BY <1>1, <1>2, <1>5 DEF Kept, Contract!Next, Contract!Call, Pending, ItemSet
<1>6. ASSUME exe.last = NoItem, ~Pending, ~Pending', NEW d \in Docs,
             Frames' = <<[doc |-> d, calls |-> NoItem]>> \o Above(callers)
      PROVE  Kept
  BY <1>1, <1>2, <1>6 DEF Kept, Contract!Next, Contract!Load, Contract!Frame, Pending
<1>7. ASSUME exe.last # NoItem, ~Pending, ~Pending', NEW d \in Docs,
             Frames' = <<[doc |-> d, calls |-> NoItem]>> \o Frames
      PROVE  Kept
  BY <1>1, <1>2, <1>7 DEF Kept, Contract!Next, Contract!Enter, Contract!Frame, Pending
<1>8. ASSUME exe.last = NoItem, Depth > 1, Pending', Frames' = Above(callers)
      PROVE  Kept
  BY <1>1, <1>2, <1>8 DEF Kept, Contract!Next, Contract!Return, Pending
<1>9. ASSUME exe.last # NoItem, Pending, Pending',
             Frames' = <<[Frame(exe) EXCEPT !.calls = NoItem]>> \o Above(callers)
      PROVE  Kept
  BY <1>1, <1>2, <1>9 DEF Kept, Contract!Next, Contract!Resume, Pending
<1> QED
  BY <1>3, <1>4, <1>5, <1>6, <1>7, <1>8, <1>9

\* The end of a call is a step of the contract, or none.
LEMMA EndStep ==
  ASSUME IInv, End
  PROVE  Kept
<1>1. Frames' = <<>> /\ ~Pending'
  BY InitialIs DEF End, Frames, Pending
<1>2. CASE exe.doc = None
  BY <1>1, <1>2, FramesAre DEF Kept, Pending
<1>3. CASE exe.doc # None
  BY <1>1, <1>3, ContractSteps
<1> QED
  BY <1>2, <1>3

\* Content that is caught, where what was returned is looked at.
LEMMA CaughtStep ==
  ASSUME IInv, Loaded(exe), exe.last = NoItem, NEW o, Ends(o), o.exe.doc = exe.doc,
         Pending => Plain(o), Caught(o)
  PROVE  Kept
<1>1. exe.doc # None /\ Typed /\ callers \in Seq(Contexts) /\ AllWaiting
  BY InterpreterAssumption, TypedIs DEF Loaded, IInv, Typed
<1>2. CASE o.thrown.type = "exit"
  BY <1>2, EndStep DEF Caught
<1>3. CASE o.thrown.type # "exit"
  <2>0. CaughtHere(o)
    BY <1>3 DEF Caught
  <2>1. o.exe \in Contexts /\ o.carried \in Data
    BY DEF Ends
  <2>2. ASSUME exe'.doc = exe.doc, exe'.last = NoItem, callers' = callers, ~Pending'
        PROVE  Kept
    <3>1. CASE Pending
      <4>1. Frames' = Frames
        <5>1. Frame(exe)' = Frame(exe)
          BY <2>2 DEF Frame
        <5>2. [i \in DOMAIN callers |-> Frame(callers[i])]'
                = [i \in DOMAIN callers |-> Frame(callers[i])]
          BY <2>2 DEF Frame
        <5> QED
          BY <2>2, <5>1, <5>2 DEF Frames
      <4> QED
        BY <1>1, <2>2, <3>1, <4>1, ContractSteps
    <3>2. CASE ~Pending
      BY <2>2, <3>2, Stutter
    <3> QED
      BY <3>1, <3>2
  <2>3. CASE o.thrown.type = "event"
    <3>1. /\ exe' = o.exe /\ carried' = [o.carried EXCEPT !.event = 0]
          /\ callers' = callers
      BY <2>0, <2>3 DEF CaughtHere, DoEvent
    <3>2. o.carried.result = 0 /\ o.exe.last = NoItem
      BY <2>3 DEF Ends
    <3>3. ~Pending'
      BY <2>1, <3>1, <3>2 DEF Pending, Data
    <3> QED
      BY <2>2, <3>1, <3>2, <3>3
  <2>4. CASE o.thrown.type \in {"end", "item", "dialog", "answer"}
    <3>1. /\ exe'.doc = o.exe.doc /\ exe'.last = o.exe.last /\ callers' = callers
          /\ carried'.result = o.carried.result /\ carried'.event = o.carried.event
      BY <2>0, <2>1, <2>4 DEF CaughtHere, Contexts, Data
    <3>2. Clear(o.carried) /\ o.exe.last = NoItem
      BY <2>4 DEF Ends
    <3>3. ~Pending'
      BY <3>1, <3>2 DEF Pending, Clear
    <3> QED
      BY <2>2, <3>1, <3>2, <3>3
  <2>5. CASE o.thrown.type = "return"
    <3>1. pc' = "outer" /\ PopExecutionContext /\ carried' = o.carried
      BY <2>0, <2>5 DEF CaughtHere
    <3>2. /\ Depth # 1
          /\ \/ o.carried.result = Depth - 1 /\ o.carried.event = 0
             \/ o.carried.event = Depth - 1 /\ o.carried.result = 0
      BY <2>5 DEF Ends
    <3>3. Depth > 1 /\ Pending'
      <4>1. Depth \in Nat \ {0}
        BY Deep DEF IInv
      <4> QED
        BY <3>1, <3>2, <4>1 DEF Pending
    <3>4. callers # <<>>
      BY <3>2, EmptySeq DEF Depth
    <3>5. Above(callers) = <<Frame(Head(callers))>> \o Above(Tail(callers))
      BY <1>1, <3>4, AbovePop
    <3>6. exe'.doc # None
      <4>1. Waiting(exe')
        BY <1>1, <3>1, <3>2, Popped
      <4> QED
        BY <4>1, InterpreterAssumption DEF Waiting, Loaded
    <3>7. Frames' = <<Frame(exe')>> \o Above(callers')
      BY <3>6 DEF Frames, Above, Frame
    <3>8. Frames' = Above(callers)
      BY <3>1, <3>5, <3>7 DEF PopExecutionContext
    <3> QED
      BY <1>1, <3>3, <3>8, ContractSteps
  <2>6. CASE o.thrown.type = "doc"
    <3>1. /\ exe' = o.exe /\ carried' = o.carried /\ callers' = callers
      BY <2>0, <2>6 DEF CaughtHere
    <3>2. ~Pending'
      BY <2>6, <3>1 DEF Ends, Pending, Clear
    <3>3. CASE ~o.thrown.to.sub
      <4>1. o.exe.last = NoItem
        BY <2>6, <3>3 DEF Ends
      <4> QED
        BY <2>2, <3>1, <3>2, <4>1
    <3>4. CASE o.thrown.to.sub
      <4>1. Waiting(o.exe)
        BY <2>6, <3>4 DEF Ends
      <4>2. ~Pending
        BY <2>6, <3>4 DEF Plain
      <4>3. o.exe.last \in ItemSet
        <5>1. o.exe.doc \in Docs /\ o.exe.dialog \in DOMAIN Dialogs[o.exe.doc]
              /\ o.exe.last \in DOMAIN Dialogs[o.exe.doc][o.exe.dialog]
          BY <4>1 DEF Waiting, Loaded, ItemsOf, Dialog
        <5>2. <<o.exe.doc, o.exe.dialog>> \in Targets
          BY <5>1 DEF Targets
        <5> QED
          BY <5>1, <5>2 DEF ItemSet
      <4>4. Frame(exe') = [Frame(exe) EXCEPT !.calls = o.exe.last]
        BY <3>1 DEF Frame
      <4>5. exe'.doc # None
        BY <1>1, <3>1
      <4>6. Frames' = <<Frame(exe')>> \o Above(callers')
        BY <4>5 DEF Frames, Above, Frame
      <4>7. Frames' = <<[Frame(exe) EXCEPT !.calls = o.exe.last]>> \o Above(callers)
        BY <3>1, <4>4, <4>6
      <4> QED
        BY <1>1, <3>2, <4>2, <4>3, <4>7, ContractSteps
    <3> QED
      BY <3>3, <3>4
  <2>7. o.thrown.type \in {"event", "end", "item", "dialog", "answer", "return", "doc"}
    BY <1>3 DEF Ends
  <2> QED
    BY <2>3, <2>4, <2>5, <2>6, <2>7
<1> QED
  BY <1>2, <1>3

\* The start of a call is a step of the contract, or none.
LEMMA RunStep ==
  ASSUME IInv, Run
  PROVE  Kept
<1>1. exe = ExecutionContext /\ callers = <<>> /\ carried = Nothing /\ exe.doc = None
  BY InitialIs DEF IInv, Run
<1>2. CASE End
  BY <1>2, EndStep
<1>3. ASSUME NEW d \in Docs, NEW o \in PerformTransition(exe, carried, d, 1, FALSE, FALSE),
             \/ o.thrown.type = "doc" /\ Caught(o)
             \/ o.thrown.type = "event" /\ DoEvent(o.exe, carried, "load")
      PROVE  Kept
  <2>1. 1 \in DOMAIN Dialogs[d]
    <3>1. Dialogs[d] \in Seq(Seq(Kinds)) /\ Dialogs[d] # <<>>
      BY InterpreterAssumption
    <3> QED
      BY <3>1, EmptySeq, LenProperties
  <2>2. Goes(exe, carried, FALSE, o)
    BY <1>1, <2>1, InitialIs, PerformTransitionGoes
  <2>3. exe' = o.exe /\ callers' = callers /\ carried' = Nothing
    BY <1>1, <1>3, <2>2 DEF Goes, Caught, CaughtHere, DoEvent
  <2>4. exe'.doc = exe.doc /\ exe'.last = exe.last
    BY <2>2, <2>3 DEF Goes, Leaves
  <2>5. ~Pending /\ ~Pending'
    BY <1>1, <2>3 DEF Pending, Nothing
  <2> QED
    BY <2>3, <2>4, <2>5, Stutter
<1> QED
  BY <1>2, <1>3 DEF Run

\* Loading a document is a call, a change of the frame on top, or none.
LEMMA InstallStep ==
  ASSUME IInv, InstallDocument
  PROVE  Kept
<1>1. TypeOK /\ AllWaiting /\ AtInstall /\ Typed
  BY TypedIs DEF IInv, InstallDocument
<1>2. CASE End
  BY <1>2, EndStep
<1>3. CASE ~End
  <2> DEFINE from  == IF jump.sub THEN ExecutionContext ELSE exe
             steps == Installed(from, jump)
  <2>1. /\ callers' = IF jump.sub THEN <<exe>> \o callers ELSE callers
        /\ pc' \in {"outer", "event"} /\ \E i \in 1..3 : exe' = steps[i]
        /\ carried' = carried
    <3>1. 3 \in 1..3
      OBVIOUS
    <3> QED
      BY <1>3, <3>1 DEF InstallDocument
  <2>2. PICK n \in {2, 5, 6} : from \in Contexts /\ from.scopes \in {Outer(n), Over(n)}
                               /\ from.last = NoItem
    <3>1. CASE jump.sub
      BY <3>1, InitialIs
    <3>2. CASE ~jump.sub
      BY <1>1, <3>2 DEF AtInstall, InDialog, Typed
    <3> QED
      BY <3>1, <3>2
  <2>3. jump \in Jumps /\ jump.doc \in Docs
    BY <1>1 DEF AtInstall, Typed
  <2> HIDE DEF from
  <2>4. exe'.doc = jump.doc /\ exe'.last = NoItem
    BY <2>1, <2>2, <2>3, InstalledIs
  <2>5. ~Pending /\ ~Pending'
    BY <1>1, <2>1 DEF AtInstall, Pending, Clear
  <2>6. exe'.doc # None
    BY <2>3, <2>4, InterpreterAssumption
  <2>7. Frames' = <<[doc |-> jump.doc, calls |-> NoItem]>> \o Above(callers')
    <3>1. Frames' = <<Frame(exe')>> \o Above(callers')
      BY <2>6 DEF Frames, Above, Frame
    <3>2. Frame(exe') = [doc |-> jump.doc, calls |-> NoItem]
      BY <2>4 DEF Frame
    <3> QED
      BY <3>1, <3>2
  <2>8. CASE jump.sub
    <3>1. Waiting(exe) /\ exe.doc # None /\ exe.last # NoItem
      <4>1. Waiting(exe)
        BY <1>1, <2>8 DEF AtInstall
      <4> QED
        BY <4>1, DocTyped, NoItemIs, InterpreterAssumption DEF Waiting, Loaded
    <3>2. Above(callers') = <<Frame(exe)>> \o Above(callers)
      BY <1>1, <2>1, <2>8, AbovePush DEF Typed
    <3>3. Above(callers') = Frames
      BY <3>1, <3>2, FramesAre
    <3> QED
      BY <2>3, <2>5, <2>7, <3>1, <3>3, ContractSteps
  <2>9. CASE ~jump.sub
    <3>1. callers' = callers /\ exe.last = NoItem
      BY <1>1, <2>1, <2>9 DEF AtInstall
    <3>2. CASE exe.doc = None
      <4>1. Frames = <<>>
        BY <3>2, FramesAre
      <4>2. callers = <<>> /\ Above(callers) = <<>>
        BY <1>1, <2>9, <3>2, InterpreterAssumption DEF AtInstall, Loaded, Above
      <4>3. <<[doc |-> jump.doc, calls |-> NoItem]>> \o <<>>
              = <<[doc |-> jump.doc, calls |-> NoItem]>>
        OBVIOUS
      <4> QED
        BY <2>3, <2>5, <2>7, <3>1, <4>1, <4>2, <4>3
           DEF Kept, Contract!Next, Contract!Load, Contract!Frame, Contract!Calling,
               Pending
    <3>3. CASE exe.doc # None
      BY <2>3, <2>5, <2>7, <3>1, <3>3, ContractSteps
    <3> QED
      BY <3>2, <3>3
  <2> QED
    BY <2>8, <2>9
<1> QED
  BY <1>2, <1>3

\* The outer loop returns to a caller, or does nothing the contract sees.
LEMMA LoopStep ==
  ASSUME IInv, RunDocumentLoop
  PROVE  Kept
<1>1. TypeOK /\ AllWaiting /\ AtOuter /\ Typed /\ exe \in Contexts
  BY TypedIs DEF IInv, RunDocumentLoop, Typed
<1>2. CASE End
  BY <1>2, EndStep
<1>3. CASE ~End
  <2>1. /\ pc = "outer" /\ pc' = "inner" /\ callers' = callers
        /\ exe' = [exe EXCEPT !.item = exe.last, !.last = NoItem]
        /\ carried' = [carried EXCEPT !.answer = NoAnswer]
    BY <1>3 DEF RunDocumentLoop
  <2>2. exe'.doc = exe.doc /\ exe'.last = NoItem
    BY <1>1, <2>1 DEF Contexts
  <2>3. carried'.result = carried.result /\ carried'.event = carried.event
    BY <1>1, <2>1 DEF Typed, Data
  <2>4. Pending' <=> Pending
    BY <2>1, <2>3 DEF Pending
  <2>5. CASE exe.last = NoItem
    BY <2>1, <2>2, <2>4, <2>5, Stutter
  <2>6. CASE exe.last # NoItem
    <3>1. Waiting(exe) /\ Back(carried)
      BY <1>1, <2>6 DEF AtOuter
    <3>2. Pending
      <4>1. Depth # 0
        BY <1>1, Deep
      <4> QED
        BY <2>1, <3>1, <4>1 DEF Back, Pending
    <3>3. exe.doc # None
      BY <3>1, InterpreterAssumption DEF Waiting, Loaded
    <3>4. Frames' = <<Frame(exe')>> \o Above(callers')
      BY <2>2, <3>3 DEF Frames, Above, Frame
    <3>5. Frame(exe') = [Frame(exe) EXCEPT !.calls = NoItem]
      BY <2>2 DEF Frame
    <3> QED
      BY <2>1, <2>4, <2>6, <3>2, <3>3, <3>4, <3>5, ContractSteps
  <2> QED
    BY <2>5, <2>6
<1> QED
  BY <1>2, <1>3

\* The head of the inner loop does nothing the contract sees, or it ends the call.
LEMMA InnerStep ==
  ASSUME IInv, RunInnerLoop
  PROVE  Kept
<1>1. TypeOK /\ AtInner /\ Typed /\ exe \in Contexts
  BY TypedIs DEF IInv, RunInnerLoop, Typed
<1>2. CASE End
  BY <1>2, EndStep
<1>3. CASE ~End
  <2> DEFINE c     == PopIf(PopIf(exe, "anonymous"), "local")
             begun == PushScope(PopIf(c, "dialog"), "dialog")
  <2>1. /\ pc = "inner" /\ callers' = callers /\ pc' # "done"
        /\ \/ exe' = [begun EXCEPT !.filled = {}] \/ exe' = c
        /\ carried' \in {carried, [carried EXCEPT !.params = 0]}
    BY <1>3 DEF RunInnerLoop
  <2>2. PICK n \in {4, 5, 6} : exe.scopes \in {Outer(n), Over(n)}
    BY <1>1 DEF AtInner, InDialog
  <2>3. c = Same(exe, Outer(IF n = 6 THEN 5 ELSE n)) /\ begun = Same(exe, Outer(5))
    BY <1>1, <2>2, PhaseScopes
  <2> HIDE DEF c, begun
  <2>4. /\ c.doc = exe.doc /\ c.last = exe.last
        /\ begun \in Contexts /\ begun.doc = exe.doc /\ begun.last = exe.last
    <3>1. PICK m \in 2..6 : c = Same(exe, Outer(m))
      BY <2>3
    <3> QED
      BY <1>1, <2>3, <3>1, SameIs, ScopesTyped
  <2>5. exe'.doc = exe.doc /\ exe'.last = exe.last
    BY <2>1, <2>4 DEF Contexts
  <2>6. carried'.result = carried.result /\ carried'.event = carried.event
    BY <1>1, <2>1 DEF Typed, Data
  <2> QED
    BY <2>1, <2>5, <2>6, Stutter DEF Pending
<1> QED
  BY <1>2, <1>3

\* Initialising a dialog is no step of the contract, or one of what is thrown.
LEMMA FormStep ==
  ASSUME IInv, FormInit \/ FormInitDone
  PROVE  Kept
<1>1. TypeOK /\ AtInit /\ Typed /\ exe.scopes = Outer(5) /\ exe \in Contexts
  BY TypedIs DEF IInv, FormInit, FormInitDone, Typed
<1>2. CASE FormInit
  <2>1. /\ callers' = callers /\ carried' = carried /\ pc' # "done" /\ pc # "done"
        /\ \/ \E filled : exe' = [exe EXCEPT !.filled = filled]
           \/ exe' = exe
    BY <1>2 DEF FormInit
  <2>2. exe'.doc = exe.doc /\ exe'.last = exe.last
    BY <1>1, <2>1 DEF Contexts
  <2> QED
    BY <2>1, <2>2, Stutter DEF Pending
<1>3. CASE FormInitDone /\ Caught(Out(exe, carried, Throws("event")))
  <2>1. Running(exe, carried) /\ Loaded(exe) /\ exe.last = NoItem
    BY <1>1 DEF Running, AtInit, Quiet, Typed, InDialog
  <2> QED
    BY <1>1, <1>3, <2>1, ThrowRuns, CaughtStep DEF Runs
<1>4. CASE /\ pc = "init" /\ pc' = IF exe.item = NoItem THEN "next" ELSE "phase"
           /\ UNCHANGED <<exe, callers, carried>>
  BY <1>4, Stutter DEF Pending
<1> QED
  BY <1>2, <1>3, <1>4 DEF FormInitDone

\* Selecting an item is no step of the contract, or one of what is thrown.
LEMMA JumpStep ==
  ASSUME IInv, DoInnerJump
  PROVE  Kept
<1>1. /\ TypeOK /\ Running(exe, carried) /\ Loaded(exe) /\ exe.last = NoItem
  BY TypedIs DEF IInv, DoInnerJump, Running, Quiet, Typed
<1>2. CASE End
  BY <1>2, EndStep
<1>3. ASSUME NEW i \in ItemsOf(exe), Caught(Out(exe, carried, JumpItem(i)))
      PROVE  Kept
  <2> DEFINE o == Out(exe, carried, JumpItem(i))
  <2>1. /\ o.exe = exe /\ o.carried = carried /\ o.thrown.type = "item"
        /\ o.thrown.at.item = i /\ o.thrown.to = NoJump
    BY DEF Out, JumpItem, Throws, NoAnswer
  <2>2. Caught(o)
    BY <1>3
  <2> HIDE DEF o
  <2>3. Ends(o)
    BY <1>1, <1>3, <2>1, InitialIs DEF Ends, Running, Quiet
  <2>4. Plain(o) /\ o.exe.doc = exe.doc
    BY <2>1 DEF Plain
  <2> QED
    BY <1>1, <2>2, <2>3, <2>4, CaughtStep
<1> QED
  BY <1>2, <1>3 DEF DoInnerJump

\* Taking what was returned delivers it to the item that waits.
LEMMA PhaseStep ==
  ASSUME IInv, Match \/ Returned \/ EventReturned
  PROVE  Kept
<1>1. /\ TypeOK /\ Typed /\ AtPhase /\ Loaded(exe) /\ exe.last = NoItem
      /\ \A t \in Data : Clear(t) /\ t.params = 0 => Running(exe, t)
  BY PhaseRuns DEF Match, Returned, EventReturned, Free, AtPhase
<1>2. CASE Match
  <2> DEFINE s == [carried EXCEPT !.answer = NoAnswer]
  <2>1. s \in Data /\ Clear(s) /\ s.params = 0 /\ ~Pending
    <3>1. Clear(carried)
      BY <1>2, PhaseRuns DEF Match
    <3> QED
      BY <1>1, <3>1, InitialIs DEF Typed, Data, Clear, AtPhase, Pending
  <2>2. PICK o \in HandleRemoteMatch(exe, s) : Caught(o)
    BY <1>2 DEF Match
  <2> HIDE DEF s
  <2>3. Runs(exe, o)
    BY <1>1, <2>1, <2>2, MatchRuns
  <2> QED
    BY <1>1, <2>1, <2>2, <2>3, CaughtStep DEF Runs
<1>3. CASE Returned
  <2> DEFINE s == [carried EXCEPT !.result = 0]
  <2>1. /\ s \in Data /\ Clear(s) /\ s.params = 0 /\ {exe.item} \subseteq ItemsOf(exe)
    <3>1. exe.item \in ItemsOf(exe) /\ (Clear(carried) \/ Back(carried))
          /\ carried.result # 0
      BY <1>3, PhaseRuns DEF Returned
    <3> QED
      BY <1>1, <3>1 DEF Typed, Data, Clear, Back, AtPhase
  <2>2. PICK o \in ProcessFilledElements(exe, s, {exe.item}) : Caught(o)
    BY <1>3 DEF Returned, ProcessReturn
  <2> HIDE DEF s
  <2>3. Runs(exe, o) /\ Plain(o)
    BY <1>1, <2>1, <2>2, FilledRuns
  <2> QED
    BY <1>1, <2>2, <2>3, CaughtStep DEF Runs
<1>4. CASE EventReturned
  <2> DEFINE o == Out(exe, carried, Throws("event"))
  <2>1. /\ o.exe = exe /\ o.carried = carried /\ o.thrown.type = "event"
        /\ o.thrown.to = NoJump /\ Caught(o) /\ carried.result = 0
    BY <1>4 DEF Out, Throws, EventReturned, Free
  <2> HIDE DEF o
  <2>2. Ends(o) /\ Plain(o)
    BY <1>1, <2>1, InitialIs DEF Ends, Plain, AtPhase, Typed, InDialog
  <2> QED
    BY <1>1, <2>1, <2>2, CaughtStep
<1> QED
  BY <1>2, <1>3, <1>4

\* What an item ends in is a step of the contract, or none.
LEMMA CollectStep ==
  ASSUME IInv, ExternalEvent \/ Collect
  PROVE  Kept
<1>1. pc = "phase" /\ Free /\ carried.event = 0
  BY DEF ExternalEvent, Collect, Free
<1>2. /\ TypeOK /\ Typed /\ Running(Local(exe), carried)
      /\ Local(exe).scopes = Outer(6) /\ Local(exe).item \in ItemsOf(Local(exe))
      /\ ~Pending
  BY <1>1, LocalRuns DEF Free, Pending
<1>3. /\ Loaded(exe) /\ exe.last = NoItem /\ Local(exe).doc = exe.doc
      /\ Local(exe).last = exe.last
  <2>1. AtPhase /\ exe \in Contexts
    BY <1>1, <1>2 DEF IInv, Typed
  <2> QED
    BY <2>1, LocalIs, SameIs, ScopesTyped DEF AtPhase
<1>4. ASSUME NEW o, Runs(Local(exe), o), Caught(o)
      PROVE  Kept
  BY <1>2, <1>3, <1>4, CaughtStep DEF Runs
<1>5. CASE ExternalEvent
  BY <1>2, <1>4, <1>5, ThrowRuns DEF ExternalEvent
<1>6. CASE \E o \in CollectPhase(Local(exe), carried) : Caught(o)
  BY <1>2, <1>4, <1>6, CollectRuns
<1>7. CASE CheckLineStatus(Local(exe), carried)
  <2>1. CASE End
    BY <2>1, EndStep
  <2>2. CASE DoEvent(Local(exe), carried, "inner")
    BY <1>1, <1>2, <1>3, <2>2, Stutter DEF DoEvent, Pending
  <2> QED
    BY <1>7, <2>1, <2>2 DEF CheckLineStatus
<1> QED
  BY <1>5, <1>6, <1>7 DEF Collect

\* What a handler ends in is a step of the contract, or none.
LEMMA EventStep ==
  ASSUME IInv, HandleEvent
  PROVE  Kept
<1>1. TypeOK /\ Typed /\ AtEvent /\ pc = "event" /\ Clear(carried) /\ ~Pending
  BY TypedIs DEF IInv, HandleEvent, AtEvent, AtInit, Quiet, Pending, Clear
<1>2. CASE End
  BY <1>2, EndStep
<1>3. PICK n \in 2..6 : exe.scopes \in {Outer(n), Over(n)}
  BY <1>1, NestedIs DEF Typed, Contexts
<1>4. ASSUME NEW o \in ExecuteContent(exe, carried)
      PROVE  /\ o.exe.doc = exe.doc /\ o.exe.last = exe.last /\ o.exe \in Contexts
             /\ o.exe.scopes = Over(n)
             /\ o.thrown.type \in {"event", "end"} => Clear(o.carried)
  <2>1. /\ Ending(Same(exe, Over(n)), carried, o)
        /\ o.exe.doc = exe.doc /\ o.exe.last = exe.last /\ o.exe \in Contexts
        /\ o.exe.scopes = Over(n)
    BY <1>1, <1>3, HandlerEnds
  <2>2. o.thrown.type \in {"event", "end"} => o.carried \in {carried, ClearSd(carried)}
    BY <2>1 DEF Ending
  <2>3. Clear(ClearSd(carried))
    BY <1>1, ClearSdIs DEF Typed
  <2> QED
    BY <1>1, <2>1, <2>2, <2>3
<1>5. ASSUME NEW o \in ExecuteContent(exe, carried),
             o.thrown.type \in {"event", "end"}, pc' # "done",
             exe' = o.exe \/ exe' = PopIf(o.exe, "anonymous"),
             carried' = o.carried, callers' = callers
      PROVE  Kept
  <2>1. exe'.doc = exe.doc /\ exe'.last = exe.last
    <3>1. PopIf(o.exe, "anonymous") = Same(o.exe, Outer(n))
      BY <1>4, PopAnonymous
    <3> QED
      BY <1>4, <1>5, <3>1, SameIs, ScopesTyped
  <2>2. ~Pending'
    BY <1>4, <1>5 DEF Pending, Clear
  <2> QED
    BY <1>1, <1>5, <2>1, <2>2, Stutter
<1>6. ASSUME NEW o \in ExecuteContent(exe, carried),
             handling.site \in {"init", "inner"}, Caught(o)
      PROVE  Kept
  <2>1. Running(exe, carried) /\ Loaded(exe) /\ exe.last = NoItem
    BY <1>1, <1>6 DEF AtEvent, AtInit, Quiet, Running, Typed, InDialog
  <2>2. Runs(exe, o)
    BY <1>1, <2>1, ContentRuns
  <2> QED
    BY <1>1, <1>6, <2>1, <2>2, CaughtStep DEF Runs
<1>7. ASSUME NEW o \in ExecuteContent(exe, carried),
             o.thrown.type = "doc", handling.site = "load", Caught(o)
      PROVE  Kept
  <2>1. exe' = o.exe /\ callers' = callers /\ carried' = o.carried
    BY <1>7 DEF Caught, CaughtHere
  <2>2. exe'.doc = exe.doc /\ exe'.last = exe.last
    BY <1>4, <2>1
  <2>3. Clear(o.carried)
    <3>1. o.carried = ClearSd(carried)
      BY <1>1, <1>3, <1>7, HandlerEnds DEF Ending
    <3> QED
      BY <1>1, <3>1, ClearSdIs DEF Typed
  <2>4. ~Pending'
    BY <2>1, <2>3 DEF Pending, Clear
  <2> QED
    BY <1>1, <2>1, <2>2, <2>4, Stutter
<1> QED
  <2>1. \/ End
        \/ \E o \in ExecuteContent(exe, carried) :
             \/ /\ o.thrown.type = "event" /\ exe' = o.exe /\ carried' = o.carried
                /\ pc' = pc /\ callers' = callers
             \/ /\ o.thrown.type = "end" /\ exe' = PopIf(o.exe, "anonymous")
                /\ carried' = o.carried /\ pc' = "init" /\ callers' = callers
             \/ handling.site \in {"init", "inner"} /\ Caught(o)
             \/ o.thrown.type = "doc" /\ handling.site = "load" /\ Caught(o)
    BY DEF HandleEvent
  <2> QED
    BY <1>1, <1>2, <1>5, <1>6, <1>7, <2>1

\* The interpreter keeps its promises to pages that call each other: a caller waits
\* unchanged in its item, and takes what is returned to it there (SubdialogContract,
\* of the loops of VXI.cpp).
THEOREM ContractKept == Spec => KeepsContract
<1>1. Init => Contract!Init
  BY InitialIs DEF Init, Contract!Init, Frames, Nothing
<1>2. IInv /\ [Next]_vars => [Contract!Next]_(Contract!vars)
  <2> SUFFICES ASSUME IInv, [Next]_vars PROVE Contract!Next \/ UNCHANGED Contract!vars
    OBVIOUS
  <2>1. Kept
    <3>1. CASE UNCHANGED vars
      BY <3>1, Stutter DEF vars, Pending
    <3>2. CASE Step
      BY <3>2, RunStep, InstallStep, LoopStep, InnerStep, FormStep, JumpStep,
         PhaseStep, CollectStep, EventStep DEF Step
    <3>3. CASE Hangup \/ DeclareStopRequest \/ DeclareExternalEvent
      BY <3>3, Stutter DEF Hangup, DeclareStopRequest, DeclareExternalEvent, Pending
    <3> QED
      BY <3>1, <3>2, <3>3 DEF Next
  <2> QED
    BY <2>1 DEF Kept, Contract!vars, Pending
<1> QED
  BY <1>1, <1>2, Inductive, PTL DEF Spec, KeepsContract, Contract!Spec
=============================================================================
