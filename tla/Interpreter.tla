---------------------------- MODULE Interpreter ----------------------------
(***************************************************************************)
(* The loops of the OpenVXI interpreter: RunDocumentLoop, which installs   *)
(* documents and keeps a context for each subdialog that waits, and        *)
(* RunInnerLoop, the form interpretation algorithm, with the events, jumps *)
(* and returns that executable content ends in.  A C++ exception is the    *)
(* outcome of the content that throws it; who catches it is what pc and    *)
(* handling say.                                                           *)
(*                                                                         *)
(* Pages are data: which root document each names and the form items of    *)
(* its dialogs.  Which content a page has at a place, which of its         *)
(* conditions hold, and which handlers it has, is chosen freely.           *)
(***************************************************************************)
EXTENDS Integers, Sequences

CONSTANTS
  Docs,              \* documents
  None,              \* no document
  Application,       \* the root document each document names, or None
  Dialogs,           \* the dialogs of each document; a dialog is the sequence
                     \* of the kinds of its form items
  MaxDepth,          \* DEFAULT_MAX_EXE_STACK_DEPTH
  MaxRethrows,       \* DEFAULT_MAX_EVENT_RETHROWS
  MaxEvents          \* external events that may wait

\* Of these "input" is a <field>; "other" a <record>, <transfer> or <object>.
Kinds == {"block", "input", "initial", "other", "subdialog", "menu"}

ASSUME InterpreterAssumption ==
  /\ None \notin Docs
  /\ Application \in [Docs -> Docs \cup {None}]
  /\ Dialogs \in [Docs -> Seq(Seq(Kinds))]
  /\ \A d \in Docs : Dialogs[d] # <<>>
  /\ MaxDepth \in Nat \ {0} /\ MaxRethrows \in Nat \ {0} /\ MaxEvents \in Nat

NoItem == -1
Form   == 0          \* the form itself, as the element a grammar belongs to

VARIABLES
  exe,               \* the context that runs
  callers,           \* exe->next: the contexts that wait for a subdialog
  pc,                \* where the interpreter is
  jump,              \* the JumpDoc that RunDocumentLoop has caught
  handling,          \* DoEvent: where it was called, and the rethrows
  carried,           \* sdParams, sdResult, sdEvent, each the depth of the
                     \* context whose <subdialog> it belongs to, or 0; and
                     \* the match that RunInnerLoop has still to process
  form,              \* FormInit: children done, and the parameters
  newDialog,         \* a local of RunInnerLoop
  stopRequested,
  lineHungUp,
  line,              \* whether the caller is still there
  externalEvents     \* how many are queued

loopVars == <<jump, handling, form, newDialog>>
flagVars == <<stopRequested, lineHungUp>>
envVars  == <<line, externalEvents>>
vars == <<exe, callers, pc, carried, loopVars, flagVars, envVars>>

Depth == Len(callers) + 1

Dialog(c)    == Dialogs[c.doc][c.dialog]
ItemsOf(c)   == DOMAIN Dialog(c)
KindOf(c, i) == Dialog(c)[i]

-----------------------------------------------------------------------------
(* Scopes.                                                                  *)

CurrentScope(c, name) == c.scopes[Len(c.scopes)] = name
PushScope(c, name)    == [c EXCEPT !.scopes = Append(@, name)]
PopScope(c)           == [c EXCEPT !.scopes = SubSeq(@, 1, Len(@) - 1)]
PopIf(c, name)        == IF CurrentScope(c, name) THEN PopScope(c) ELSE c

ExecutionContext ==
  [app |-> None, appName |-> None, doc |-> None, dialog |-> 1, item |-> NoItem,
   last |-> NoItem, scopes |-> <<"session", "defaults">>, filled |-> {}]

-----------------------------------------------------------------------------
(* Outcomes of executable content: the context and the carried data it      *)
(* leaves, and what it throws.                                              *)

Calm     == [site |-> "none", rethrows |-> 0]
NoForm   == [at |-> 0, params |-> 0]
NoJump   == [doc |-> None, app |-> None, dialog |-> 1, sub |-> FALSE,
             submit |-> FALSE]
NoAnswer == [dialog |-> 0, item |-> NoItem]
Nothing  == [params |-> 0, result |-> 0, event |-> 0, answer |-> NoAnswer]

Throws(type)     == [type |-> type, at |-> NoAnswer, to |-> NoJump]
Out(c, s, thrown) == [exe |-> c, carried |-> s, thrown |-> thrown]

JumpItem(i)   == [Throws("item") EXCEPT !.at.item = i]
JumpDialog(d) == [Throws("dialog") EXCEPT !.at.dialog = d]
JumpDoc(d, app, k, sub, submit) ==
  [Throws("doc") EXCEPT !.to = [doc |-> d, app |-> app, dialog |-> k,
                                sub |-> sub, submit |-> submit]]
AnswerInformation(d, i) ==
  [Throws("answer") EXCEPT !.at = [dialog |-> d, item |-> i]]

\* To a document, which may not load, nor its root document.  The name of the
\* application is set before its root is loaded.
PerformTransition(c, s, d, k, sub, submit) ==
  LET name  == Application[d]
      named == [c EXCEPT !.appName = name]
      to(x, app) == Out(x, s, JumpDoc(d, app, k, sub, submit))
      fails(x)   == Out(x, s, Throws("event"))
  IN  {fails(c)} \cup
      IF name = None THEN {to(named, None)}
      ELSE IF name = c.appName THEN {to(c, c.app)}
      ELSE {fails(named), to(named, name)}

\* To a dialog of the document that runs.
FragmentTransition(c, s, k, sub, submit) ==
  IF sub THEN {Out(c, s, JumpDoc(c.doc, c.app, k, sub, submit))}
  ELSE {Out(c, s, JumpDialog(k))}

Targets == UNION {{d} \X DOMAIN Dialogs[d] : d \in Docs}

Transitions(c, s, sub, submit) ==
  (UNION {PerformTransition(c, s, t[1], t[2], sub, submit) : t \in Targets})
  \cup (UNION {FragmentTransition(c, s, k, sub, submit) :
                 k \in IF c.doc = None THEN {} ELSE DOMAIN Dialogs[c.doc]})

ClearSd(s) == [Nothing EXCEPT !.answer = s.answer]

Goto(c, s) ==
  Transitions(c, ClearSd(s), FALSE, FALSE)
  \cup {Out(c, ClearSd(s), JumpItem(i)) :
          i \in IF c.doc = None THEN {} ELSE ItemsOf(c)}
Submit(c, s) == Transitions(c, ClearSd(s), FALSE, TRUE)

\* Mutant: the result is kept when an event is returned.
ReturnBoth(c, s) ==
  IF Depth = 1 THEN {Out(c, s, Throws("event"))}
  ELSE {Out(c, [s EXCEPT !.result = Depth - 1], Throws("return")),
        Out(c, [s EXCEPT !.event = Depth - 1, !.result = Depth - 1],
            Throws("return"))}
Return(c, s) ==
  IF Depth = 1 THEN {Out(c, s, Throws("event"))}
  ELSE {Out(c, [s EXCEPT !.result = Depth - 1], Throws("return")),
        Out(c, [s EXCEPT !.event = Depth - 1], Throws("return"))}

\* What content may do before it ends: clear the form items.
Effects(c) == {c, [c EXCEPT !.filled = {}]}

Anonymous(c) == PushScope(PopIf(c, "anonymous"), "anonymous")

\* <disconnect> throws an event, as <throw> does.
ExecuteContent(c, s) ==
  UNION {{Out(e, s, Throws("end")), Out(e, s, Throws("event")),
          Out(e, s, Throws("exit"))}
         \cup Goto(e, s) \cup Submit(e, s) \cup Return(e, s) :
           e \in Effects(Anonymous(c))}

Initials(c)   == {i \in ItemsOf(c) : KindOf(c, i) = "initial"}
InputItems(c) == {i \in ItemsOf(c) : KindOf(c, i) \notin {"initial", "block"}}

\* The <filled> elements, in the form or in its items, when any item is filled;
\* before them every <initial> of the form is done with.
ProcessFilledElements(c, s, items) ==
  LET done == [c EXCEPT !.filled = @ \cup items \cup Initials(c), !.item = NoItem]
  IN  {Out(done, s, Throws("end")), Out(c, s, Throws("event"))}
      \cup ExecuteContent(done, s)

\* A match of a grammar of the form or of an <initial> fills what it has data
\* for, of another item the item.
HandleRemoteMatch(c, s) ==
  LET mixed == c.item \notin ItemsOf(c) \/ KindOf(c, c.item) = "initial"
      slots == IF mixed THEN (SUBSET InputItems(c)) \ {{}} ELSE {{c.item}}
  IN  {Out(c, s, Throws("end"))}
      \cup UNION {ProcessFilledElements(c, s, items) : items \in slots}

ProcessReturn(c, s) ==
  ProcessFilledElements(c, [s EXCEPT !.result = 0], {c.item})

\* The subdialog's parameters are kept if its document could be loaded.
SubdialogElement(c, s) ==
  LET started(o) == Out([o.exe EXCEPT !.last = c.item],
                        [o.carried EXCEPT !.params = Depth], o.thrown)
  IN  {IF o.thrown.type = "doc" THEN started(o) ELSE o :
         o \in Transitions(c, s, TRUE, FALSE)}

BlockElement(c, s) ==
  ExecuteContent([c EXCEPT !.filled = @ \cup {c.item}], s)

\* A recognition: nothing or nothing known said, a link or choice, or a match
\* of a grammar of the item, of its form, or of another form of the document.
Recognition(c, s) ==
  {Out(c, s, Throws("event"))} \cup Goto(c, s)
  \cup {Out(c, s, AnswerInformation(d, Form)) : d \in DOMAIN Dialogs[c.doc]}
  \cup IF KindOf(c, c.item) = "menu" THEN {}
       ELSE {Out(c, s, AnswerInformation(c.dialog, c.item))}

\* <record>, <transfer> and <object> fill themselves, or nothing.
OtherElement(c, s) ==
  {Out(c, s, Throws("end")), Out(c, s, Throws("event"))}
  \cup ProcessFilledElements(c, s, {c.item})

CollectPhase(c, s) ==
  LET kind == KindOf(c, c.item)
  IN  CASE kind = "block"     -> BlockElement(c, s)
        [] kind = "subdialog" -> SubdialogElement(c, s)
        [] kind = "other"     -> OtherElement(c, s)
        [] kind \in {"input", "initial", "menu"} -> Recognition(c, s)

-----------------------------------------------------------------------------
(* Who catches what.                                                        *)

\* The contexts are popped and Run returns.
End ==
  /\ pc' = "done" /\ exe' = ExecutionContext /\ callers' = <<>>
  /\ jump' = NoJump /\ handling' = Calm /\ form' = NoForm
  /\ lineHungUp' = FALSE /\ stopRequested' = FALSE
  /\ UNCHANGED <<carried, newDialog>>

\* Mutant: the context of the subdialog stays.
PopExecutionContextKept == exe' = Head(callers) /\ UNCHANGED callers
PopExecutionContext == exe' = Head(callers) /\ callers' = Tail(callers)

DoEvent(c, s, site) ==
  /\ pc' = "event" /\ handling' = [site |-> site, rethrows |-> 0]
  /\ exe' = c /\ carried' = s
  /\ jump' = NoJump
  /\ UNCHANGED <<callers, newDialog, stopRequested>>

\* What the catch clauses of RunInnerLoop, and beyond it of RunDocumentLoop,
\* do with what is thrown.
CaughtHere(o) ==
  LET thrown == o.thrown
  IN
  /\ form' = NoForm /\ UNCHANGED lineHungUp
  /\ \/ /\ thrown.type = "event"
        /\ DoEvent(o.exe, [o.carried EXCEPT !.event = 0], "inner")
     \/ /\ thrown.type # "event" /\ handling' = Calm
        /\ jump' = thrown.to /\ UNCHANGED stopRequested
        /\ \/ /\ thrown.type = "return" /\ pc' = "outer"
              /\ PopExecutionContext /\ carried' = o.carried
              /\ UNCHANGED newDialog
           \/ /\ thrown.type = "doc" /\ pc' = "install"
              /\ exe' = o.exe /\ carried' = o.carried
              /\ UNCHANGED <<callers, newDialog>>
           \/ /\ thrown.type = "end" /\ pc' = "next"
              /\ exe' = o.exe /\ carried' = o.carried
              /\ UNCHANGED <<callers, newDialog>>
           \/ /\ thrown.type = "item" /\ pc' = "inner"
              /\ exe' = [o.exe EXCEPT !.item = thrown.at.item]
              /\ carried' = o.carried /\ UNCHANGED <<callers, newDialog>>
           \/ /\ thrown.type = "dialog" /\ pc' = "inner" /\ newDialog' = TRUE
              /\ exe' = [o.exe EXCEPT !.dialog = thrown.at.dialog,
                                      !.item = NoItem]
              /\ carried' = o.carried /\ UNCHANGED callers
           \/ /\ thrown.type = "answer" /\ pc' = "inner"
              /\ newDialog' = (newDialog \/ o.exe.dialog # thrown.at.dialog)
              /\ exe' = [o.exe EXCEPT !.dialog = thrown.at.dialog,
                                      !.item = thrown.at.item]
              /\ carried' = [o.carried EXCEPT !.answer = thrown.at]
              /\ UNCHANGED callers
Caught(o) == IF o.thrown.type = "exit" THEN End ELSE CaughtHere(o)

\* A caller that is gone: first an event, then the end.
CheckLineStatus(c, s) ==
  \/ lineHungUp /\ End
  \/ /\ ~lineHungUp /\ lineHungUp' = TRUE
     /\ DoEvent(c, s, "inner") /\ UNCHANGED form

-----------------------------------------------------------------------------
Init ==
  /\ pc = "idle" /\ exe = ExecutionContext /\ callers = <<>>
  /\ jump = NoJump /\ handling = Calm /\ form = NoForm /\ carried = Nothing
  /\ newDialog = FALSE /\ stopRequested = FALSE /\ lineHungUp = FALSE
  /\ line = TRUE /\ externalEvents = 0

\* Run, to the jump to the initial document.
Run ==
  /\ pc = "idle"
  /\ \/ stopRequested /\ End
     \/ /\ ~stopRequested
        /\ \E d \in Docs :
           \E o \in PerformTransition(exe, carried, d, 1, FALSE, FALSE) :
             \/ o.thrown.type = "doc" /\ Caught(o)
             \/ /\ o.thrown.type = "event" /\ UNCHANGED <<lineHungUp, form>>
                /\ DoEvent(o.exe, carried, "load")
  /\ UNCHANGED envVars

\* Mutant: the scope of the old dialog stays.
ClearScopesKept(c, reinit) ==
  LET popped == PopIf(PopIf(PopIf(c, "anonymous"), "local"), "document")
  IN  IF reinit THEN PopIf(popped, "application") ELSE popped
ClearScopes(c, reinit) ==
  LET popped == PopIf(PopIf(PopIf(PopIf(c, "anonymous"), "local"), "dialog"),
                      "document")
  IN  IF reinit THEN PopIf(popped, "application") ELSE popped

\* The contexts InstallDocument goes through: with the document set, with its
\* application scope, and with its document scope.
Installed(c, j) ==
  LET leafToRoot == ~j.submit /\ c.app = j.doc
      reinit == \/ j.sub
                \/ j.app = None /\ c.app = None
                \/ ~leafToRoot /\ j.app # c.app
      set     == [c EXCEPT !.app = j.app, !.doc = j.doc, !.dialog = j.dialog,
                           !.item = NoItem]
      cleared == ClearScopes(set, reinit)
      rooted  == IF CurrentScope(cleared, "defaults")
                 THEN PushScope(cleared, "application") ELSE cleared
  IN  <<set, rooted, PushScope(rooted, "document")>>

\* An event on the way is handled, and then the call ends.
InstallDocument ==
  /\ pc = "install"
  /\ \/ jump.sub /\ Depth >= MaxDepth /\ End
     \/ /\ jump.sub => Depth < MaxDepth
        /\ callers' = IF jump.sub THEN <<exe>> \o callers ELSE callers
        /\ LET steps == Installed(IF jump.sub THEN ExecutionContext ELSE exe,
                                  jump)
           IN  \/ pc' = "outer" /\ exe' = steps[3] /\ UNCHANGED handling
               \/ /\ pc' = "event"
                  /\ handling' = [site |-> "install", rethrows |-> 0]
                  /\ \E i \in 1..3 : exe' = steps[i]
        /\ jump' = NoJump
        /\ UNCHANGED <<carried, form, newDialog, flagVars>>
  /\ UNCHANGED envVars

\* The head of RunDocumentLoop, and into RunInnerLoop.
RunDocumentLoop ==
  /\ pc = "outer"
  /\ \/ stopRequested /\ End
     \/ /\ ~stopRequested /\ pc' = "inner"
        /\ exe' = [exe EXCEPT !.item = exe.last, !.last = NoItem]
        /\ newDialog' = (exe.last = NoItem)
        /\ carried' = [carried EXCEPT !.answer = NoAnswer]
        /\ UNCHANGED <<callers, jump, handling, form, flagVars>>
  /\ UNCHANGED envVars

\* Mutant: the loop does not look at stopRequested.
StopsNever == FALSE
Stops == stopRequested

\* The head of RunInnerLoop, to FormInit if the dialog is new.
RunInnerLoop ==
  /\ pc = "inner"
  /\ \/ Stops /\ End
     \/ /\ ~Stops
        /\ LET c == PopIf(PopIf(exe, "anonymous"), "local")
           IN  IF newDialog
               THEN /\ exe' = [PushScope(PopIf(c, "dialog"), "dialog")
                                 EXCEPT !.filled = {}]
                    /\ newDialog' = FALSE /\ pc' = "init"
                    /\ form' = [at |-> 0, params |-> carried.params]
                    /\ carried' = [carried EXCEPT !.params = 0]
               ELSE /\ exe' = c /\ pc' = "phase"
                    /\ UNCHANGED <<newDialog, form, carried>>
        /\ UNCHANGED <<callers, jump, handling, flagVars>>
  /\ UNCHANGED envVars

\* FormInit: the next child is declared, filled if it has an expression; or it
\* fails, and after the event FormInit goes on with the one after it.
FormInit ==
  /\ pc = "init" /\ form.at < Len(Dialog(exe))
  /\ form' = [form EXCEPT !.at = @ + 1]
  /\ \/ /\ \E filled \in {exe.filled, exe.filled \cup {form.at + 1}} :
             exe' = [exe EXCEPT !.filled = filled]
        /\ UNCHANGED <<pc, handling>>
     \/ /\ pc' = "event" /\ handling' = [site |-> "init", rethrows |-> 0]
        /\ UNCHANGED exe
  /\ UNCHANGED <<callers, jump, carried, newDialog, flagVars, envVars>>

\* Its end: parameters that nobody declared are an error.
FormInitDone ==
  /\ pc = "init" /\ form.at = Len(Dialog(exe))
  /\ \/ /\ pc' = IF exe.item = NoItem THEN "next" ELSE "phase"
        /\ form' = NoForm
        /\ UNCHANGED <<exe, callers, jump, handling, carried, newDialog, flagVars>>
     \/ /\ form.params # 0
        /\ Caught(Out(exe, carried, Throws("event")))
  /\ UNCHANGED envVars

\* DoInnerJump to the first item that is not filled and whose condition holds;
\* if there is none, or a condition cannot be evaluated, the call ends.
DoInnerJump ==
  /\ pc = "next"
  /\ \/ \E i \in ItemsOf(exe) :
          /\ KindOf(exe, i) = "menu" \/ i \notin exe.filled
          /\ Caught(Out(exe, carried, JumpItem(i)))
     \/ (\A i \in ItemsOf(exe) : KindOf(exe, i) # "menu") /\ End
  /\ UNCHANGED envVars

\* The loop cases of RunInnerLoop: a match, a return, an event returned, and
\* otherwise an external event or the collect phase.
Match ==
  /\ pc = "phase" /\ carried.answer # NoAnswer
  /\ \E o \in HandleRemoteMatch(exe, [carried EXCEPT !.answer = NoAnswer]) :
       Caught(o)
  /\ UNCHANGED envVars

Returned ==
  /\ pc = "phase" /\ carried.answer = NoAnswer /\ carried.result # 0
  /\ \E o \in ProcessReturn(exe, carried) : Caught(o)
  /\ UNCHANGED envVars

Free == /\ pc = "phase"
        /\ carried.answer = NoAnswer /\ carried.result = 0
EventReturned ==
  /\ Free /\ carried.event # 0
  /\ Caught(Out(exe, carried, Throws("event")))
  /\ UNCHANGED envVars

Local(c) == PushScope(PopIf(c, "local"), "local")

ExternalEvent ==
  /\ Free /\ carried.event = 0 /\ externalEvents > 0
  /\ Caught(Out(Local(exe), carried, Throws("event")))
  /\ externalEvents' = externalEvents - 1 /\ UNCHANGED line

\* Nothing is recognised of a caller that is gone; of the other elements,
\* <record> and <transfer> check the line, <object> does not.
Collect ==
  /\ Free /\ carried.event = 0 /\ externalEvents = 0
  /\ LET c    == Local(exe)
         kind == KindOf(exe, exe.item)
     IN  \/ /\ ~line /\ kind \in {"input", "initial", "menu", "other"}
            /\ CheckLineStatus(c, carried)
         \/ \E o \in CollectPhase(c, carried) :
              /\ ~line /\ kind \in {"input", "initial", "menu"} => o.thrown.type = "event"
              /\ Caught(o)
  /\ UNCHANGED envVars

\* Mutant: one rethrow too many.
AgainOnce(n) == n < MaxRethrows
Again(n) == n + 1 < MaxRethrows

\* One round of DoEvent: a handler, what it ends in going to where DoEvent was
\* called from; no handler, and the call ends.  A handler of an event on the way
\* to the first document may jump to another document.
HandleEvent ==
  /\ pc = "event"
  /\ \/ End
     \/ \E o \in ExecuteContent(exe, carried) :
        LET site   == handling.site
            thrown == o.thrown.type
            again  == Again(handling.rethrows)
        IN
        \/ /\ thrown = "event" /\ again
           /\ exe' = o.exe /\ carried' = o.carried
           /\ handling' = [handling EXCEPT !.rethrows = @ + 1]
           /\ UNCHANGED <<callers, pc, jump, form, newDialog, flagVars>>
        \/ thrown = "event" /\ ~again /\ End
        \/ thrown = "doc" /\ site = "load" /\ Caught(o)
        \/ /\ thrown # "event" /\ site \in {"load", "install"}
           /\ site = "load" => thrown # "doc"
           /\ End
        \/ /\ thrown = "end" /\ site = "init"
           /\ pc' = "init" /\ exe' = PopIf(o.exe, "anonymous")
           /\ carried' = o.carried
           /\ handling' = Calm
           /\ UNCHANGED <<callers, jump, form, newDialog, flagVars>>
        \/ /\ thrown # "event" /\ site \in {"init", "inner"}
           /\ site = "init" => thrown # "end"
           /\ Caught(o)
  /\ UNCHANGED envVars

\* The world: the caller hangs up, the application stops the interpreter or
\* sends it an event.
Hangup ==
  /\ pc # "done" /\ line /\ line' = FALSE
  /\ UNCHANGED <<exe, callers, pc, carried, loopVars, flagVars, externalEvents>>
DeclareStopRequest ==
  /\ pc # "done" /\ ~stopRequested /\ stopRequested' = TRUE
  /\ UNCHANGED <<exe, callers, pc, carried, loopVars, lineHungUp, envVars>>
DeclareExternalEvent ==
  /\ pc # "done" /\ externalEvents < MaxEvents
  /\ externalEvents' = externalEvents + 1
  /\ UNCHANGED <<exe, callers, pc, carried, loopVars, flagVars, line>>

Step ==
  \/ Run \/ InstallDocument \/ RunDocumentLoop \/ RunInnerLoop
  \/ FormInit \/ FormInitDone \/ DoInnerJump
  \/ Match \/ Returned \/ EventReturned \/ ExternalEvent \/ Collect
  \/ HandleEvent
Next == Step \/ Hangup \/ DeclareStopRequest \/ DeclareExternalEvent

Spec == Init /\ [][Next]_vars

\* The thread of the interpreter goes on, a recognition ends: WF_vars(Step), for
\* Step is possible until the call is done and only its steps change these.
Moves == <<pc, handling, form>>' # <<pc, handling, form>>
FairSpec == Spec /\ ([]<><<Moves>>_vars \/ <>(pc = "done"))

-----------------------------------------------------------------------------
Order == <<"session", "defaults", "application", "document", "dialog", "local">>
Outer(n)  == SubSeq(Order, 1, n)
Nested    == {Outer(n) : n \in 2..6}
                \cup {Append(Outer(n), "anonymous") : n \in 2..6}

Contexts == [app : Docs \cup {None}, appName : Docs \cup {None},
             doc : Docs \cup {None}, dialog : Nat, item : Int, last : Int,
             scopes : Nested, filled : SUBSET Nat]

TypeOK ==
  /\ exe \in Contexts /\ callers \in Seq(Contexts)
  /\ pc \in {"idle", "install", "outer", "inner", "init", "phase", "next",
             "event", "done"}
  /\ jump \in [doc : Docs \cup {None}, app : Docs \cup {None}, dialog : Nat,
               sub : BOOLEAN, submit : BOOLEAN]
  /\ handling \in [site : {"none", "load", "install", "init", "inner"},
                   rethrows : 0..MaxRethrows - 1]
  /\ carried \in [params : Nat, result : Nat, event : Nat,
                  answer : [dialog : Nat, item : Int]]
  /\ form \in [at : Nat, params : Nat]
  /\ {newDialog, stopRequested, lineHungUp, line} \subseteq BOOLEAN
  /\ externalEvents \in 0..MaxEvents

\* The scopes are nested as the loops comment says, whatever content, event,
\* jump or return came before: a dialog being collected has a fresh local
\* scope, and a caller is left with the local scope of its <subdialog> on top.
ScopesNested ==
  /\ exe.scopes \in Nested
  /\ pc \in {"init", "phase"} => exe.scopes = Outer(5)
  /\ \A i \in DOMAIN callers : callers[i].scopes = Outer(6)

\* What a <subdialog> or a <return> leaves for the other side reaches it:
\* parameters are for the context just above the one they come from, a result
\* or an event for the <subdialog> item of the context just below, never both.
SubdialogMatched ==
  pc # "done" =>
    /\ pc = "init" => form.params \in {0, Depth - 1}
    /\ carried.params # 0 =>
         \/ pc = "install" /\ jump.sub /\ carried.params = Depth
         \/ pc # "install" /\ carried.params = Depth - 1
    /\ carried.result = 0 \/ carried.event = 0
    /\ \A token \in {carried.result, carried.event} \ {0} :
         /\ token = Depth
         /\ pc = "phase" => KindOf(exe, exe.item) = "subdialog"

\* The contract of SubdialogContract, of which this is an implementation.
Frame(c) == [doc |-> c.doc, calls |-> c.last]
Frames   == IF exe.doc = None THEN <<>>
            ELSE <<Frame(exe)>> \o [i \in DOMAIN callers |-> Frame(callers[i])]
Contract == INSTANCE SubdialogContract
              WITH frames <- Frames,
                   Items <- UNION {DOMAIN Dialogs[t[1]][t[2]] : t \in Targets},
                   returned <- pc # "done"
                                 /\ (carried.result # 0 \/ carried.event # 0)
KeepsContract == Contract!Spec

\* A stop ends the call, whatever the page does.
StopEnds == stopRequested ~> pc = "done"
=============================================================================
