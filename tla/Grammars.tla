------------------------------ MODULE Grammars ------------------------------
(***************************************************************************)
(* The grammars of one call, on both sides: each execution context of the  *)
(* interpreter has a GrammarManager, which loads the grammars of its       *)
(* document and enables those of the item that is collected; the           *)
(* voiceglue main process has one table for the call, in which each        *)
(* grammar goes by the address the interpreter has it at.  An address is   *)
(* used again once it is freed.  Between two requests of the interpreter   *)
(* main may start a command, for which it caches the signal characters of  *)
(* the grammars that are active.                                           *)
(***************************************************************************)
EXTENDS Integers, Sequences, FiniteSets, SequencesExt

CONSTANTS
  Docs, None,
  Root,            \* the root document of each document, or None
  Page,            \* the grammars of each document, in document order
  Links,           \* the texts of the universals
  Items,           \* the items of each document
  Addresses,       \* where the interpreter may allocate a grammar
  MaxDepth         \* contexts

Places == {"field", "dialog", "document"}
ASSUME GrammarsAssumption ==
  /\ None \notin Docs /\ None \notin Addresses /\ Addresses \subseteq Nat
  /\ Root \in [Docs -> Docs \cup {None}]
  /\ Links \in Seq(ToSet(Links))
  /\ \A d \in Docs : Page[d] \in Seq(ToSet(Page[d]))
  /\ \A d \in Docs : \A i \in DOMAIN Page[d] :
       /\ Page[d][i].place \in Places
       /\ Page[d][i].attribute \in {"none", "dialog", "document"}
       /\ Page[d][i].dynamic \in BOOLEAN

VARIABLES
  gm,              \* the context that runs: its document, its grammars and
                   \* its universals
  callers,         \* the contexts that wait for a subdialog
  pc,              \* what the GrammarManager is doing
  at,              \* and at which grammar
  item,            \* the item that is collected
  target,          \* the document that is installed, or None
  gram_ids,        \* main: the rule and the status of each grammar
  gram_texts,      \* main: which grammar has which text
  gram_signals     \* main: the cached signals, as the texts they are of

loop == <<pc, at, item, target>>
main == <<gram_ids, gram_texts, gram_signals>>
vars == <<gm, callers, loop, main>>

NoGm   == [doc |-> None, grammars |-> <<>>, universals |-> <<>>]
NoItem == [kind |-> "none"]

-----------------------------------------------------------------------------
(* The voiceglue main process.                                              *)

Active == {id \in DOMAIN gram_ids : gram_ids[id].active}
Texts(ids) == {gram_ids[id].text : id \in ids}

\* Mutant: a text that is known is not recorded again.
RecordIfNew(id, text) ==
  IF \E known \in gram_texts : known[1] = text
  THEN gram_texts ELSE gram_texts \cup {<<text, id>>}
Record(id, text) == gram_texts \cup {<<text, id>>}

HandleGrammar(id, text) ==
  /\ gram_ids' = [g \in DOMAIN gram_ids \cup {id} |->
                    IF g = id THEN [text |-> text, active |-> FALSE]
                    ELSE gram_ids[g]]
  /\ gram_texts' = Record(id, text)
  /\ UNCHANGED gram_signals

\* Mutant: the cached signals stay.
ForgetSignalsNot == gram_signals
ForgetSignals == None

\* Load and activate, as for a grammar whose source is an expression.
HandleGrammarAndActivate(id, text) ==
  /\ gram_ids' = [g \in DOMAIN gram_ids \cup {id} |->
                    IF g = id THEN [text |-> text, active |-> TRUE]
                    ELSE gram_ids[g]]
  /\ gram_texts' = Record(id, text)
  /\ gram_signals' = ForgetSignals

HandleGrammarStatus(id, active) ==
  /\ gram_ids' = [gram_ids EXCEPT ![id].active = active]
  /\ gram_signals' = ForgetSignals
  /\ UNCHANGED gram_texts

\* A grammar that is active is not forgotten by the signals.
HandleFreeGrammar(id) ==
  /\ gram_ids' = [g \in DOMAIN gram_ids \ {id} |-> gram_ids[g]]
  /\ gram_texts' = gram_texts \ {<<gram_ids[id].text, id>>}
HandleDeactivateAndFree(id) ==
  HandleFreeGrammar(id) /\ gram_signals' = ForgetSignals

-----------------------------------------------------------------------------
(* One grammar of a page, and which are enabled.                            *)

\* Its scope follows from its place, unless an attribute says otherwise.
Scope(g) == IF g.attribute = "none" THEN g.place ELSE g.attribute

GrammarInfo(g, d, id) ==
  [doc |-> d, scope |-> Scope(g), dialog |-> g.dialog, field |-> g.field,
   dynamic |-> g.dynamic, text |-> g.text, gram |-> id, enabled |-> FALSE]
GrammarInfoUniv(text, id) == [text |-> text, gram |-> id, enabled |-> FALSE]

\* Mutant: the grammars of the form are enabled in a modal item.
EnablesModal(info) ==
  LET dialogs == info.doc = gm.doc /\ info.dialog = item.dialog
  IN  \/ item.field # "" /\ dialogs /\ info.field = item.field
      \/ info.scope = "dialog" /\ dialogs
      \/ ~item.modal /\ info.scope = "document"
Enables(info) ==
  LET dialogs == info.doc = gm.doc /\ info.dialog = item.dialog
  IN  \/ item.field # "" /\ dialogs /\ info.field = item.field
      \/ ~item.modal /\ info.scope = "dialog" /\ dialogs
      \/ ~item.modal /\ info.scope = "document"

\* The grammars LoadGrammars finds: of the document, of its root, universals.
OfDoc(d) == IF d = None THEN <<>>
            ELSE [i \in DOMAIN Page[d] |-> [of |-> d, grammar |-> Page[d][i]]]
ToLoad(d) == OfDoc(d) \o OfDoc(Root[d])
               \o [i \in DOMAIN Links |-> [of |-> None, text |-> Links[i]]]

\* Where a new grammar is: at the address that was freed, if there is one, the
\* choice of an allocator that would show the use of a stale one.
Fresh(id) == /\ id \in Addresses \ DOMAIN gram_ids
             /\ \A other \in Addresses : other < id => other \in DOMAIN gram_ids
FreshIds  == {id \in Addresses : Fresh(id)}

-----------------------------------------------------------------------------
Init ==
  /\ gm = NoGm /\ callers = <<>>
  /\ pc = "idle" /\ at = 0 /\ item = NoItem /\ target = None
  /\ gram_ids = <<>> /\ gram_texts = {} /\ gram_signals = None

\* A jump to a document, from wherever the interpreter is.
InstallDocument ==
  /\ pc = "idle"
  /\ \E d \in Docs : target' = d
  /\ pc' = "release" /\ at' = 0 /\ item' = NoItem
  /\ UNCHANGED <<gm, callers, main>>

\* The end of a subdialog or, in the first context, of the call.
PopExecutionContext ==
  /\ pc = "idle" /\ gm.doc # None
  /\ pc' = "release" /\ target' = None /\ at' = 0 /\ item' = NoItem
  /\ UNCHANGED <<gm, callers, main>>

\* ReleaseGrammars, one grammar at a time from the last; then the document is
\* loaded, or the context is gone.
ReleaseGrammar ==
  /\ pc = "release" /\ gm.grammars # <<>>
  /\ LET info == Last(gm.grammars)
     IN  IF info.gram = None THEN UNCHANGED main
         ELSE /\ HandleFreeGrammar(info.gram)
              /\ gram_signals' = IF info.enabled THEN ForgetSignals
                                 ELSE gram_signals
  /\ gm' = [gm EXCEPT !.grammars = Front(@)]
  /\ UNCHANGED <<callers, loop>>

ReleaseUniversal ==
  /\ pc = "release" /\ gm.grammars = <<>> /\ gm.universals # <<>>
  /\ HandleFreeGrammar(Last(gm.universals).gram) /\ UNCHANGED gram_signals
  /\ gm' = [gm EXCEPT !.universals = Front(@)]
  /\ UNCHANGED <<callers, loop>>

Released ==
  /\ pc = "release" /\ gm.grammars = <<>> /\ gm.universals = <<>>
  /\ \/ /\ target # None
        /\ gm' = [gm EXCEPT !.doc = target] /\ pc' = "load"
        /\ UNCHANGED callers
     \/ /\ target = None /\ callers # <<>>
        /\ gm' = Head(callers) /\ callers' = Tail(callers) /\ pc' = "idle"
     \/ /\ target = None /\ callers = <<>>
        /\ gm' = NoGm /\ pc' = "done" /\ UNCHANGED callers
  /\ at' = 0 /\ UNCHANGED <<item, target, main>>

\* LoadGrammars, one grammar at a time.  One that cannot be loaded ends the
\* call; one whose source is an expression is loaded when it is enabled.
LoadGrammar ==
  /\ pc = "load" /\ at < Len(ToLoad(target))
  /\ at' = at + 1
  /\ LET new == ToLoad(target)[at + 1]
     IN  \/ /\ new.of # None /\ new.grammar.dynamic
            /\ gm' = [gm EXCEPT !.grammars =
                        Append(@, GrammarInfo(new.grammar, new.of, None))]
            /\ UNCHANGED main
         \/ /\ new.of # None /\ ~new.grammar.dynamic
            /\ \E id \in FreshIds :
                 /\ HandleGrammar(id, new.grammar.text)
                 /\ gm' = [gm EXCEPT !.grammars =
                             Append(@, GrammarInfo(new.grammar, new.of, id))]
         \/ /\ new.of = None
            /\ \E id \in FreshIds :
                 /\ HandleGrammar(id, new.text)
                 /\ gm' = [gm EXCEPT !.universals =
                             Append(@, GrammarInfoUniv(new.text, id))]
  /\ UNCHANGED <<callers, pc, item, target>>

LoadFails ==
  /\ pc = "load" /\ at < Len(ToLoad(target))
  /\ pc' = "ending" /\ at' = 0 /\ UNCHANGED <<gm, callers, item, target, main>>

Loaded ==
  /\ pc = "load" /\ at = Len(ToLoad(target))
  /\ pc' = "idle" /\ at' = 0 /\ UNCHANGED <<gm, callers, item, target, main>>

\* The call ends: every context is popped.
Ending ==
  /\ pc = "ending"
  /\ gm' = NoGm /\ callers' = <<>> /\ pc' = "done"
  /\ gram_ids' = <<>> /\ gram_texts' = {} /\ gram_signals' = None
  /\ UNCHANGED <<at, item, target>>

-----------------------------------------------------------------------------
\* The element of an item disables what is enabled before it enables its own; a
\* field queues its prompts before that, the others after it.
Collect ==
  /\ pc = "idle" /\ gm.doc # None
  /\ \E i \in Items[gm.doc] : item' = i
  /\ pc' = "disable" /\ at' = 1
  /\ UNCHANGED <<gm, callers, target, main>>

\* DisableAllGrammars: one grammar; a dynamic one is freed.
\* Mutant: the context keeps the address of what it freed.
DisabledKept(info) == [info EXCEPT !.enabled = FALSE]
Disabled(info) ==
  [info EXCEPT !.enabled = FALSE, !.gram = IF info.dynamic THEN None ELSE @]

DisableGrammar ==
  /\ pc = "disable" /\ at <= Len(gm.grammars)
  /\ LET info == gm.grammars[at]
     IN  IF ~info.enabled THEN UNCHANGED <<gm, main>>
         ELSE /\ gm' = [gm EXCEPT !.grammars[at] = Disabled(info)]
              /\ IF info.dynamic THEN HandleDeactivateAndFree(info.gram)
                 ELSE HandleGrammarStatus(info.gram, FALSE)
  /\ at' = at + 1 /\ UNCHANGED <<callers, pc, item, target>>

\* Mutant: universals stay as they are.
StillEnabledNever(info) == FALSE
StillEnabled(info) == info.enabled

\* The universals, of which only those that are enabled are deactivated.
DisableUniversals ==
  /\ pc = "disable" /\ at > Len(gm.grammars)
  /\ \/ \E i \in DOMAIN gm.universals :
          /\ StillEnabled(gm.universals[i])
          /\ gm' = [gm EXCEPT !.universals[i].enabled = FALSE]
          /\ HandleGrammarStatus(gm.universals[i].gram, FALSE)
          /\ UNCHANGED <<pc, at>>
     \/ /\ \A i \in DOMAIN gm.universals : ~StillEnabled(gm.universals[i])
        /\ pc' = IF item.kind \in {"field", "record", "transfer"} THEN "enable"
                 ELSE IF item.kind = "subdialog" THEN "call" ELSE "idle"
        /\ at' = Len(gm.grammars)
        /\ UNCHANGED <<gm, main>>
  /\ UNCHANGED <<callers, item, target>>

\* EnableGrammars, from the last grammar to the first.
EnableGrammar ==
  /\ pc = "enable" /\ at > 0
  /\ LET info == gm.grammars[at]
     IN  \/ ~Enables(info) /\ UNCHANGED <<gm, main>>
         \/ /\ Enables(info) /\ ~info.dynamic
            /\ gm' = [gm EXCEPT !.grammars[at].enabled = TRUE]
            /\ HandleGrammarStatus(info.gram, TRUE)
         \/ /\ Enables(info) /\ info.dynamic
            /\ \E id \in FreshIds :
                 /\ gm' = [gm EXCEPT !.grammars[at].enabled = TRUE,
                                     !.grammars[at].gram = id]
                 /\ HandleGrammarAndActivate(id, info.text)
  /\ at' = at - 1 /\ UNCHANGED <<callers, pc, item, target>>

\* A dynamic grammar cannot be evaluated or loaded: an event, with some
\* grammars enabled.
EnableFails ==
  /\ pc = "enable" /\ at > 0
  /\ gm.grammars[at].dynamic /\ Enables(gm.grammars[at])
  /\ pc' = "idle" /\ UNCHANGED <<gm, callers, at, item, target, main>>

EnableUniversal ==
  /\ pc = "enable" /\ at = 0 /\ item.universals
  /\ \E i \in DOMAIN gm.universals :
       /\ ~gm.universals[i].enabled
       /\ gm' = [gm EXCEPT !.universals[i].enabled = TRUE]
       /\ HandleGrammarStatus(gm.universals[i].gram, TRUE)
  /\ UNCHANGED <<callers, loop>>

\* With nothing enabled a field is an error; a recording or a transfer goes
\* ahead, with the signals main has.
Enabled ==
  /\ pc = "enable" /\ at = 0
  /\ item.universals => \A i \in DOMAIN gm.universals : gm.universals[i].enabled
  /\ LET enabled == \/ \E i \in DOMAIN gm.grammars : gm.grammars[i].enabled
                    \/ \E i \in DOMAIN gm.universals : gm.universals[i].enabled
     IN  pc' = IF enabled THEN "listen"
               ELSE IF item.kind = "field" THEN "idle" ELSE "deaf"
  /\ UNCHANGED <<gm, callers, at, item, target, main>>

\* What is recognised or recorded is of no matter here: the item is left, its
\* grammars are still enabled.
Recognize ==
  /\ pc \in {"listen", "deaf"} /\ pc' = "idle"
  /\ UNCHANGED <<gm, callers, at, item, target, main>>

Deeper == Len(callers) + 1 < MaxDepth

\* The document of a subdialog is loaded, or not.
Subdialog ==
  /\ pc = "call"
  /\ \/ pc' = "idle" /\ UNCHANGED <<gm, callers, target>>
     \/ /\ Deeper
        /\ callers' = <<gm>> \o callers /\ gm' = NoGm
        /\ \E d \in Docs : target' = d
        /\ pc' = "release"
  /\ at' = 0 /\ item' = NoItem /\ UNCHANGED main

\* Main starts a command that keys may interrupt.
ActiveSignals ==
  /\ pc # "done" /\ gram_signals = None
  /\ gram_signals' = Texts(Active)
  /\ UNCHANGED <<gm, callers, loop, gram_ids, gram_texts>>

Next ==
  \/ InstallDocument \/ PopExecutionContext
  \/ ReleaseGrammar \/ ReleaseUniversal \/ Released
  \/ LoadGrammar \/ LoadFails \/ Loaded \/ Ending
  \/ Collect \/ DisableGrammar \/ DisableUniversals
  \/ EnableGrammar \/ EnableFails \/ EnableUniversal \/ Enabled
  \/ Recognize \/ Subdialog \/ ActiveSignals

Spec == Init /\ [][Next]_vars

-----------------------------------------------------------------------------
Contexts  == {gm} \cup ToSet(callers)
Infos(c)  == ToSet(c.grammars) \cup ToSet(c.universals)
Held(c)   == {info.gram : info \in Infos(c)} \ {None}

\* What main listens to is what the page asks for at this item: the grammars
\* of the field and, unless it is modal, of its form, of the document and of
\* its root; nothing of another item, another document or a waiting context,
\* whatever was enabled, failed or was called before.
ListensForItem ==
  pc = "listen" =>
    LET mine == {info \in ToSet(gm.grammars) :
                   info.doc = gm.doc /\ info.dialog = item.dialog
                     /\ \/ item.field # "" /\ info.field = item.field
                        \/ ~item.modal /\ info.scope = "dialog"}
        wide == {info \in ToSet(gm.grammars) :
                   info.scope = "document" /\ ~item.modal}
        always == IF item.universals THEN ToSet(gm.universals) ELSE {}
    IN  Active = {info.gram : info \in mine \cup wide \cup always}

\* The grammar main names for a match is one that the context that runs has
\* enabled: FindMatchedElement finds it.
MatchFound ==
  pc = "listen" =>
    \A id \in Active :
      /\ <<gram_ids[id].text, id>> \in gram_texts
      /\ \E info \in Infos(gm) : info.gram = id /\ info.enabled

\* Every grammar main keeps is owned by one info of one context, and every
\* info that names a grammar names one that main keeps: none is lost, freed
\* twice, or freed and then used under the address of another.
OneOwner ==
  pc # "done" =>
    /\ UNION {Held(c) : c \in Contexts} = DOMAIN gram_ids
    /\ \A i \in DOMAIN callers : Held(gm) \cap Held(callers[i]) = {}
    /\ \A info, other \in Infos(gm) :
         info.gram = other.gram /\ info.gram # None => info = other

\* Whenever main starts a command, the signals it has cached lack no grammar that
\* is active, and those they have too many are of universals only, which are
\* freed while active: by them even a recording that enables nothing may be
\* interrupted.  What listens for something has exactly its own.
SignalsFresh ==
  gram_signals # None =>
    /\ Texts(Active) \subseteq gram_signals
    /\ gram_signals \subseteq Texts(Active) \cup ToSet(Links)
    /\ pc = "listen" => gram_signals = Texts(Active)
=============================================================================
