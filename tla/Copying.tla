------------------------------- MODULE Copying -------------------------------
(***************************************************************************)
(* Copying a text to the clipboard: the set-up prompt of AgentDialog.jsx    *)
(* and the query of a dataset's page (App.jsx, DatasetProductDetail), whose *)
(* text changes under the copy; and the console's CopyButton with the       *)
(* messages of its ToastProvider (frontend/src/components/ui.tsx).          *)
(*                                                                         *)
(* The text of a panel is what is chosen: an agent, a dataset, a language.  *)
(* The effect that a new text has comes after the page was drawn with it.   *)
(***************************************************************************)
EXTENDS Naturals, FiniteSets

CONSTANTS
    Texts,
    MaxCopies,    \* bound: copies, or messages
    MaxChanges,   \* bound: generations of a panel
    MaxToasts,    \* messages on the page: the last three and the new one
    NoText

CopyAssumption == MaxCopies \in Nat /\ MaxChanges \in Nat /\ MaxToasts \in Nat \ {0}

Closed == [open |-> FALSE]

VARIABLES
    app,          \* the site, which has panels, or the console, which has messages
    panel,        \* the dialog or page: its text, copyState, generation, effect still to come
    writes,       \* writes to the clipboard under way
    copies,       \* copies so far
    said,         \* history: the text of the write the panel last reported
    toasts,       \* the messages, numbered as they come, and those whose timer runs
    timers

vars == <<app, panel, writes, copies, said, toasts, timers>>

Init ==
    /\ app \in {"site", "console"}
    /\ panel = Closed /\ writes = {} /\ copies = 0 /\ said = NoText
    /\ toasts = {} /\ timers = {}

Open(text) ==
    /\ app = "site" /\ panel = Closed
    /\ panel' = [open |-> TRUE, text |-> text, state |-> "idle", generation |-> 0, drawn |-> TRUE]
    /\ UNCHANGED <<app, writes, copies, said, toasts, timers>>

(* Another agent, dataset or language: the page is drawn, then the effect   *)
(* makes an end of the copies under way.                                    *)
Choose(text) ==
    /\ panel.open /\ panel.text # text /\ panel.drawn /\ panel.generation < MaxChanges
    /\ panel' = [panel EXCEPT !.text = text, !.drawn = FALSE]
    /\ UNCHANGED <<app, writes, copies, said, toasts, timers>>

Effect ==
    /\ panel.open /\ ~panel.drawn
    /\ panel' = [panel EXCEPT !.state = "idle", !.generation = @ + 1, !.drawn = TRUE]
    /\ UNCHANGED <<app, writes, copies, said, toasts, timers>>

(* Closed, or left: the panel's own generation ends with it. *)
Close ==
    /\ panel.open
    /\ panel' = Closed
    /\ writes' = {[w EXCEPT !.mine = FALSE] : w \in writes}
    /\ UNCHANGED <<app, copies, said, toasts, timers>>

(* copyPrompt, copyQueryExample: the button is disabled while it waits. *)
Copy ==
    /\ panel.open /\ panel.drawn /\ panel.state # "pending" /\ copies < MaxCopies
    /\ panel' = [panel EXCEPT !.state = "pending", !.generation = @ + 1]
    /\ writes' = writes \cup {[mine |-> TRUE, generation |-> panel.generation + 1,
                               text |-> panel.text, number |-> copies]}
    /\ copies' = copies + 1
    /\ UNCHANGED <<app, said, toasts, timers>>

(* Fault: the panel is told whatever it shows by then. *)
SettleFault(w, ok) ==
    /\ writes' = writes \ {w}
    /\ IF w.mine
       THEN /\ panel' = [panel EXCEPT !.state = IF ok THEN "copied" ELSE "failed"]
            /\ said' = IF ok THEN w.text ELSE said
       ELSE UNCHANGED <<panel, said>>
    /\ UNCHANGED <<app, copies, toasts, timers>>

(* The clipboard took the text, or refused it. *)
Settle(w, ok) ==
    /\ writes' = writes \ {w}
    /\ IF w.mine /\ w.generation = panel.generation
       THEN /\ panel' = [panel EXCEPT !.state = IF ok THEN "copied" ELSE "failed"]
            /\ said' = IF ok THEN w.text ELSE said
       ELSE UNCHANGED <<panel, said>>
    /\ UNCHANGED <<app, copies, toasts, timers>>

Oldest == CHOOSE t \in toasts : \A other \in toasts : t <= other

(* CopyButton, after a refusal: a message, which pushes out the oldest.     *)
Toast ==
    /\ app = "console" /\ copies < MaxCopies
    /\ copies' = copies + 1
    /\ toasts' = (IF Cardinality(toasts) < MaxToasts THEN toasts ELSE toasts \ {Oldest})
                    \cup {copies}
    /\ timers' = timers \cup {copies}
    /\ UNCHANGED <<app, panel, writes, said>>

(* Fault: the timer removes the oldest. *)
ExpireFault(id) ==
    /\ timers' = timers \ {id}
    /\ toasts' = IF toasts = {} THEN {} ELSE toasts \ {Oldest}
    /\ UNCHANGED <<app, panel, writes, copies, said>>

Expire(id) ==
    /\ timers' = timers \ {id}
    /\ toasts' = toasts \ {id}
    /\ UNCHANGED <<app, panel, writes, copies, said>>

Rest == UNCHANGED vars

Next ==
    \/ \E text \in Texts : Open(text) \/ Choose(text)
    \/ Effect \/ Close \/ Copy \/ Toast \/ Rest
    \/ \E w \in writes, ok \in BOOLEAN : Settle(w, ok)
    \/ \E id \in timers : (\A other \in timers : id <= other) /\ Expire(id)

Spec == Init /\ [][Next]_vars

-----------------------------------------------------------------------------
(* Properties *)

(* "Copied" is said of the text that is shown, whatever was chosen while    *)
(* the clipboard was busy, and of no other panel (AgentDialog.jsx:21-30,    *)
(* App.jsx:377, 393-400).                                                   *)
CopiedIsWhatIsShown ==
    panel.open /\ panel.drawn /\ panel.state = "copied" => said = panel.text

(* Every message on the page has a timer of its own that is going to remove *)
(* it, and none is removed before, unless newer ones pushed it out          *)
(* (ui.tsx:515-519).                                                        *)
MessagesEnd ==
    /\ toasts \subseteq timers /\ Cardinality(toasts) <= MaxToasts
    /\ \A id \in timers \ toasts :
          Cardinality({newer \in 0..copies : newer > id /\ newer < copies}) >= MaxToasts
=============================================================================
