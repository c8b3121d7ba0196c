----------------------------- MODULE FormSession -----------------------------
(***************************************************************************)
(* The page around the form tree: the Send button and sendForm, the       *)
(* $.ajax requests in flight and their success and error callbacks        *)
(* (sendRequest, handleRequestError), the Reset button and the mode      *)
(* switch (resetForm), and the form panel's visibility (hideForm,         *)
(* toggleForm).  The tree of FormTree is the form the user edits; a send  *)
(* in form mode extracts it with FromForm(Root).                          *)
(*                                                                         *)
(* Everything runs on the browser's event loop, so each handler and each *)
(* callback is one atomic step; the interleaving is the order of user    *)
(* events and of the answers to requests, which the server and network   *)
(* deliver in any order.  A Send button is identified by the resetForm   *)
(* that created it: button i is the one of the i-th build of the panel.  *)
(***************************************************************************)
EXTENDS FormTree

CONSTANTS ReplyKinds,   \* how an answer can arrive, see Deliver
          MaxButtons,   \* bound: panels built (initial one included)
          MaxRequests,  \* bound: requests sent
          None          \* model value: send_button before the first send

ASSUME FormSessionAssumption ==
    /\ ReplyKinds \subseteq {"success", "error_json", "error_malformed", "error_text"}
    /\ MaxButtons \in Nat \ {0} /\ MaxRequests \in Nat

VARIABLES
    mode,        \* g_activeMode: "form" or "text"
    cur,         \* the Send button in the panel now
    buttons,     \* button -> enabled (buttons of earlier panels are detached)
    sendButton,  \* the global send_button: the last button clicked
    pending,     \* requests in flight: [id, btn, nonEmpty]
    sent,        \* requests sent so far; request ids are 1..sent
    shown,       \* the request whose response #form-response shows, or None
    inputError,  \* the last sendForm found input errors
    visible,     \* #form-panel is shown
    expanderShown \* #form-expander, which toggles the panel, is shown

sessionVars == <<mode, cur, buttons, sendButton, pending, sent, shown,
                 inputError, visible, expanderShown>>
allVars == <<vars, sessionVars>>

\* requestType.field is set: the request type has fields
HasFields == Messages[RootType] # <<>>

\* resetForm in mode m runs to its end (lines 1042-1052): in form mode
\* buildMessageForm (line 1003) may throw first, leaving the panel with the
\* part of the tree built so far and without Send or Reset button
PanelBuilt(m) == m = "text" \/ RootBuild.ok

\* the panel now has a Send button, and it is enabled
SendEnabled == cur \in DOMAIN buttons /\ buttons[cur]

(***************************************************************************)
(* createForm (lines 1133-1180): the reflection response has arrived, the *)
(* mode is the form mode and resetForm built the first panel.  Button 1   *)
(* exists only if that build ran to its end.                              *)
(***************************************************************************)
SessionInit ==
    /\ Init
    /\ mode = "form"
    /\ cur = 1
    /\ buttons = [b \in IF PanelBuilt("form") THEN {1} ELSE {} |-> TRUE]
    /\ sendButton = None
    /\ pending = {}
    /\ sent = 0
    /\ shown = None
    /\ inputError = FALSE
    /\ visible = TRUE
    /\ expanderShown = (~PanelBuilt("form") \/ HasFields)

\* a user event on the tree of the visible form (FormTree's actions)
TreeStep ==
    /\ mode = "form" /\ visible
    /\ \/ \E n \in Nodes : ClickCheckbox(n) \/ Expand(n) \/ AddRepeatedFieldItem(n)
                           \/ DelRepeatedFieldItem(n)
       \/ \E n \in Nodes \ {Root} : \E v \in InputValues(forms[n]) : EditInput(n, v)
    /\ UNCHANGED sessionVars

\* sendRequest (lines 377-393): the request goes out; its callbacks see the
\* request text (captured) and the global send_button (not captured)
SendRequest(nonEmpty) ==
    /\ pending' = pending \cup {[id |-> sent + 1, btn |-> cur, nonEmpty |-> nonEmpty]}
    /\ sent' = sent + 1

(***************************************************************************)
(* The Send button: sendForm (lines 908-963).  It records the clicked     *)
(* button in the global send_button, disables it and clears the error and *)
(* response areas.  In form mode it extracts the tree: an exception from  *)
(* fromMessageForm ends the handler; with input errors it shows them and  *)
(* then iterates the undefined `value` (line 923), a ReferenceError, so   *)
(* focus() and the re-enabling at line 929 never run; otherwise $.toJSON  *)
(* of the message (never empty) is sent.  In text mode the editor's text, *)
(* empty or not, is sent.                                                  *)
(***************************************************************************)
SendForm ==
    /\ visible /\ SendEnabled /\ sent < MaxRequests
    /\ sendButton' = cur
    /\ buttons' = [buttons EXCEPT ![cur] = FALSE]
    /\ shown' = None
    /\ IF mode = "form"
       THEN LET x == FromForm(Root) IN
            /\ inputError' = (~x.thrown /\ x.errs # <<>>)
            /\ IF x.thrown \/ x.errs # <<>> THEN UNCHANGED <<pending, sent>>
               ELSE SendRequest(TRUE)
       ELSE /\ inputError' = FALSE
            /\ \E nonEmpty \in BOOLEAN : SendRequest(nonEmpty)
    /\ UNCHANGED <<vars, mode, cur, visible, expanderShown>>

\* hideForm (lines 1106-1111)
HideForm == visible' = FALSE

\* mutant of OnSuccess: send_button is not re-enabled
OnSuccessNoReenable(r) ==
    /\ UNCHANGED buttons
    /\ shown' = r.id
    /\ IF r.nonEmpty THEN HideForm ELSE UNCHANGED visible

\* the success callback of sendForm (lines 956-962): re-enable send_button,
\* whichever button that is now, show the response, hide the form if the
\* request was not empty
OnSuccess(r) ==
    /\ buttons' = [buttons EXCEPT ![sendButton] = TRUE]
    /\ shown' = r.id
    /\ IF r.nonEmpty THEN HideForm ELSE UNCHANGED visible

\* handleRequestError (lines 350-367): show the error and re-enable
\* send_button, unless the body labelled application/json is not JSON and
\* $.parseJSON (line 353) throws first
HandleRequestError(kind) ==
    /\ buttons' = IF kind = "error_malformed" THEN buttons
                  ELSE [buttons EXCEPT ![sendButton] = TRUE]
    /\ UNCHANGED <<shown, visible>>

(***************************************************************************)
(* The answer to request r arrives, in any order with the others, and the *)
(* event loop runs its callback.                                           *)
(***************************************************************************)
Deliver(r, kind) ==
    /\ r \in pending
    /\ pending' = pending \ {r}
    /\ IF kind = "success" THEN OnSuccess(r) ELSE HandleRequestError(kind)
    /\ UNCHANGED <<vars, mode, cur, sendButton, sent, inputError, expanderShown>>

(***************************************************************************)
(* resetForm (lines 971-1053) in mode m: the panel is emptied and built    *)
(* again with a new, enabled Send button; the tree is rebuilt (in text     *)
(* mode the tree is not used, and is left as a fresh build).  The error   *)
(* and response areas and the global send_button are left alone.  In form *)
(* mode a request type without fields gets no Reset button and the form   *)
(* expander is hidden (line 1051); nothing shows it again.  When the root *)
(* build throws, the panel keeps what was built and gets neither button.  *)
(***************************************************************************)
ResetPanel(m) ==
    /\ cur < MaxButtons
    /\ forms' = RootBuild.els
    /\ cur' = cur + 1
    /\ buttons' = IF PanelBuilt(m) THEN buttons @@ (cur + 1 :> TRUE) ELSE buttons
    /\ mode' = m
    /\ expanderShown' = (expanderShown /\ (~PanelBuilt(m) \/ m = "text" \/ HasFields))
    /\ UNCHANGED <<spelling, eachUndefined, sendButton, pending, sent, shown,
                   inputError, visible>>

\* the Reset button of the visible panel (line 1047); it exists when the
\* panel was built to its end, in text mode and, in form mode, when the
\* request type has fields
ResetButton ==
    /\ visible
    /\ cur \in DOMAIN buttons
    /\ mode = "text" \/ HasFields
    /\ ResetPanel(mode)

\* a click on the other mode in the top bar (lines 1168-1176)
SwitchMode == \E m \in {"form", "text"} \ {mode} : ResetPanel(m)

\* a click on the form expander: toggleForm (lines 1118-1127); the
\* expander's text says whether the panel is shown
ToggleForm ==
    /\ expanderShown
    /\ IF visible THEN HideForm ELSE visible' = TRUE
    /\ UNCHANGED <<vars, mode, cur, buttons, sendButton, pending, sent, shown,
                   inputError, expanderShown>>

SessionNext ==
    \/ TreeStep
    \/ SendForm
    \/ \E r \in pending : \E kind \in ReplyKinds : Deliver(r, kind)
    \/ ResetButton
    \/ SwitchMode
    \/ ToggleForm

(***************************************************************************)
(* The user's events need not happen.  An answer does: $.ajax without a    *)
(* timeout still ends in success or error once the browser gives up on    *)
(* the connection, and the event loop then runs the callback.             *)
(***************************************************************************)
Fairness == WF_allVars(\E r \in pending : \E kind \in ReplyKinds : Deliver(r, kind))

SessionSpec == SessionInit /\ [][SessionNext]_allVars /\ Fairness

(***************************************************************************)
(* When the Send button in the panel is disabled and a request is in      *)
(* flight, the button is eventually enabled again (or replaced by a       *)
(* reset): the callbacks of sendForm and handleRequestError re-enable the *)
(* global send_button, which is this button because it is the last one    *)
(* clicked.                                                                *)
(***************************************************************************)
SendButtonReenabled ==
    \A b \in 1..MaxButtons :
        (b = cur /\ b \in DOMAIN buttons /\ ~buttons[b] /\ pending # {})
            ~> (b # cur \/ buttons[b])

(***************************************************************************)
(* Spec 6 (transport): on input errors nothing is sent, each failure is   *)
(* shown tagged with its field's dotted full path, and the first failing  *)
(* field is focused, after which line 929 re-enables the button.  error() *)
(* (line 921) shows the names getFieldFullname gives, which repeat the    *)
(* field of an item; the ReferenceError at line 923 then stops sendForm,  *)
(* so the Send button stays disabled with nothing in flight.              *)
(***************************************************************************)
InputErrorsReported ==
    [][SendForm /\ inputError' =>
          /\ buttons'[cur]
          /\ LET x == FromForm(Root) IN
             \A i \in DOMAIN x.errs : x.errs[i].name = FieldPath(x.errs[i].node)]_allVars

(***************************************************************************)
(* An answer to a request that is no longer the latest one sent leaves    *)
(* the current panel alone: its Send button, the response area and the    *)
(* panel's visibility.  The callbacks of sendForm and handleRequestError  *)
(* act on the global send_button and on #form-response whichever request  *)
(* they answer: after a reset and a new send, the old answer enables the  *)
(* new button while the new request is in flight (a double submit), shows *)
(* itself as the response to the new request and hides the new form.     *)
(***************************************************************************)
StaleAnswerIgnored ==
    [][\A r \in pending, kind \in ReplyKinds :
          Deliver(r, kind) /\ r.id < sent => UNCHANGED <<SendEnabled, shown, visible>>]_allVars

(***************************************************************************)
(* hideForm: "the information in the form is preserved"; the form expander *)
(* brings the hidden panel back.  When the request type has no fields the  *)
(* expander was hidden by resetForm, and a send whose answer arrives then  *)
(* hides the panel for good: no later reset or mode switch shows either.   *)
(***************************************************************************)
PanelCanBeShown == ~visible => expanderShown
=============================================================================
