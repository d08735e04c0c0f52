------------------------------ MODULE EditForm ------------------------------
(***************************************************************************)
(* A form of the dashboard: what is saved, the answer the page has of it,  *)
(* the draft an officer types, and the requests that carry it.  Forms      *)
(* differ in a few habits only, and each is written down as a record of    *)
(* them (DashboardForms):                                                  *)
(*                                                                         *)
(*   fill   where the draft comes from: "blank", filled once when the page *)
(*          is "mounted" or the form "opened", "followed" when the answer  *)
(*          changes, "celled" likewise but field by field, or "shown": no  *)
(*          draft, choosing sends;                                         *)
(*   sends  a new "row", one "keyed" by what was typed, "all" of the       *)
(*          draft, what was "typed", what is "changed" against the answer, *)
(*          or the whole answer with what was typed "merged" in;           *)
(*   bars   when it can be sent again: it is always "free", or not while   *)
(*          "sending", or not before "reading" what came of it;            *)
(*   gives  what sending does to the draft: "keeps", "empties", "closes";  *)
(*   then   what a success does: the same, or "clears" what it sent;       *)
(*   locks  whether a form can not be cancelled while it is out.           *)
(*                                                                         *)
(* A form has two fields, and an edit is a number of its own, so that it   *)
(* can be told where a value came from.  How an answer comes to be asked   *)
(* for is QueryCache's subject; here it is what is saved at some moment.   *)
(***************************************************************************)
EXTENDS Naturals, FiniteSets

CONSTANTS
  Forms,      \* names of forms
  Habits,     \* Forms -> their habits
  MaxEdits,   \* bound: edits of anyone
  MaxSends    \* bound: requests out at a time

ASSUME EditFormAssumption == MaxEdits \in Nat /\ MaxSends \in Nat \ {0}

VARIABLES
  form,       \* the form of this behaviour
  patient,    \* whether its officer touches it only when nothing of it is out
  saved,      \* what is saved, by field
  rows,       \* rows added, by the edit that completed them: none, one, or more
  answer,     \* what the page has of it
  open,       \* whether the form is on the page
  draft,
  unsent,     \* edits the officer has not seen accepted, nor given up
  sends,      \* requests out
  asked,      \* a success waits for the answer to be asked for again
  edits,      \* edits made
  last        \* the officer's last word on a field, if nothing is to be said against it

vars == <<form, patient, saved, rows, answer, open, draft, unsent, sends, asked, edits, last>>

Fields == {"one", "other"}
Nothing == [f \in Fields |-> 0]
Fresh == edits + 1

habit == Habits[form]

\* The fields of an edit that is at hand.
Typed == {f \in Fields : unsent[f] # 0 /\ draft[f] = unsent[f]}

Init ==
  /\ form \in Forms /\ patient \in BOOLEAN
  /\ saved = Nothing /\ rows = [e \in 1 .. MaxEdits |-> 0]
  /\ answer = Nothing /\ open = (habit.fill # "opened") /\ draft = Nothing /\ unsent = Nothing
  /\ sends = {} /\ asked = FALSE /\ edits = 0 /\ last = Nothing

-----------------------------------------------------------------------------
(* The officer.                                                            *)

\* What a form that adds something is filled with is nothing.
Adds == habit.sends \in {"row", "keyed"}
Filled(values) == IF Adds THEN Nothing ELSE values

MayTouch == patient => (sends = {} /\ ~ asked)

Open ==
  /\ MayTouch /\ habit.fill = "opened" /\ ~ open
  /\ open' = TRUE /\ draft' = Filled(answer) /\ unsent' = Nothing
  /\ UNCHANGED <<form, patient, saved, rows, answer, sends, asked, edits, last>>

Cancel ==
  /\ MayTouch /\ habit.fill = "opened" /\ open /\ ~ (habit.locks /\ sends # {})
  /\ open' = FALSE /\ draft' = Nothing /\ unsent' = Nothing
  /\ UNCHANGED <<form, patient, saved, rows, answer, sends, asked, edits, last>>

Type(f) ==
  /\ MayTouch /\ open /\ habit.fill # "shown" /\ edits < MaxEdits
  /\ edits' = Fresh
  /\ draft' = [draft EXCEPT ![f] = Fresh] /\ unsent' = [unsent EXCEPT ![f] = Fresh]
  /\ UNCHANGED <<form, patient, saved, rows, answer, open, sends, asked, last>>

Barred == (habit.bars # "free" /\ sends # {}) \/ asked

\* The fields that a request with the values `val` writes.
Writes(val, own) ==
  CASE habit.sends \in {"all", "merged"} -> Fields
    [] habit.sends = "changed" -> {f \in Fields : val[f] # answer[f]}
    [] habit.sends = "typed" -> own
    [] OTHER -> {}

\* A request with the values `val`, of which the officer chose those of `own`.
Send(val, own, edit) ==
  /\ ~ Barred /\ Cardinality(sends) < MaxSends
  /\ sends' = sends \cup
       {[val |-> val, own |-> own, fields |-> Writes(val, own), edit |-> edit, was |-> "out"]}
  /\ last' = IF Adds THEN last ELSE [f \in Fields |-> IF f \in own THEN val[f] ELSE last[f]]

Press ==
  /\ MayTouch /\ open /\ Typed # {}
  /\ LET kept == IF habit.sends = "merged" THEN answer ELSE draft
         edit == CHOOSE e \in {draft[f] : f \in Typed} : \A f \in Typed : draft[f] <= e
     IN Send([f \in Fields |-> IF f \in Typed THEN draft[f] ELSE kept[f]], Typed, edit)
  /\ draft' = (IF habit.gives = "keeps" THEN draft ELSE Nothing)
  /\ open' = (habit.gives # "closes")
  /\ UNCHANGED <<form, patient, saved, rows, answer, unsent, asked, edits>>

Choose(f) ==
  /\ MayTouch /\ habit.fill = "shown" /\ edits < MaxEdits
  /\ edits' = Fresh /\ Send([answer EXCEPT ![f] = Fresh], {f}, Fresh)
  /\ UNCHANGED <<form, patient, saved, rows, answer, open, draft, unsent, asked>>

-----------------------------------------------------------------------------
(* The server.                                                             *)

Written(s) == [f \in Fields |-> IF f \in s.fields THEN s.val[f] ELSE saved[f]]

Added(s) ==
  CASE habit.sends = "row" -> [rows EXCEPT ![s.edit] = IF @ = 0 THEN 1 ELSE 2]
    [] habit.sends = "keyed" -> [rows EXCEPT ![s.edit] = 1]
    [] OTHER -> rows

Lands(s) ==
  /\ s.was = "out" /\ sends' = (sends \ {s}) \cup {[s EXCEPT !.was = "written"]}
  /\ saved' = Written(s) /\ rows' = Added(s)
  /\ UNCHANGED <<form, patient, answer, open, draft, unsent, asked, edits, last>>

Without(s, v) == [f \in Fields |-> IF f \in s.own /\ v[f] = s.val[f] THEN 0 ELSE v[f]]

Succeeds(s) ==
  /\ s.was = "written" /\ sends' = sends \ {s} /\ unsent' = Without(s, unsent)
  /\ draft' = CASE habit.then = "keeps" -> draft
                [] habit.then = "clears" -> [f \in Fields |-> IF f \in s.own THEN 0 ELSE draft[f]]
                [] OTHER -> Nothing
  /\ open' = (open /\ habit.then # "closes") /\ asked' = (habit.bars = "reading")
  /\ UNCHANGED <<form, patient, saved, rows, answer, edits, last>>

\* Refused, or written and the answer lost: the officer is told that it failed.
Fails(s) ==
  /\ sends' = sends \ {s} /\ last' = Without(s, last)
  /\ UNCHANGED <<form, patient, saved, rows, answer, open, draft, unsent, asked, edits>>

\* Another officer, or another page, saves a field.
OthersSave(f) ==
  /\ edits < MaxEdits /\ edits' = Fresh
  /\ saved' = [saved EXCEPT ![f] = Fresh] /\ last' = [last EXCEPT ![f] = 0]
  /\ UNCHANGED <<form, patient, rows, answer, open, draft, unsent, sends, asked>>

\* The fields whose drafts a new answer replaces.
Refilled ==
  CASE habit.fill = "followed" -> IF saved # answer THEN Fields ELSE {}
    [] habit.fill = "celled" -> {f \in Fields : saved[f] # answer[f]}
    [] OTHER -> {}

Refetch ==
  /\ saved # answer \/ asked
  /\ answer' = saved /\ asked' = FALSE
  /\ draft' = [f \in Fields |-> IF f \in Refilled THEN Filled(saved)[f] ELSE draft[f]]
  /\ UNCHANGED <<form, patient, saved, rows, open, unsent, sends, edits, last>>

Next ==
  \/ Open \/ Cancel \/ Press \/ Refetch
  \/ \E f \in Fields : Type(f) \/ Choose(f) \/ OthersSave(f)
  \/ \E s \in sends : Lands(s) \/ Succeeds(s) \/ Fails(s)

Spec == Init /\ [][Next]_vars

-----------------------------------------------------------------------------

Values == [Fields -> 0 .. MaxEdits]

TypeOK ==
  /\ form \in Forms /\ patient \in BOOLEAN
  /\ saved \in Values /\ answer \in Values /\ draft \in Values /\ unsent \in Values
  /\ last \in Values /\ rows \in [1 .. MaxEdits -> 0 .. 2]
  /\ open \in BOOLEAN /\ asked \in BOOLEAN /\ edits \in 0 .. MaxEdits
  /\ sends \subseteq [val : Values, own : SUBSET Fields, fields : SUBSET Fields,
                     edit : 1 .. MaxEdits, was : {"out", "written"}]
  /\ Cardinality(sends) <= IF habit.bars = "free" THEN MaxSends ELSE 1
  /\ ~ open => habit.fill = "opened" /\ draft = Nothing

\* When nothing is out, a field holds what the officer saved last, unless a
\* request failed or somebody else saved the field since.
LastWordStands == sends = {} => \A f \in Fields : last[f] # 0 => saved[f] = last[f]

\* What was typed is in the form or on its way until it has been accepted or
\* the officer gives it up: neither a new answer, nor a success of something
\* else, nor a refusal takes it away.
TypingIsThere ==
  \A f \in Fields : unsent[f] # 0 =>
    (open /\ draft[f] = unsent[f]) \/ \E s \in sends : f \in s.own /\ s.val[f] = unsent[f]

\* Sending again what was not answered adds no second row.
AddedOnce == \A e \in 1 .. MaxEdits : rows[e] <= 1

\* Saving changes nothing but what the officer changed.
OnlyOwnFieldsChange ==
  \A f \in Fields : saved'[f] # saved[f] =>
    edits' # edits \/ \E s \in sends : f \in s.own /\ saved'[f] = s.val[f]
=============================================================================
