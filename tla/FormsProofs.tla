------------------------------ MODULE FormsProofs ------------------------------
(***************************************************************************)
(* Proofs about the forms of the dashboard (MCForms), for any number of    *)
(* edits and of requests.  A form keeps a promise because of its habits,   *)
(* so the names matter in one place only: where the habits of every form   *)
(* are looked up.                                                          *)
(***************************************************************************)
EXTENDS MCForms, FiniteSetTheorems, TLAPS

-----------------------------------------------------------------------------
(* The invariant, with the names of the forms only where they bind habits. *)

Request ==
  [val : Values, own : SUBSET Fields, fields : SUBSET Fields,
   edit : 1 .. MaxEdits, was : {"out", "written"}]

\* A form that is barred, or whose officer waits, has one request out.
AtMostOne == patient \/ habit.bars # "free" => \A s, t \in sends : s = t

NoDraftIfShown == habit.fill = "shown" => draft = Nothing /\ unsent = Nothing

Base == TypeOK /\ IsFiniteSet(sends) /\ AtMostOne /\ NoDraftIfShown

\* What is written was chosen.
WritesItsOwn == form \in SavesUntouched \/ \A s \in sends : s.fields \subseteq s.own

\* What is at hand was completed after everything that is out or added.
RowsComeOnce ==
  /\ \A f \in Fields : draft[f] <= edits
  /\ \A f \in Fields, s \in sends : draft[f] # 0 => s.edit < draft[f]
  /\ \A f \in Fields, e \in 1 .. MaxEdits : draft[f] # 0 /\ rows[e] # 0 => e < draft[f]
  /\ \A s \in sends : s.edit <= edits /\ (s.was = "out" => rows[s.edit] = 0)
  /\ \A e \in 1 .. MaxEdits : rows[e] # 0 => e <= edits

AddInv == form \in AddsAgain \/ (AddedOnce /\ (habit.sends = "row" => RowsComeOnce))

\* What was typed is in the form, and when the officer waits also on its way.
DraftHolds ==
  /\ \A f \in Fields : unsent[f] # 0 => open /\ draft[f] = unsent[f]
  /\ patient => \A s \in sends, f \in Fields : unsent[f] # 0 => f \in s.own /\ s.val[f] = unsent[f]

TypingInv ==
  \/ form \in ForgetsTyping \/ (~ patient /\ form \in ForgetsHaste)
  \/ habit.fill = "shown" \/ DraftHolds

Settled(f) == \A s \in sends : f \in s.own => s.was = "written"
Untouched(f) == \A s \in sends : f \notin s.own

\* Requests carry the officer's last words; so does a draft of which all is
\* sent, and, once it has been read again, the answer it is filled from.
CarriesLastWords ==
  /\ \A f \in Fields : last[f] # 0 /\ Settled(f) => saved[f] = last[f]
  /\ \A s \in sends : s.own \subseteq s.fields /\ \A f \in s.fields : last[f] # 0 => s.val[f] = last[f]
  /\ habit.sends = "all" =>
       /\ \A f \in Fields : open /\ last[f] # 0 => draft[f] = last[f] \/ f \in Typed
       /\ habit.fill = "opened" =>
            \A f \in Fields : ~ asked /\ last[f] # 0 /\ Untouched(f) => answer[f] = last[f]

LastInv ==
  \/ form \in RevertsItself \/ (~ patient /\ form \in RevertsInHaste)
  \/ IF Adds THEN last = Nothing ELSE CarriesLastWords

FormInv == Base /\ WritesItsOwn /\ AddInv /\ TypingInv /\ LastInv

-----------------------------------------------------------------------------
(* The habits of the forms.                                                *)

HabitKinds(h) ==
  /\ h.fill \in {"blank", "mounted", "opened", "followed", "celled", "shown"}
  /\ h.sends \in {"row", "keyed", "all", "typed", "changed", "merged"}
  /\ h.bars \in {"free", "sending", "reading"}
  /\ h.gives \in {"keeps", "empties", "closes"}
  /\ h.then \in {"keeps", "empties", "closes", "clears"}
  /\ h.gives = "closes" \/ h.then = "closes" => h.fill = "opened"

SendsItsOwn(n, h) == n \in SavesUntouched \/ h.sends \in {"row", "keyed", "typed"}

EmptiesWhatItAdds(n, h) ==
  \/ n \in AddsAgain \/ h.sends # "row"
  \/ h.bars # "free" /\ (h.fill = "shown" \/ (h.fill \in {"blank", "opened"} /\ h.gives # "keeps"))

KeepsDrafts(n, h) ==
  \/ n \in ForgetsTyping \/ h.fill = "shown"
  \/ /\ h.gives = "keeps" /\ h.fill \in {"blank", "mounted", "opened"}
     /\ h.then = "keeps" \/ n \in ForgetsHaste

\* One request at a time of what was typed; a form that stays as it is; or one
\* that can be opened again only when what it saved has been read.
OneAtATime(n, h) == h.sends = "typed" /\ (h.bars # "free" \/ n \in RevertsInHaste)
StaysAsItIs(h) ==
  /\ h.fill = "mounted" /\ h.sends = "all" /\ h.bars # "free"
  /\ h.gives = "keeps" /\ h.then = "keeps"
OpensAfterReading(n, h) ==
  /\ h.fill = "opened" /\ h.sends = "all" /\ h.bars = "reading"
  /\ h.gives # "empties" /\ h.then \in {"keeps", "closes"} /\ n \in RevertsInHaste

KeepsWords(n, h) ==
  \/ n \in RevertsItself \/ h.sends \in {"row", "keyed"}
  \/ OneAtATime(n, h) \/ StaysAsItIs(h) \/ OpensAfterReading(n, h)

LEMMA KindsOfHabits == \A n \in DOMAIN AllForms : HabitKinds(AllForms[n])
BY SMTT(60) DEF AllForms, HabitKinds, RankTiersSetting, OverviewMetricsSetting,
       TableLayoutSetting, SeasonBuildingAlertSetting,
       ParticipationBarsSetting, FormulaSetting, RemoveFormula,
       OwnAllianceSetting, PinAnotherAlliance, SaveRouting, SetRole, LetIn,
       Revoke, Decide, SaveMember, PermissionsSetting, TabVisibilitySetting,
       IssueCode, RevokeCode, LeaveAllianceForm, JoinCodeForm, PlayerClaimForm,
       AllianceRequestForm, PasswordForm, EmailForm, GiftKeyForm, SaveChannel,
       ToggleChannel, RemoveChannel, HeroesSetting, AddHero, PetsSetting,
       AddPet, EventsSetting, EventRow, SeasonRow, NewSeason, BuildingRow,
       UnnamedRow, ManualBuilding, ManualScoresSetting, ManualRosterSetting,
       NoticesPanel, NoticePostPage, GuidesPanel, GuidePostPage, Comments,
       Reply, EditComment, ScrapButton, ScheduleEntry, NewScheduleEntry,
       ScheduleBoards, RenameTab, HideTab, EventName, RankBadge,
       AttendanceRecorder, DeclareDay, EventScoreboard, PlannerAccount,
       OverviewActions, NewFormation, InlineValue, VariantMark, ValueRow,
       PackRename, NameInput, AddGiftCode, AddGiftIds, RunnerPanel, CodeRow,
       MemberTable, AddCandidates, CandidateRow, CandidateColumnCell,
       AddColumn, UpdateColumn, MigrationEventForm, Form, Setting, Switch,
       Adding, Editing, NoticeEditor, GuideEditor, ScheduleEditor, Composer

LEMMA SendingHabits == \A n \in DOMAIN AllForms : SendsItsOwn(n, AllForms[n])
BY SMTT(60) DEF AllForms, SendsItsOwn, SavesUntouched, RankTiersSetting,
       OverviewMetricsSetting, TableLayoutSetting, SeasonBuildingAlertSetting,
       ParticipationBarsSetting, FormulaSetting, RemoveFormula,
       OwnAllianceSetting, PinAnotherAlliance, SaveRouting, SetRole, LetIn,
       Revoke, Decide, SaveMember, PermissionsSetting, TabVisibilitySetting,
       IssueCode, RevokeCode, LeaveAllianceForm, JoinCodeForm, PlayerClaimForm,
       AllianceRequestForm, PasswordForm, EmailForm, GiftKeyForm, SaveChannel,
       ToggleChannel, RemoveChannel, HeroesSetting, AddHero, PetsSetting,
       AddPet, EventsSetting, EventRow, SeasonRow, NewSeason, BuildingRow,
       UnnamedRow, ManualBuilding, ManualScoresSetting, ManualRosterSetting,
       NoticesPanel, NoticePostPage, GuidesPanel, GuidePostPage, Comments,
       Reply, EditComment, ScrapButton, ScheduleEntry, NewScheduleEntry,
       ScheduleBoards, RenameTab, HideTab, EventName, RankBadge,
       AttendanceRecorder, DeclareDay, EventScoreboard, PlannerAccount,
       OverviewActions, NewFormation, InlineValue, VariantMark, ValueRow,
       PackRename, NameInput, AddGiftCode, AddGiftIds, RunnerPanel, CodeRow,
       MemberTable, AddCandidates, CandidateRow, CandidateColumnCell,
       AddColumn, UpdateColumn, MigrationEventForm, Form, Setting, Switch,
       Adding, Editing, NoticeEditor, GuideEditor, ScheduleEditor, Composer

LEMMA AddingHabits == \A n \in DOMAIN AllForms : EmptiesWhatItAdds(n, AllForms[n])
BY SMTT(60) DEF AllForms, EmptiesWhatItAdds, AddsAgain, RankTiersSetting,
       OverviewMetricsSetting, TableLayoutSetting, SeasonBuildingAlertSetting,
       ParticipationBarsSetting, FormulaSetting, RemoveFormula,
       OwnAllianceSetting, PinAnotherAlliance, SaveRouting, SetRole, LetIn,
       Revoke, Decide, SaveMember, PermissionsSetting, TabVisibilitySetting,
       IssueCode, RevokeCode, LeaveAllianceForm, JoinCodeForm, PlayerClaimForm,
       AllianceRequestForm, PasswordForm, EmailForm, GiftKeyForm, SaveChannel,
       ToggleChannel, RemoveChannel, HeroesSetting, AddHero, PetsSetting,
       AddPet, EventsSetting, EventRow, SeasonRow, NewSeason, BuildingRow,
       UnnamedRow, ManualBuilding, ManualScoresSetting, ManualRosterSetting,
       NoticesPanel, NoticePostPage, GuidesPanel, GuidePostPage, Comments,
       Reply, EditComment, ScrapButton, ScheduleEntry, NewScheduleEntry,
       ScheduleBoards, RenameTab, HideTab, EventName, RankBadge,
       AttendanceRecorder, DeclareDay, EventScoreboard, PlannerAccount,
       OverviewActions, NewFormation, InlineValue, VariantMark, ValueRow,
       PackRename, NameInput, AddGiftCode, AddGiftIds, RunnerPanel, CodeRow,
       MemberTable, AddCandidates, CandidateRow, CandidateColumnCell,
       AddColumn, UpdateColumn, MigrationEventForm, Form, Setting, Switch,
       Adding, Editing, NoticeEditor, GuideEditor, ScheduleEditor, Composer

LEMMA DraftingHabits == \A n \in DOMAIN AllForms : KeepsDrafts(n, AllForms[n])
BY SMTT(60) DEF AllForms, KeepsDrafts, ForgetsTyping, ForgetsHaste,
       RankTiersSetting, OverviewMetricsSetting, TableLayoutSetting,
       SeasonBuildingAlertSetting, ParticipationBarsSetting, FormulaSetting,
       RemoveFormula, OwnAllianceSetting, PinAnotherAlliance, SaveRouting,
       SetRole, LetIn, Revoke, Decide, SaveMember, PermissionsSetting,
       TabVisibilitySetting, IssueCode, RevokeCode, LeaveAllianceForm,
       JoinCodeForm, PlayerClaimForm, AllianceRequestForm, PasswordForm,
       EmailForm, GiftKeyForm, SaveChannel, ToggleChannel, RemoveChannel,
       HeroesSetting, AddHero, PetsSetting, AddPet, EventsSetting, EventRow,
       SeasonRow, NewSeason, BuildingRow, UnnamedRow, ManualBuilding,
       ManualScoresSetting, ManualRosterSetting, NoticesPanel, NoticePostPage,
       GuidesPanel, GuidePostPage, Comments, Reply, EditComment, ScrapButton,
       ScheduleEntry, NewScheduleEntry, ScheduleBoards, RenameTab, HideTab,
       EventName, RankBadge, AttendanceRecorder, DeclareDay, EventScoreboard,
       PlannerAccount, OverviewActions, NewFormation, InlineValue, VariantMark,
       ValueRow, PackRename, NameInput, AddGiftCode, AddGiftIds, RunnerPanel,
       CodeRow, MemberTable, AddCandidates, CandidateRow, CandidateColumnCell,
       AddColumn, UpdateColumn, MigrationEventForm, Form, Setting, Switch,
       Adding, Editing, NoticeEditor, GuideEditor, ScheduleEditor, Composer

LEMMA WordHabits == \A n \in DOMAIN AllForms : KeepsWords(n, AllForms[n])
BY SMTT(60) DEF AllForms, KeepsWords, OneAtATime, StaysAsItIs,
       OpensAfterReading, RevertsItself, RevertsInHaste, RankTiersSetting,
       OverviewMetricsSetting, TableLayoutSetting, SeasonBuildingAlertSetting,
       ParticipationBarsSetting, FormulaSetting, RemoveFormula,
       OwnAllianceSetting, PinAnotherAlliance, SaveRouting, SetRole, LetIn,
       Revoke, Decide, SaveMember, PermissionsSetting, TabVisibilitySetting,
       IssueCode, RevokeCode, LeaveAllianceForm, JoinCodeForm, PlayerClaimForm,
       AllianceRequestForm, PasswordForm, EmailForm, GiftKeyForm, SaveChannel,
       ToggleChannel, RemoveChannel, HeroesSetting, AddHero, PetsSetting,
       AddPet, EventsSetting, EventRow, SeasonRow, NewSeason, BuildingRow,
       UnnamedRow, ManualBuilding, ManualScoresSetting, ManualRosterSetting,
       NoticesPanel, NoticePostPage, GuidesPanel, GuidePostPage, Comments,
       Reply, EditComment, ScrapButton, ScheduleEntry, NewScheduleEntry,
       ScheduleBoards, RenameTab, HideTab, EventName, RankBadge,
       AttendanceRecorder, DeclareDay, EventScoreboard, PlannerAccount,
       OverviewActions, NewFormation, InlineValue, VariantMark, ValueRow,
       PackRename, NameInput, AddGiftCode, AddGiftIds, RunnerPanel, CodeRow,
       MemberTable, AddCandidates, CandidateRow, CandidateColumnCell,
       AddColumn, UpdateColumn, MigrationEventForm, Form, Setting, Switch,
       Adding, Editing, NoticeEditor, GuideEditor, ScheduleEditor, Composer

\* The habit of a behaviour is one of these.
LEMMA HabitOfForm ==
  ASSUME form \in Forms
  PROVE  /\ HabitKinds(habit) /\ SendsItsOwn(form, habit) /\ EmptiesWhatItAdds(form, habit)
         /\ KeepsDrafts(form, habit) /\ KeepsWords(form, habit)
<1>1. form \in DOMAIN AllForms /\ habit = AllForms[form]
  BY TheForms DEF TheForms, MCFormNames, habit
<1>2. QED
  BY <1>1, KindsOfHabits, SendingHabits, AddingHabits, DraftingHabits, WordHabits, Zenon

-----------------------------------------------------------------------------
(* Types, and what requests are out.                                       *)

StateOK ==
  /\ form \in Forms /\ patient \in BOOLEAN
  /\ saved \in Values /\ answer \in Values /\ draft \in Values /\ unsent \in Values
  /\ last \in Values /\ rows \in [1 .. MaxEdits -> 0 .. 2]
  /\ open \in BOOLEAN /\ asked \in BOOLEAN /\ edits \in 0 .. MaxEdits

SendsOK ==
  /\ sends \subseteq Request /\ IsFiniteSet(sends)
  /\ Cardinality(sends) <= IF habit.bars = "free" THEN MaxSends ELSE 1
  /\ AtMostOne

ClosedIsEmpty == ~ open => habit.fill = "opened" /\ draft = Nothing

LEMMA BaseParts ==
  /\ Base <=> StateOK /\ SendsOK /\ ClosedIsEmpty /\ NoDraftIfShown
  /\ Base' <=> StateOK' /\ SendsOK' /\ ClosedIsEmpty' /\ NoDraftIfShown'
BY Zenon DEF Base, TypeOK, StateOK, SendsOK, ClosedIsEmpty, Request

LEMMA SendsAdded ==
  ASSUME SendsOK, ~ Barred, Cardinality(sends) < MaxSends, patient => sends = {},
         NEW r \in Request, sends' = sends \cup {r}, UNCHANGED <<form, patient>>
  PROVE  SendsOK'
<1>1. IsFiniteSet(sends) /\ Cardinality(sends) \in Nat /\ MaxSends \in Nat
  BY FS_CardinalityType, EditFormAssumption DEF SendsOK, EditFormAssumption
<1>2. /\ IsFiniteSet(sends \cup {r})
      /\ Cardinality(sends \cup {r}) =
           IF r \in sends THEN Cardinality(sends) ELSE Cardinality(sends) + 1
  BY <1>1, FS_AddElement
<1>3. habit' = habit
  BY DEF habit
<1>4. CASE patient \/ habit.bars # "free"
  <2>1. sends = {}
    BY <1>4 DEF Barred
  <2>2. Cardinality(sends') = 1 /\ \A s, t \in sends' : s = t
    BY <1>2, <2>1, FS_EmptySet
  <2>3. QED
    BY <1>1, <1>2, <1>3, <2>2, EditFormAssumption DEF SendsOK, AtMostOne, EditFormAssumption
<1>5. CASE ~ (patient \/ habit.bars # "free")
  BY <1>1, <1>2, <1>3, <1>5 DEF SendsOK, AtMostOne
<1>6. QED
  BY <1>4, <1>5

LEMMA SendsRemoved ==
  ASSUME SendsOK, NEW s \in sends, sends' = sends \ {s}, UNCHANGED <<form, patient>>
  PROVE  SendsOK'
<1>1. IsFiniteSet(sends) /\ Cardinality(sends) \in Nat
  BY FS_CardinalityType DEF SendsOK
<1>2. /\ IsFiniteSet(sends \ {s})
      /\ Cardinality(sends \ {s}) = Cardinality(sends) - 1
  BY <1>1, FS_RemoveElement
<1>3. habit' = habit
  BY DEF habit
<1>4. MaxSends \in Nat
  BY EditFormAssumption DEF EditFormAssumption
<1>5. QED
  BY <1>1, <1>2, <1>3, <1>4 DEF SendsOK, AtMostOne

LEMMA SendsReplaced ==
  ASSUME SendsOK, NEW s \in sends, NEW r \in Request,
         sends' = (sends \ {s}) \cup {r}, UNCHANGED <<form, patient>>
  PROVE  SendsOK'
<1>1. IsFiniteSet(sends) /\ Cardinality(sends) \in Nat
  BY FS_CardinalityType DEF SendsOK
<1>2. IsFiniteSet(sends \ {s}) /\ Cardinality(sends \ {s}) = Cardinality(sends) - 1
  BY <1>1, FS_RemoveElement
<1>3. /\ IsFiniteSet((sends \ {s}) \cup {r})
      /\ Cardinality((sends \ {s}) \cup {r}) =
           IF r \in sends \ {s} THEN Cardinality(sends \ {s}) ELSE Cardinality(sends \ {s}) + 1
  BY <1>2, FS_AddElement
<1>4. habit' = habit
  BY DEF habit
<1>5. MaxSends \in Nat
  BY EditFormAssumption DEF EditFormAssumption
<1>6. Cardinality(sends') <= Cardinality(sends)
  BY <1>1, <1>2, <1>3
<1>7. Cardinality(sends') <= IF habit.bars = "free" THEN MaxSends ELSE 1
  BY <1>1, <1>2, <1>3, <1>5, <1>6 DEF SendsOK
<1>8. AtMostOne'
  BY <1>4 DEF SendsOK, AtMostOne
<1>9. QED
  BY <1>3, <1>4, <1>7, <1>8 DEF SendsOK

LEMMA SendsStay == ASSUME SendsOK, UNCHANGED <<sends, form, patient>> PROVE SendsOK'
BY DEF SendsOK, AtMostOne, habit

-----------------------------------------------------------------------------
(* Values.                                                                 *)

LEMMA ValueAt == ASSUME NEW v \in Values, NEW f \in Fields PROVE v[f] \in 0 .. MaxEdits
BY DEF Values

LEMMA NothingIsAValue == Nothing \in Values /\ \A f \in Fields : Nothing[f] = 0
BY EditFormAssumption DEF Nothing, Values, EditFormAssumption

LEMMA FreshIsAnEdit ==
  ASSUME StateOK, edits < MaxEdits
  PROVE  Fresh \in 1 .. MaxEdits /\ Fresh \in 0 .. MaxEdits /\ Fresh # 0
BY EditFormAssumption DEF StateOK, Fresh, EditFormAssumption

LEMMA MixedValues ==
  ASSUME NEW v \in Values, NEW w \in Values, NEW S
  PROVE  [f \in Fields |-> IF f \in S THEN v[f] ELSE w[f]] \in Values
BY DEF Values

LEMMA WithoutIsAValue ==
  ASSUME NEW s, NEW v \in Values
  PROVE  Without(s, v) \in Values /\ \A f \in Fields : Without(s, v)[f] = 0 \/ Without(s, v)[f] = v[f]
<1>1. \A f \in Fields : v[f] \in 0 .. MaxEdits /\ 0 \in 0 .. MaxEdits
  BY EditFormAssumption DEF Values, EditFormAssumption
<1>2. QED
  BY <1>1 DEF Without, Values

-----------------------------------------------------------------------------
(* Sending.                                                                *)

\* What a request that goes out does.
Sent(r) ==
  /\ ~ Barred /\ Cardinality(sends) < MaxSends /\ (patient => sends = {})
  /\ sends' = sends \cup {r} /\ r.was = "out" /\ r.fields = Writes(r.val, r.own)
  /\ last' = IF Adds THEN last ELSE [f \in Fields |-> IF f \in r.own THEN r.val[f] ELSE last[f]]

LEMMA WritesFields == ASSUME NEW v, NEW own \in SUBSET Fields PROVE Writes(v, own) \in SUBSET Fields
BY DEF Writes

LEMMA PressSends ==
  ASSUME StateOK, Press
  PROVE  \E r \in Request :
           /\ Sent(r) /\ r.own = Typed
           /\ \A f \in Typed : r.val[f] = draft[f] /\ draft[f] # 0
           /\ habit.sends # "merged" => \A f \in Fields : r.val[f] = draft[f]
           /\ \E f \in Typed : r.edit = draft[f]
<1> DEFINE kept == IF habit.sends = "merged" THEN answer ELSE draft
           edit == CHOOSE e \in {draft[f] : f \in Typed} : \A f \in Typed : draft[f] <= e
           val == [f \in Fields |-> IF f \in Typed THEN draft[f] ELSE kept[f]]
           r == [val |-> val, own |-> Typed, fields |-> Writes(val, Typed), edit |-> edit, was |-> "out"]
<1>1. draft \in Values /\ unsent \in Values /\ kept \in Values
  BY DEF StateOK
<1>2. Typed \in SUBSET Fields /\ Typed # {} /\ \A f \in Typed : draft[f] # 0
  BY DEF Press, Typed
<1>3. val \in Values
  BY <1>1, MixedValues
<1>4. \A f \in Typed : draft[f] \in 1 .. MaxEdits
  BY <1>1, <1>2, ValueAt
<1>5. \E e \in {draft[f] : f \in Typed} : \A f \in Typed : draft[f] <= e
  <2>1. \A a, b \in 1 .. MaxEdits : a <= b \/ b <= a
    OBVIOUS
  <2>2. Typed = {"one"} \/ Typed = {"other"} \/ Typed = {"one", "other"}
    BY <1>2 DEF Fields
  <2>3. QED
    BY <1>4, <2>1, <2>2
<1>6. edit \in {draft[f] : f \in Typed}
  BY <1>5
<1> HIDE DEF edit
<1>7. edit \in 1 .. MaxEdits
  BY <1>4, <1>6
<1>8. /\ Send(val, Typed, edit) /\ (patient => sends = {})
  BY DEF Press, MayTouch, edit
<1> HIDE DEF val
<1>9. Writes(val, Typed) \in SUBSET Fields
  BY <1>2, WritesFields
<1>10. r \in Request
  BY <1>2, <1>3, <1>7, <1>9 DEF Request
<1>11. Sent(r)
  BY <1>8 DEF Sent, Send
<1>12. \A f \in Fields : val[f] = IF f \in Typed THEN draft[f] ELSE kept[f]
  BY DEF val
<1>13. QED
  BY <1>2, <1>6, <1>10, <1>11, <1>12

LEMMA ChooseSends ==
  ASSUME StateOK, NEW f \in Fields, Choose(f)
  PROVE  \E r \in Request :
           Sent(r) /\ r.own = {f} /\ r.val[f] = Fresh /\ r.edit = Fresh /\ Fresh # 0
<1> DEFINE val == [answer EXCEPT ![f] = Fresh]
           r == [val |-> val, own |-> {f}, fields |-> Writes(val, {f}), edit |-> Fresh, was |-> "out"]
<1>1. Fresh \in 1 .. MaxEdits /\ Fresh \in 0 .. MaxEdits /\ Fresh # 0
  BY FreshIsAnEdit DEF Choose
<1>2. val \in Values /\ val[f] = Fresh
  BY <1>1 DEF StateOK, Values
<1>3. Send(val, {f}, Fresh) /\ (patient => sends = {})
  BY DEF Choose, MayTouch
<1> HIDE DEF val
<1>4. Writes(val, {f}) \in SUBSET Fields
  BY WritesFields
<1>5. r \in Request
  BY <1>1, <1>2, <1>4 DEF Request
<1>6. Sent(r)
  BY <1>3 DEF Sent, Send
<1>7. QED
  BY <1>1, <1>2, <1>5, <1>6

LEMMA SentIsTyped ==
  ASSUME StateOK, NEW r \in Request, Sent(r) PROVE last' \in Values
<1>1. r.val \in Values /\ last \in Values
  BY DEF StateOK, Request
<1>2. QED
  BY <1>1, MixedValues DEF Sent

-----------------------------------------------------------------------------
(* The base of the invariant.                                              *)

LEMMA BaseInit == Init => Base
<1> SUFFICES ASSUME Init PROVE Base
  OBVIOUS
<1>1. StateOK
  <2>1. rows \in [1 .. MaxEdits -> 0 .. 2]
    BY DEF Init
  <2>2. 0 \in 0 .. MaxEdits
    BY EditFormAssumption DEF EditFormAssumption
  <2>3. open \in BOOLEAN /\ asked \in BOOLEAN /\ form \in Forms /\ patient \in BOOLEAN
    BY DEF Init
  <2>4. QED
    BY <2>1, <2>2, <2>3, NothingIsAValue DEF Init, StateOK
<1>2. SendsOK
  <2>1. IsFiniteSet({}) /\ Cardinality({}) = 0 /\ MaxSends \in Nat \ {0}
    BY FS_EmptySet, EditFormAssumption DEF EditFormAssumption
  <2>2. QED
    BY <2>1 DEF Init, SendsOK, AtMostOne
<1>3. ClosedIsEmpty /\ NoDraftIfShown
  BY Zenon DEF Init, ClosedIsEmpty, NoDraftIfShown
<1>4. QED
  BY <1>1, <1>2, <1>3, BaseParts

LEMMA OpenKeepsBase == ASSUME Base, Open PROVE Base'
<1>1. StateOK /\ SendsOK /\ ClosedIsEmpty /\ NoDraftIfShown
  BY BaseParts
<1>2. Filled(answer) \in Values
  BY <1>1, NothingIsAValue DEF Filled, StateOK
<1>3. StateOK'
  BY <1>1, <1>2, NothingIsAValue DEF Open, StateOK
<1>4. SendsOK'
  BY <1>1, SendsStay DEF Open
<1>5. ClosedIsEmpty' /\ NoDraftIfShown'
  BY DEF Open, ClosedIsEmpty, NoDraftIfShown, habit
<1>6. QED
  BY <1>3, <1>4, <1>5, BaseParts

LEMMA CancelKeepsBase == ASSUME Base, Cancel PROVE Base'
<1>1. StateOK /\ SendsOK
  BY BaseParts
<1>2. StateOK'
  BY <1>1, NothingIsAValue DEF Cancel, StateOK
<1>3. SendsOK'
  BY <1>1, SendsStay DEF Cancel
<1>4. ClosedIsEmpty' /\ NoDraftIfShown'
  BY DEF Cancel, ClosedIsEmpty, NoDraftIfShown, habit
<1>5. QED
  BY <1>2, <1>3, <1>4, BaseParts

LEMMA TypeKeepsBase == ASSUME Base, NEW f \in Fields, Type(f) PROVE Base'
<1>1. StateOK /\ SendsOK
  BY BaseParts
<1>2. Fresh \in 0 .. MaxEdits
  BY <1>1, FreshIsAnEdit DEF Type
<1>3. StateOK'
  BY <1>1, <1>2 DEF Type, StateOK, Values
<1>4. SendsOK'
  BY <1>1, SendsStay DEF Type
<1>5. ClosedIsEmpty' /\ NoDraftIfShown'
  BY DEF Type, ClosedIsEmpty, NoDraftIfShown, habit
<1>6. QED
  BY <1>3, <1>4, <1>5, BaseParts

LEMMA PressKeepsBase == ASSUME Base, Press PROVE Base'
<1>1. StateOK /\ SendsOK /\ ClosedIsEmpty /\ NoDraftIfShown
  BY BaseParts
<1>2. PICK r \in Request : Sent(r)
  BY <1>1, PressSends
<1>3. HabitKinds(habit)
  BY <1>1, HabitOfForm DEF StateOK
<1>4. last' \in Values
  BY <1>1, <1>2, SentIsTyped
<1>5. /\ draft' = (IF habit.gives = "keeps" THEN draft ELSE Nothing)
      /\ open' = (habit.gives # "closes")
      /\ UNCHANGED <<form, patient, saved, rows, answer, unsent, asked, edits>>
  BY DEF Press
<1>6. StateOK'
  BY <1>1, <1>4, <1>5, NothingIsAValue DEF StateOK
<1>7. SendsOK'
  BY <1>1, <1>2, <1>5, SendsAdded DEF Sent
<1>8. ClosedIsEmpty'
  BY <1>3, <1>5 DEF ClosedIsEmpty, HabitKinds, habit
<1>9. NoDraftIfShown'
  BY <1>1, <1>5 DEF NoDraftIfShown, habit
<1>10. QED
  BY <1>6, <1>7, <1>8, <1>9, BaseParts

LEMMA ChooseKeepsBase == ASSUME Base, NEW f \in Fields, Choose(f) PROVE Base'
<1>1. StateOK /\ SendsOK /\ ClosedIsEmpty /\ NoDraftIfShown
  BY BaseParts
<1>2. PICK r \in Request : Sent(r)
  BY <1>1, ChooseSends
<1>3. last' \in Values
  BY <1>1, <1>2, SentIsTyped
<1>4. Fresh \in 0 .. MaxEdits
  BY <1>1, FreshIsAnEdit DEF Choose
<1>5. StateOK'
  BY <1>1, <1>3, <1>4 DEF Choose, StateOK
<1>6. SendsOK'
  BY <1>1, <1>2, SendsAdded DEF Sent, Choose
<1>7. ClosedIsEmpty' /\ NoDraftIfShown'
  BY <1>1 DEF Choose, ClosedIsEmpty, NoDraftIfShown, habit
<1>8. QED
  BY <1>5, <1>6, <1>7, BaseParts

LEMMA LandsKeepsBase == ASSUME Base, NEW s \in sends, Lands(s) PROVE Base'
<1>1. StateOK /\ SendsOK /\ ClosedIsEmpty /\ NoDraftIfShown
  BY BaseParts
<1>2. s \in Request
  BY <1>1 DEF SendsOK
<1>3. PICK r \in Request : r = [s EXCEPT !.was = "written"]
  BY <1>2 DEF Request
<1>4. SendsOK'
  BY <1>1, <1>3, SendsReplaced DEF Lands
<1>5. s.val \in Values /\ s.edit \in 1 .. MaxEdits
  BY <1>2 DEF Request
<1>6. Written(s) \in Values
  BY <1>1, <1>5, MixedValues DEF Written, StateOK
<1>7. Added(s) \in [1 .. MaxEdits -> 0 .. 2]
  <2>1. rows \in [1 .. MaxEdits -> 0 .. 2]
    BY <1>1 DEF StateOK
  <2>2. \A n \in 0 .. 2 : [rows EXCEPT ![s.edit] = n] \in [1 .. MaxEdits -> 0 .. 2]
    BY <1>5, <2>1
  <2>3. \/ Added(s) = [rows EXCEPT ![s.edit] = 1] \/ Added(s) = [rows EXCEPT ![s.edit] = 2]
        \/ Added(s) = rows
    BY DEF Added
  <2>4. 1 \in 0 .. 2 /\ 2 \in 0 .. 2
    OBVIOUS
  <2>5. QED
    BY <2>1, <2>2, <2>3, <2>4
<1>8. StateOK'
  BY <1>1, <1>6, <1>7 DEF Lands, StateOK
<1>9. ClosedIsEmpty' /\ NoDraftIfShown'
  BY <1>1 DEF Lands, ClosedIsEmpty, NoDraftIfShown, habit
<1>10. QED
  BY <1>4, <1>8, <1>9, BaseParts

\* What a success leaves of the draft and of what is not accepted yet.
LEMMA SuccessLeaves ==
  ASSUME Base, NEW s \in sends, Succeeds(s)
  PROVE  /\ draft' \in Values /\ unsent' \in Values
         /\ \A f \in Fields : draft'[f] = 0 \/ draft'[f] = draft[f]
         /\ \A f \in Fields : unsent'[f] # 0 =>
              unsent'[f] = unsent[f] /\ (f \in s.own => s.val[f] # unsent[f])
<1>1. draft \in Values /\ unsent \in Values
  BY BaseParts DEF StateOK
<1>2. /\ unsent' \in Values
      /\ \A f \in Fields : unsent'[f] # 0 => unsent'[f] = unsent[f] /\ (f \in s.own => s.val[f] # unsent[f])
  <2>1. unsent' = Without(s, unsent)
    BY DEF Succeeds
  <2>2. QED
    BY <1>1, <2>1, WithoutIsAValue DEF Without
<1>3. \/ draft' = draft \/ draft' = Nothing
      \/ draft' = [f \in Fields |-> IF f \in s.own THEN 0 ELSE draft[f]]
  BY DEF Succeeds
<1>4. \A f \in Fields : draft[f] \in 0 .. MaxEdits /\ 0 \in 0 .. MaxEdits
  BY <1>1, EditFormAssumption DEF Values, EditFormAssumption
<1>5. [f \in Fields |-> IF f \in s.own THEN 0 ELSE draft[f]] \in Values
  BY <1>4 DEF Values
<1>6. draft' \in Values
  BY <1>1, <1>3, <1>5, NothingIsAValue
<1>7. \A f \in Fields : draft'[f] = 0 \/ draft'[f] = draft[f]
  BY <1>3, NothingIsAValue
<1>8. QED
  BY <1>2, <1>6, <1>7

LEMMA ValuesAreEqual ==
  ASSUME NEW v \in Values, NEW w \in Values, \A f \in Fields : v[f] = w[f] PROVE v = w
BY DEF Values

LEMMA SucceedsKeepsBase == ASSUME Base, NEW s \in sends, Succeeds(s) PROVE Base'
<1>1. StateOK /\ SendsOK /\ ClosedIsEmpty /\ NoDraftIfShown
  BY BaseParts
<1>2. /\ draft' \in Values /\ unsent' \in Values
      /\ \A f \in Fields : draft'[f] = 0 \/ draft'[f] = draft[f]
      /\ \A f \in Fields : unsent'[f] # 0 => unsent'[f] = unsent[f]
  BY SuccessLeaves
<1>3. /\ sends' = sends \ {s} /\ open' = (open /\ habit.then # "closes")
      /\ asked' = (habit.bars = "reading")
      /\ UNCHANGED <<form, patient, saved, rows, answer, edits, last>>
  BY DEF Succeeds
<1>4. StateOK'
  BY <1>1, <1>2, <1>3 DEF StateOK
<1>5. SendsOK'
  BY <1>1, <1>3, SendsRemoved
<1>6. ASSUME draft = Nothing PROVE draft' = Nothing
  BY <1>2, <1>6, NothingIsAValue, ValuesAreEqual
<1>7. HabitKinds(habit)
  BY <1>1, HabitOfForm DEF StateOK
<1>8. ClosedIsEmpty'
  <2>1. CASE habit.then = "closes"
    <3>1. draft' = Nothing /\ habit.fill = "opened"
      BY <1>7, <2>1 DEF Succeeds, HabitKinds
    <3>2. QED
      BY <1>3, <3>1 DEF ClosedIsEmpty, habit
  <2>2. CASE habit.then # "closes"
    BY <1>1, <1>3, <1>6, <2>2 DEF ClosedIsEmpty, habit, StateOK
  <2>3. QED
    BY <2>1, <2>2
<1>9. NoDraftIfShown'
  <2>1. ASSUME unsent = Nothing PROVE unsent' = Nothing
    BY <1>2, <2>1, NothingIsAValue, ValuesAreEqual
  <2>2. QED
    BY <1>1, <1>3, <1>6, <2>1 DEF NoDraftIfShown, habit
<1>10. QED
  BY <1>4, <1>5, <1>8, <1>9, BaseParts

LEMMA FailsKeepsBase == ASSUME Base, NEW s \in sends, Fails(s) PROVE Base'
<1>1. StateOK /\ SendsOK /\ ClosedIsEmpty /\ NoDraftIfShown
  BY BaseParts
<1>2. Without(s, last) \in Values
  BY <1>1, WithoutIsAValue DEF StateOK
<1>3. StateOK'
  BY <1>1, <1>2 DEF Fails, StateOK
<1>4. SendsOK'
  BY <1>1, SendsRemoved DEF Fails
<1>5. ClosedIsEmpty' /\ NoDraftIfShown'
  BY <1>1 DEF Fails, ClosedIsEmpty, NoDraftIfShown, habit
<1>6. QED
  BY <1>3, <1>4, <1>5, BaseParts

LEMMA OthersSaveKeepsBase == ASSUME Base, NEW f \in Fields, OthersSave(f) PROVE Base'
<1>1. StateOK /\ SendsOK /\ ClosedIsEmpty /\ NoDraftIfShown
  BY BaseParts
<1>2. Fresh \in 0 .. MaxEdits /\ 0 \in 0 .. MaxEdits
  BY <1>1, FreshIsAnEdit, EditFormAssumption DEF OthersSave, EditFormAssumption
<1>3. StateOK'
  BY <1>1, <1>2 DEF OthersSave, StateOK, Values
<1>4. SendsOK'
  BY <1>1, SendsStay DEF OthersSave
<1>5. ClosedIsEmpty' /\ NoDraftIfShown'
  BY <1>1 DEF OthersSave, ClosedIsEmpty, NoDraftIfShown, habit
<1>6. QED
  BY <1>3, <1>4, <1>5, BaseParts

\* Unless a form follows the answer, a new one leaves the draft alone.
LEMMA RefetchLeaves ==
  ASSUME Base, Refetch, habit.fill \notin {"followed", "celled"} PROVE draft' = draft
<1>1. draft \in Values /\ Refilled = {}
  BY BaseParts DEF StateOK, Refilled
<1>2. draft' = [f \in Fields |-> draft[f]]
  BY <1>1 DEF Refetch
<1>3. QED
  BY <1>1, <1>2 DEF Values

LEMMA RefetchKeepsBase == ASSUME Base, Refetch PROVE Base'
<1>1. StateOK /\ SendsOK /\ ClosedIsEmpty /\ NoDraftIfShown
  BY BaseParts
<1>2. Filled(saved) \in Values
  BY <1>1, NothingIsAValue DEF Filled, StateOK
<1>3. draft' \in Values
  BY <1>1, <1>2, MixedValues DEF Refetch, StateOK
<1>4. StateOK'
  BY <1>1, <1>3 DEF Refetch, StateOK
<1>5. SendsOK'
  BY <1>1, SendsStay DEF Refetch
<1>6. ClosedIsEmpty' /\ NoDraftIfShown'
  <2>1. habit.fill \in {"opened", "shown"} => draft' = draft
    BY RefetchLeaves
  <2>2. UNCHANGED <<form, open, unsent>>
    BY DEF Refetch
  <2>3. QED
    BY <1>1, <2>1, <2>2 DEF ClosedIsEmpty, NoDraftIfShown, habit
<1>7. QED
  BY <1>4, <1>5, <1>6, BaseParts

LEMMA BaseStep == Base /\ [Next]_vars => Base'
<1> SUFFICES ASSUME Base, [Next]_vars PROVE Base'
  OBVIOUS
<1>1. CASE UNCHANGED vars
  <2>1. StateOK /\ SendsOK /\ ClosedIsEmpty /\ NoDraftIfShown
    BY BaseParts
  <2>2. SendsOK'
    BY <1>1, <2>1, SendsStay DEF vars
  <2>3. StateOK' /\ ClosedIsEmpty' /\ NoDraftIfShown'
    BY <1>1, <2>1 DEF vars, StateOK, ClosedIsEmpty, NoDraftIfShown, habit
  <2>4. QED
    BY <2>2, <2>3, BaseParts
<1>2. QED
  BY <1>1, OpenKeepsBase, CancelKeepsBase, TypeKeepsBase, PressKeepsBase, ChooseKeepsBase,
     LandsKeepsBase, SucceedsKeepsBase, FailsKeepsBase, OthersSaveKeepsBase, RefetchKeepsBase
     DEF Next

LEMMA FormStays == [Next]_vars => form' = form /\ patient' = patient /\ habit' = habit
BY DEF Next, vars, habit, Open, Cancel, Type, Press, Choose, Lands, Succeeds, Fails, OthersSave, Refetch

-----------------------------------------------------------------------------
(* A save changes what its officer chose.                                  *)

\* Where a request comes from.
LEMMA RequestsAre ==
  ASSUME Base, [Next]_vars
  PROVE  \A t \in sends' : \/ t \in sends \/ Sent(t)
                           \/ \E s \in sends : t.own = s.own /\ t.fields = s.fields /\ t.val = s.val
<1>1. StateOK /\ sends \subseteq Request
  BY BaseParts DEF SendsOK
<1>2. CASE Press
  BY <1>1, <1>2, PressSends DEF Sent
<1>3. ASSUME NEW f \in Fields, Choose(f)
      PROVE  \A t \in sends' : t \in sends \/ Sent(t)
  BY <1>1, <1>3, ChooseSends DEF Sent
<1>4. ASSUME NEW s \in sends, Lands(s)
      PROVE  \A t \in sends' : t \in sends \/ (t.own = s.own /\ t.fields = s.fields /\ t.val = s.val)
  BY <1>1, <1>4 DEF Lands, Request
<1>5. ASSUME NEW s \in sends, Succeeds(s) \/ Fails(s) PROVE sends' \subseteq sends
  BY <1>5 DEF Succeeds, Fails
<1>6. CASE \/ Open \/ Cancel \/ Refetch \/ UNCHANGED vars
           \/ \E f \in Fields : Type(f) \/ OthersSave(f)
  BY <1>6 DEF Open, Cancel, Refetch, vars, Type, OthersSave
<1>7. QED
  BY <1>2, <1>3, <1>4, <1>5, <1>6 DEF Next

LEMMA WritesItsOwnStep == Base /\ WritesItsOwn /\ [Next]_vars => WritesItsOwn'
<1> SUFFICES ASSUME Base, WritesItsOwn, [Next]_vars, form \notin SavesUntouched
             PROVE  \A t \in sends' : t.fields \subseteq t.own
  BY FormStays DEF WritesItsOwn, SavesUntouched
<1>1. habit.sends \in {"row", "keyed", "typed"}
  BY BaseParts, HabitOfForm DEF StateOK, SendsItsOwn
<1>2. ASSUME NEW t \in sends', Sent(t) PROVE t.fields \subseteq t.own
  BY <1>1, <1>2 DEF Sent, Writes
<1>3. QED
  BY <1>2, RequestsAre DEF WritesItsOwn

LEMMA SavesOwnFields ==
  ASSUME Base, WritesItsOwn, [Next]_vars PROVE OnlyOwnFieldsChange \/ form \in SavesUntouched
<1> SUFFICES ASSUME form \notin SavesUntouched PROVE OnlyOwnFieldsChange
  OBVIOUS
<1>1. edits \in Nat
  BY BaseParts, EditFormAssumption DEF StateOK, EditFormAssumption
<1>2. ASSUME NEW s \in sends, Lands(s) PROVE OnlyOwnFieldsChange
  BY <1>2 DEF Lands, Written, OnlyOwnFieldsChange, WritesItsOwn
<1>3. ASSUME NEW f \in Fields, OthersSave(f) PROVE OnlyOwnFieldsChange
  BY <1>1, <1>3 DEF OthersSave, Fresh, OnlyOwnFieldsChange
<1>4. ASSUME \/ Open \/ Cancel \/ Refetch \/ Press \/ UNCHANGED vars
             \/ \E f \in Fields : Type(f) \/ Choose(f)
             \/ \E s \in sends : Succeeds(s) \/ Fails(s)
      PROVE  OnlyOwnFieldsChange
  <2>1. saved' = saved
    BY <1>4 DEF Open, Cancel, Refetch, Press, vars, Type, Choose, Succeeds, Fails
  <2>2. QED
    BY <2>1 DEF OnlyOwnFieldsChange
<1>5. QED
  BY <1>2, <1>3, <1>4 DEF Next

-----------------------------------------------------------------------------
(* Nothing is added twice.                                                 *)

\* A form that adds rows: the request that goes out is the only one, and what
\* it carries is no longer at hand.
LEMMA AddingForms ==
  ASSUME Base, form \notin AddsAgain, habit.sends = "row"
  PROVE  /\ \A s, t \in sends : s = t
         /\ habit.bars # "free" /\ habit.fill \in {"shown", "blank", "opened"}
         /\ habit.fill = "shown" \/ habit.gives # "keeps"
         /\ Adds
BY BaseParts, HabitOfForm, Zenon DEF StateOK, SendsOK, AtMostOne, EmptiesWhatItAdds, Adds

LEMMA DraftlessComesOnce ==
  ASSUME Base, RowsComeOnce, UNCHANGED rows, sends' \subseteq sends, edits' \in Nat, edits <= edits',
         draft' \in Values, \A f \in Fields : draft'[f] = 0 \/ draft'[f] = draft[f]
  PROVE  RowsComeOnce'
<1>1. edits \in Nat /\ \A s \in sends : s.edit \in Nat
  BY BaseParts, EditFormAssumption DEF StateOK, SendsOK, Request, EditFormAssumption
<1>2. \A f \in Fields : draft[f] \in Nat
  BY BaseParts, ValueAt, EditFormAssumption DEF StateOK, EditFormAssumption
<1>3. \A f \in Fields : draft'[f] <= edits'
  BY <1>1, <1>2 DEF RowsComeOnce
<1>4. \A s \in sends' : s.edit <= edits' /\ (s.was = "out" => rows'[s.edit] = 0)
  BY <1>1 DEF RowsComeOnce
<1>5. \A e \in 1 .. MaxEdits : rows'[e] # 0 => e <= edits'
  <2>1. \A e \in 1 .. MaxEdits : e \in Nat
    OBVIOUS
  <2>2. QED
    BY <1>1, <2>1 DEF RowsComeOnce
<1>6. QED
  BY <1>3, <1>4, <1>5 DEF RowsComeOnce

LEMMA SendComesOnce ==
  ASSUME Base, RowsComeOnce, NEW r \in Request, sends' = {r}, r.was = "out",
         r.edit <= edits', rows[r.edit] = 0, UNCHANGED rows, edits' \in Nat, edits <= edits',
         draft' = Nothing
  PROVE  RowsComeOnce'
<1>1. edits \in Nat
  BY BaseParts, EditFormAssumption DEF StateOK, EditFormAssumption
<1>2. \A f \in Fields : draft'[f] = 0
  BY NothingIsAValue
<1>3. \A e \in 1 .. MaxEdits : rows'[e] # 0 => e <= edits'
  <2>1. \A e \in 1 .. MaxEdits : e \in Nat
    OBVIOUS
  <2>2. QED
    BY <1>1, <2>1 DEF RowsComeOnce
<1>4. QED
  BY <1>2, <1>3 DEF RowsComeOnce

LEMMA RowsComeOnceStep ==
  ASSUME Base, Base', form \notin AddsAgain, habit.sends = "row", RowsComeOnce, AddedOnce, [Next]_vars
  PROVE  RowsComeOnce' /\ AddedOnce'
<1>1. /\ \A s, t \in sends : s = t
      /\ habit.bars # "free" /\ habit.fill \in {"shown", "blank", "opened"}
      /\ habit.fill = "shown" \/ habit.gives # "keeps"
      /\ Adds
  BY AddingForms
<1>2. StateOK /\ StateOK' /\ sends \subseteq Request /\ NoDraftIfShown
  BY BaseParts DEF SendsOK
<1>3. /\ edits \in Nat /\ edits' \in Nat /\ draft' \in Values
      /\ \A f \in Fields : draft[f] \in 0 .. MaxEdits /\ draft[f] \in Nat
      /\ \A s \in sends : s.edit \in 1 .. MaxEdits
      /\ rows \in [1 .. MaxEdits -> 0 .. 2]
      /\ MaxEdits \in Nat
  BY <1>2, ValueAt, EditFormAssumption DEF StateOK, Request, EditFormAssumption
<1>4. CASE UNCHANGED <<rows, sends, edits, draft>>
  BY <1>3, <1>4, DraftlessComesOnce DEF AddedOnce
<1>5. CASE Open
  <2>1. draft' = Nothing
    BY <1>1, <1>5 DEF Open, Filled
  <2>2. QED
    BY <1>3, <1>5, <2>1, NothingIsAValue, DraftlessComesOnce DEF Open, AddedOnce
<1>6. CASE Cancel
  BY <1>3, <1>6, NothingIsAValue, DraftlessComesOnce DEF Cancel, AddedOnce
<1>7. ASSUME NEW f \in Fields, Type(f) PROVE RowsComeOnce' /\ AddedOnce'
  <2>1. /\ edits' = edits + 1 /\ draft' = [draft EXCEPT ![f] = edits + 1]
        /\ UNCHANGED <<sends, rows>>
    BY <1>7 DEF Type, Fresh
  <2>2. \A g \in Fields : draft'[g] = IF g = f THEN edits + 1 ELSE draft[g]
    BY <1>2, <2>1 DEF StateOK, Values
  <2>3. \A s \in sends : s.edit <= edits
    BY DEF RowsComeOnce
  <2>4. \A e \in 1 .. MaxEdits : e \in Nat /\ (rows[e] # 0 => e <= edits)
    BY DEF RowsComeOnce
  <2>5. \A g \in Fields : draft[g] <= edits
    BY DEF RowsComeOnce
  <2>6. \A g \in Fields : draft'[g] <= edits'
    BY <1>3, <2>1, <2>2, <2>5
  <2>7. \A g \in Fields, s \in sends' : draft'[g] # 0 => s.edit < draft'[g]
    BY <1>3, <2>1, <2>2, <2>3 DEF RowsComeOnce
  <2>8. \A g \in Fields, e \in 1 .. MaxEdits : draft'[g] # 0 /\ rows'[e] # 0 => e < draft'[g]
    BY <1>3, <2>1, <2>2, <2>4 DEF RowsComeOnce
  <2>9. \A s \in sends' : s.edit <= edits' /\ (s.was = "out" => rows'[s.edit] = 0)
    BY <1>3, <2>1, <2>3 DEF RowsComeOnce
  <2>10. \A e \in 1 .. MaxEdits : rows'[e] # 0 => e <= edits'
    BY <1>3, <2>1, <2>4
  <2>11. QED
    BY <2>1, <2>6, <2>7, <2>8, <2>9, <2>10 DEF RowsComeOnce, AddedOnce
<1>8. CASE Press
  <2>1. PICK r \in Request :
          Sent(r) /\ r.own = Typed /\ \E f \in Typed : r.edit = draft[f] /\ draft[f] # 0
    BY <1>2, <1>8, PressSends
  <2>2. PICK f \in Fields : r.edit = draft[f] /\ draft[f] # 0
    BY <2>1 DEF Typed
  <2>3. sends' = {r} /\ r.was = "out"
    BY <1>1, <2>1 DEF Sent, Barred
  <2>4. habit.fill # "shown"
    BY <1>2, <2>2, NothingIsAValue DEF NoDraftIfShown
  <2>5. draft' = Nothing /\ UNCHANGED <<rows, edits>>
    BY <1>1, <1>8, <2>4 DEF Press
  <2>6. r.edit <= edits /\ r.edit \in 1 .. MaxEdits
    BY <2>2 DEF RowsComeOnce, Request
  <2>7. rows[r.edit] = 0
    <3>1. rows[r.edit] # 0 => r.edit < draft[f]
      BY <2>2, <2>6 DEF RowsComeOnce
    <3>2. QED
      BY <1>3, <2>2, <3>1
  <2>8. QED
    BY <1>3, <2>3, <2>5, <2>6, <2>7, SendComesOnce DEF AddedOnce
<1>9. ASSUME NEW f \in Fields, Choose(f) PROVE RowsComeOnce' /\ AddedOnce'
  <2>1. PICK r \in Request : Sent(r) /\ r.edit = Fresh
    BY <1>2, <1>9, ChooseSends
  <2>2. sends' = {r} /\ r.was = "out"
    BY <1>1, <2>1 DEF Sent, Barred
  <2>3. draft' = Nothing
    BY <1>2, <1>9 DEF Choose, NoDraftIfShown
  <2>4. r.edit = edits + 1 /\ edits' = edits + 1 /\ r.edit \in 1 .. MaxEdits /\ UNCHANGED rows
    BY <1>9, <2>1 DEF Choose, Fresh, Request
  <2>5. rows[r.edit] = 0
    <3>1. rows[r.edit] # 0 => r.edit <= edits
      BY <2>4 DEF RowsComeOnce
    <3>2. QED
      BY <1>3, <2>4, <3>1
  <2>6. r.edit <= edits' /\ edits <= edits'
    BY <1>3, <2>4
  <2>7. QED
    BY <1>3, <2>2, <2>3, <2>4, <2>5, <2>6, SendComesOnce DEF AddedOnce
<1>10. ASSUME NEW s \in sends, Lands(s) PROVE RowsComeOnce' /\ AddedOnce'
  <2>1. rows[s.edit] = 0 /\ s.edit \in 1 .. MaxEdits
    BY <1>3, <1>10 DEF Lands, RowsComeOnce
  <2>2. rows' = [rows EXCEPT ![s.edit] = 1]
    BY <2>1, <1>3, <1>10 DEF Lands, Added
  <2>3. \A e \in 1 .. MaxEdits : rows'[e] = IF e = s.edit THEN 1 ELSE rows[e]
    BY <1>3, <2>2
  <2>4. PICK r \in Request : r = [s EXCEPT !.was = "written"]
    BY <1>2 DEF Request
  <2>5. r.edit = s.edit /\ r.was = "written" /\ sends' = {r}
    BY <1>1, <1>2, <1>10, <2>4 DEF Lands, Request
  <2>6. UNCHANGED <<draft, edits>>
    BY <1>10 DEF Lands
  <2>7. AddedOnce'
    BY <2>3 DEF AddedOnce
  <2>8. RowsComeOnce'
    BY <2>1, <2>3, <2>5, <2>6 DEF RowsComeOnce
  <2>9. QED
    BY <2>7, <2>8
<1>11. ASSUME NEW s \in sends, Succeeds(s) PROVE RowsComeOnce' /\ AddedOnce'
  BY <1>3, <1>11, SuccessLeaves, DraftlessComesOnce DEF Succeeds, AddedOnce
<1>12. ASSUME NEW s \in sends, Fails(s) PROVE RowsComeOnce' /\ AddedOnce'
  BY <1>3, <1>12, DraftlessComesOnce DEF Fails, AddedOnce
<1>13. ASSUME NEW f \in Fields, OthersSave(f) PROVE RowsComeOnce' /\ AddedOnce'
  <2>1. edits' = edits + 1 /\ UNCHANGED <<draft, sends, rows>>
    BY <1>13 DEF OthersSave, Fresh
  <2>2. edits <= edits'
    BY <1>3, <2>1
  <2>3. QED
    BY <1>3, <2>1, <2>2, DraftlessComesOnce DEF AddedOnce
<1>14. CASE Refetch
  <2>1. draft' = draft
    BY <1>1, <1>14, RefetchLeaves
  <2>2. QED
    BY <1>4, <1>14, <2>1 DEF Refetch
<1>15. CASE UNCHANGED vars
  BY <1>4, <1>15 DEF vars
<1>16. QED
  BY <1>5, <1>6, <1>7, <1>8, <1>9, <1>10, <1>11, <1>12, <1>13, <1>14, <1>15 DEF Next

\* What is keyed is there once however often it lands.
LEMMA KeyedComesOnce ==
  ASSUME Base, habit.sends # "row", AddedOnce, [Next]_vars PROVE AddedOnce'
<1>1. rows \in [1 .. MaxEdits -> 0 .. 2]
  BY BaseParts DEF StateOK
<1>2. ASSUME NEW s \in sends, Lands(s) PROVE AddedOnce'
  <2>1. rows' = rows \/ rows' = [rows EXCEPT ![s.edit] = 1]
    BY <1>2 DEF Lands, Added
  <2>2. \A e \in 1 .. MaxEdits : rows'[e] = rows[e] \/ rows'[e] = 1
    BY <1>1, <2>1
  <2>3. QED
    BY <2>2 DEF AddedOnce
<1>3. CASE rows' = rows
  BY <1>3 DEF AddedOnce
<1>4. CASE ~ \E s \in sends : Lands(s)
  <2>1. rows' = rows
    BY <1>4 DEF Next, vars, Open, Cancel, Refetch, Press, Type, Choose, Succeeds, Fails, OthersSave
  <2>2. QED
    BY <1>3, <2>1
<1>5. QED
  BY <1>2, <1>4

LEMMA AddInvStep == Base /\ Base' /\ AddInv /\ [Next]_vars => AddInv'
<1> SUFFICES ASSUME Base, Base', AddInv, [Next]_vars PROVE AddInv'
  OBVIOUS
<1>1. form' = form /\ habit' = habit
  BY FormStays
<1>2. CASE form \notin AddsAgain /\ habit.sends = "row"
  BY <1>1, <1>2, RowsComeOnceStep DEF AddInv
<1>3. CASE form \notin AddsAgain /\ habit.sends # "row"
  BY <1>1, <1>3, KeyedComesOnce DEF AddInv
<1>4. CASE form \in AddsAgain
  BY <1>1, <1>4 DEF AddInv, AddsAgain
<1>5. QED
  BY <1>2, <1>3, <1>4

-----------------------------------------------------------------------------
(* What is typed stays.                                                    *)

\* An officer who goes on is at risk only where a success empties the form.
DraftIsKept ==
  /\ habit.gives = "keeps" /\ habit.fill \in {"blank", "mounted", "opened"}
  /\ habit.then = "keeps" \/ patient

LEMMA DraftHoldsStep ==
  ASSUME Base, DraftIsKept, DraftHolds, [Next]_vars PROVE DraftHolds'
<1>1. StateOK /\ sends \subseteq Request /\ AtMostOne
  BY BaseParts DEF SendsOK
<1>2. /\ form' = form /\ patient' = patient /\ habit' = habit
      /\ draft \in Values /\ unsent \in Values
  BY <1>1, FormStays DEF StateOK
<1>3. CASE Open \/ Cancel
  <2>1. \A f \in Fields : unsent'[f] = 0
    BY <1>3, NothingIsAValue DEF Open, Cancel
  <2>2. QED
    BY <2>1 DEF DraftHolds
<1>4. ASSUME NEW f \in Fields, Type(f) PROVE DraftHolds'
  <2>1. \A g \in Fields : /\ draft'[g] = IF g = f THEN Fresh ELSE draft[g]
                          /\ unsent'[g] = IF g = f THEN Fresh ELSE unsent[g]
    BY <1>2, <1>4 DEF Type, Values
  <2>2. open' /\ sends' = sends /\ (patient => sends = {})
    BY <1>4 DEF Type, MayTouch
  <2>3. QED
    BY <1>2, <2>1, <2>2 DEF DraftHolds
<1>5. CASE Press
  <2>1. PICK r \in Request :
          Sent(r) /\ r.own = Typed /\ \A f \in Typed : r.val[f] = draft[f] /\ draft[f] # 0
    BY <1>1, <1>5, PressSends
  <2>2. open' /\ UNCHANGED <<draft, unsent>>
    BY <1>5 DEF Press, DraftIsKept
  <2>3. \A f \in Fields : unsent[f] # 0 => f \in Typed /\ draft[f] = unsent[f]
    BY DEF DraftHolds, Typed
  <2>4. patient => sends' = {r}
    BY <2>1 DEF Sent
  <2>5. QED
    BY <1>2, <2>1, <2>2, <2>3, <2>4 DEF DraftHolds
<1>6. ASSUME NEW s \in sends, Lands(s) PROVE DraftHolds'
  <2>1. UNCHANGED <<draft, unsent, open>>
    BY <1>6 DEF Lands
  <2>2. \A t \in sends' : \E u \in sends : t.own = u.own /\ t.val = u.val
    BY <1>1, <1>6 DEF Lands, Request
  <2>3. QED
    BY <1>2, <2>1, <2>2 DEF DraftHolds
<1>7. ASSUME NEW s \in sends, Succeeds(s) PROVE DraftHolds'
  <2>1. \A f \in Fields : unsent'[f] # 0 =>
          unsent'[f] = unsent[f] /\ (f \in s.own => s.val[f] # unsent[f])
    BY <1>7, SuccessLeaves
  <2>2. sends' \subseteq sends
    BY <1>7 DEF Succeeds
  <2>3. CASE patient
    <3>1. \A f \in Fields : unsent'[f] = 0
      BY <2>1, <2>3 DEF DraftHolds
    <3>2. QED
      BY <3>1 DEF DraftHolds
  <2>4. CASE ~ patient
    <3>1. habit.then = "keeps"
      BY <2>4 DEF DraftIsKept
    <3>2. draft' = draft /\ open' = open
      BY <1>1, <1>7, <3>1 DEF Succeeds, StateOK
    <3>3. QED
      BY <1>2, <2>1, <2>4, <3>2 DEF DraftHolds
  <2>5. QED
    BY <2>3, <2>4
<1>8. ASSUME NEW s \in sends, Fails(s) PROVE DraftHolds'
  BY <1>2, <1>8 DEF Fails, DraftHolds
<1>9. CASE Refetch
  <2>1. draft' = draft
    BY <1>9, RefetchLeaves DEF DraftIsKept
  <2>2. QED
    BY <1>2, <1>9, <2>1 DEF Refetch, DraftHolds
<1>10. CASE UNCHANGED vars \/ \E f \in Fields : OthersSave(f)
  <2>1. UNCHANGED <<draft, unsent, open, sends>>
    BY <1>10 DEF vars, OthersSave
  <2>2. QED
    BY <1>2, <2>1 DEF DraftHolds
<1>11. \A f \in Fields : ~ Choose(f)
  BY DEF Choose, DraftIsKept
<1>12. QED
  BY <1>3, <1>4, <1>5, <1>6, <1>7, <1>8, <1>9, <1>10, <1>11 DEF Next

LEMMA TypingInvStep == Base /\ TypingInv /\ [Next]_vars => TypingInv'
<1> SUFFICES ASSUME Base, TypingInv, [Next]_vars PROVE TypingInv'
  OBVIOUS
<1>1. form' = form /\ patient' = patient /\ habit' = habit
  BY FormStays
<1>2. CASE form \in ForgetsTyping \/ (~ patient /\ form \in ForgetsHaste) \/ habit.fill = "shown"
  BY <1>1, <1>2 DEF TypingInv, ForgetsTyping, ForgetsHaste
<1>3. CASE ~ (form \in ForgetsTyping \/ (~ patient /\ form \in ForgetsHaste) \/ habit.fill = "shown")
  <2>1. DraftIsKept /\ DraftHolds
    BY <1>3, BaseParts, HabitOfForm DEF StateOK, KeepsDrafts, DraftIsKept, TypingInv
  <2>2. QED
    BY <2>1, DraftHoldsStep DEF TypingInv
<1>4. QED
  BY <1>2, <1>3

-----------------------------------------------------------------------------
(* The last word stands.                                                   *)

\* The habits of the forms that keep it.
Careful ==
  /\ patient \/ habit.bars # "free"
  /\ \/ habit.sends = "typed" \/ StaysAsItIs(habit)
     \/ patient /\ \E n \in Forms : OpensAfterReading(n, habit)

LEMMA CarefulForms ==
  ASSUME Base, Careful
  PROVE  /\ \A s, t \in sends : s = t
         /\ ~ Adds /\ habit.sends \in {"typed", "all"}
         /\ habit.sends = "all" =>
              \/ /\ habit.fill = "mounted" /\ habit.gives = "keeps" /\ habit.then = "keeps"
              \/ /\ habit.fill = "opened" /\ patient /\ habit.bars = "reading"
                 /\ habit.gives # "empties" /\ habit.then \in {"keeps", "closes"}
BY BaseParts DEF SendsOK, AtMostOne, Careful, StaysAsItIs, OpensAfterReading, Adds

\* What a request does not change of an own last word.
Words == \A f \in Fields : last[f] # 0 /\ Settled(f) => saved[f] = last[f]
Sendings ==
  \A s \in sends : s.own \subseteq s.fields /\ \A f \in s.fields : last[f] # 0 => s.val[f] = last[f]
Drafts == habit.sends = "all" => \A f \in Fields : open /\ last[f] # 0 => draft[f] = last[f] \/ f \in Typed
Answers ==
  habit.sends = "all" /\ habit.fill = "opened" =>
    \A f \in Fields : ~ asked /\ last[f] # 0 /\ Untouched(f) => answer[f] = last[f]

LEMMA WordParts ==
  /\ CarriesLastWords <=> Words /\ Sendings /\ Drafts /\ Answers
  /\ CarriesLastWords' <=> Words' /\ Sendings' /\ Drafts' /\ Answers'
BY Zenon DEF CarriesLastWords, Words, Sendings, Drafts, Answers

LEMMA WordsStay ==
  ASSUME Words, Sendings, UNCHANGED <<last, sends, saved>> PROVE Words' /\ Sendings'
BY DEF Words, Sendings, Settled

LEMMA AnswersStay ==
  ASSUME Answers, UNCHANGED <<last, sends, answer, asked, form>> PROVE Answers'
BY DEF Answers, Untouched, habit

\* A request goes out when no other is out.
LEMMA SendKeepsWords ==
  ASSUME Base, Careful, Words, NEW r \in Request, Sent(r), UNCHANGED <<form, saved>>,
         habit.sends = "all" => \A f \in Fields \ r.own : last[f] # 0 => r.val[f] = last[f]
  PROVE  Words' /\ Sendings' /\ sends = {} /\ sends' = {r}
<1>1. ~ Adds /\ sends = {} /\ sends' = {r} /\ r.was = "out"
  BY CarefulForms DEF Sent, Barred, Careful
<1>2. \A f \in Fields : last'[f] = IF f \in r.own THEN r.val[f] ELSE last[f]
  BY <1>1 DEF Sent
<1>3. \A f \in Fields : last[f] # 0 => saved[f] = last[f]
  BY <1>1 DEF Words, Settled
<1>4. Words'
  BY <1>1, <1>2, <1>3 DEF Words, Settled
<1>5. r.fields = IF habit.sends = "all" THEN Fields ELSE r.own
  BY CarefulForms DEF Sent, Writes
<1>6. r.own \subseteq Fields
  BY DEF Request
<1>7. Sendings'
  BY <1>1, <1>2, <1>5, <1>6 DEF Sendings
<1>8. QED
  BY <1>1, <1>4, <1>7

LEMMA OfficerKeepsWords ==
  ASSUME Base, Careful, Words, Sendings, Drafts, Answers,
         Open \/ Cancel \/ \E f \in Fields : Type(f)
  PROVE  Words' /\ Sendings' /\ Drafts' /\ Answers'
<1>1. StateOK /\ habit' = habit
  BY BaseParts DEF Open, Cancel, Type, habit
<1>2. UNCHANGED <<last, sends, saved, answer, asked, form>>
  BY DEF Open, Cancel, Type
<1>3. Words' /\ Sendings' /\ Answers'
  BY <1>2, WordsStay, AnswersStay
<1>4. CASE Open
  <2>1. SUFFICES ASSUME habit.sends = "all" PROVE Drafts'
    BY <1>1, <1>3 DEF Drafts
  <2>2. sends = {} /\ ~ asked /\ habit.fill = "opened" /\ draft' = answer
    BY <1>4, <2>1, CarefulForms DEF Open, MayTouch, Filled
  <2>3. \A f \in Fields : last[f] # 0 => answer[f] = last[f]
    BY <2>1, <2>2 DEF Answers, Untouched
  <2>4. QED
    BY <1>2, <2>2, <2>3 DEF Drafts
<1>5. CASE Cancel
  BY <1>3, <1>5 DEF Cancel, Drafts
<1>6. ASSUME NEW f \in Fields, Type(f) PROVE Drafts'
  <2>1. \A g \in Fields : /\ draft'[g] = IF g = f THEN Fresh ELSE draft[g]
                          /\ unsent'[g] = IF g = f THEN Fresh ELSE unsent[g]
    BY <1>1, <1>6 DEF Type, StateOK, Values
  <2>2. Fresh # 0
    BY <1>1, <1>6, FreshIsAnEdit DEF Type
  <2>3. \A g \in Fields : g # f => (g \in Typed' <=> g \in Typed)
    BY <2>1 DEF Typed
  <2>4. f \in Typed' /\ open /\ open' = open
    BY <1>6, <2>1, <2>2 DEF Typed, Type
  <2>5. QED
    BY <1>1, <1>2, <2>1, <2>3, <2>4 DEF Drafts
<1>7. QED
  BY <1>3, <1>4, <1>5, <1>6

LEMMA PressKeepsWords ==
  ASSUME Base, Careful, Words, Sendings, Drafts, Answers, Press
  PROVE  Words' /\ Sendings' /\ Drafts' /\ Answers'
<1>1. StateOK /\ habit' = habit
  BY BaseParts DEF Press, habit
<1>2. ~ Adds /\ habit.sends \in {"typed", "all"}
  BY CarefulForms
<1>3. PICK r \in Request :
        /\ Sent(r) /\ r.own = Typed
        /\ \A f \in Typed : r.val[f] = draft[f] /\ draft[f] # 0
        /\ habit.sends # "merged" => \A f \in Fields : r.val[f] = draft[f]
  BY <1>1, PressSends
<1>4. /\ draft' = (IF habit.gives = "keeps" THEN draft ELSE Nothing)
      /\ open' = (habit.gives # "closes") /\ open
      /\ UNCHANGED <<form, patient, saved, rows, answer, unsent, asked, edits>>
  BY DEF Press
<1>5. habit.sends = "all" => \A f \in Fields \ r.own : last[f] # 0 => r.val[f] = last[f]
  BY <1>2, <1>3, <1>4 DEF Drafts
<1>6. Words' /\ Sendings' /\ sends = {} /\ sends' = {r}
  BY <1>3, <1>4, <1>5, SendKeepsWords
<1>7. \A f \in Fields : last'[f] = IF f \in r.own THEN r.val[f] ELSE last[f]
  BY <1>2, <1>3 DEF Sent
<1>8. Drafts'
  <2>1. CASE habit.sends = "all" /\ open'
    <3>1. habit.gives = "keeps"
      BY <1>1, <1>4, <2>1, CarefulForms, HabitOfForm DEF StateOK, HabitKinds
    <3>2. draft' = draft /\ Typed' = Typed
      BY <1>4, <3>1 DEF Typed
    <3>3. QED
      BY <1>3, <1>4, <1>7, <2>1, <3>2 DEF Drafts
  <2>2. CASE ~ (habit.sends = "all" /\ open')
    BY <1>1, <2>2 DEF Drafts
  <2>3. QED
    BY <2>1, <2>2
<1>9. Answers'
  BY <1>1, <1>4, <1>6, <1>7 DEF Answers, Untouched
<1>10. QED
  BY <1>6, <1>8, <1>9

LEMMA ChooseKeepsWords ==
  ASSUME Base, Careful, Words, NEW f \in Fields, Choose(f)
  PROVE  Words' /\ Sendings' /\ Drafts' /\ Answers'
<1>1. StateOK /\ habit' = habit
  BY BaseParts DEF Choose, habit
<1>2. habit.sends # "all"
  BY CarefulForms DEF Choose
<1>3. PICK r \in Request : Sent(r)
  BY <1>1, ChooseSends
<1>4. UNCHANGED <<form, saved>>
  BY DEF Choose
<1>5. Words' /\ Sendings'
  BY <1>2, <1>3, <1>4, SendKeepsWords
<1>6. QED
  BY <1>1, <1>2, <1>5 DEF Drafts, Answers

LEMMA LandsKeepsWords ==
  ASSUME Base, Careful, Words, Sendings, Drafts, Answers, NEW s \in sends, Lands(s)
  PROVE  Words' /\ Sendings' /\ Drafts' /\ Answers'
<1>1. sends \subseteq Request /\ habit' = habit /\ sends = {s}
  BY BaseParts, CarefulForms DEF SendsOK, Lands, habit
<1>2. PICK r \in Request : r = [s EXCEPT !.was = "written"]
  BY <1>1 DEF Request
<1>3. /\ r.own = s.own /\ r.fields = s.fields /\ r.val = s.val /\ r.was = "written"
      /\ sends' = {r}
  BY <1>1, <1>2 DEF Lands, Request
<1>4. UNCHANGED <<form, answer, open, draft, unsent, asked, last>> /\ saved' = Written(s)
  BY DEF Lands
<1>5. \A f \in Fields : saved'[f] = IF f \in s.fields THEN s.val[f] ELSE saved[f]
  BY <1>4 DEF Written
<1>6. Words'
  <2>1. ASSUME NEW f \in Fields, last[f] # 0 PROVE saved'[f] = last[f]
    <3>1. CASE f \in s.fields
      BY <1>5, <2>1, <3>1 DEF Sendings
    <3>2. CASE f \notin s.fields
      <4>1. f \notin s.own
        BY <3>2 DEF Sendings
      <4>2. saved[f] = last[f]
        BY <1>1, <2>1, <4>1 DEF Words, Settled
      <4>3. QED
        BY <1>5, <3>2, <4>2
    <3>3. QED
      BY <3>1, <3>2
  <2>2. QED
    BY <1>4, <2>1 DEF Words
<1>7. Sendings'
  BY <1>3, <1>4 DEF Sendings
<1>8. Drafts'
  BY <1>1, <1>4 DEF Drafts, Typed
<1>9. Answers'
  BY <1>1, <1>3, <1>4 DEF Answers, Untouched
<1>10. QED
  BY <1>6, <1>7, <1>8, <1>9

LEMMA SucceedsKeepsWords ==
  ASSUME Base, Careful, Words, Sendings, Drafts, NEW s \in sends, Succeeds(s)
  PROVE  Words' /\ Sendings' /\ Drafts' /\ Answers'
<1>1. StateOK /\ habit' = habit /\ sends = {s} /\ sends' = {}
  BY BaseParts, CarefulForms DEF Succeeds, habit
<1>2. /\ s.was = "written" /\ open' = (open /\ habit.then # "closes")
      /\ asked' = (habit.bars = "reading") /\ unsent' = Without(s, unsent)
      /\ UNCHANGED <<form, saved, answer, last>>
  BY DEF Succeeds
<1>3. Words' /\ Sendings'
  BY <1>1, <1>2 DEF Words, Sendings, Settled
<1>4. Answers'
  BY <1>1, <1>2, CarefulForms DEF Answers
<1>5. CASE habit.sends = "all" /\ open'
  <2>1. habit.then = "keeps"
    BY <1>2, <1>5, CarefulForms
  <2>2. draft' = draft /\ open
    BY <1>2, <1>5, <2>1 DEF Succeeds
  <2>3. ASSUME NEW f \in Fields, last[f] # 0 PROVE draft'[f] = last[f] \/ f \in Typed'
    <3>1. CASE draft[f] = last[f]
      BY <2>2, <3>1
    <3>2. CASE f \in Typed /\ ~ (f \in s.own /\ unsent[f] = s.val[f])
      BY <1>2, <2>2, <3>2 DEF Typed, Without
    <3>3. CASE f \in Typed /\ f \in s.own /\ unsent[f] = s.val[f]
      <4>1. s.val[f] = last[f]
        BY <2>3, <3>3 DEF Sendings
      <4>2. QED
        BY <2>2, <3>3, <4>1 DEF Typed
    <3>4. QED
      BY <1>5, <2>2, <2>3, <3>1, <3>2, <3>3 DEF Drafts
  <2>4. QED
    BY <1>2, <1>3, <1>4, <2>3 DEF Drafts
<1>6. CASE ~ (habit.sends = "all" /\ open')
  BY <1>1, <1>3, <1>4, <1>6 DEF Drafts
<1>7. QED
  BY <1>5, <1>6

LEMMA FailsKeepsWords ==
  ASSUME Base, Careful, Words, Sendings, Drafts, Answers, NEW s \in sends, Fails(s)
  PROVE  Words' /\ Sendings' /\ Drafts' /\ Answers'
<1>1. habit' = habit /\ sends = {s} /\ sends' = {}
  BY CarefulForms DEF Fails, habit
<1>2. UNCHANGED <<saved, answer, open, draft, unsent, asked>> /\ last' = Without(s, last)
  BY DEF Fails
<1>3. ASSUME NEW f \in Fields, last'[f] # 0 PROVE last'[f] = last[f] /\ f \notin s.own
  <2>1. last'[f] = last[f] /\ ~ (f \in s.own /\ last[f] = s.val[f])
    BY <1>2, <1>3 DEF Without
  <2>2. f \in s.own => s.val[f] = last[f]
    BY <1>3, <2>1 DEF Sendings
  <2>3. QED
    BY <2>1, <2>2
<1>4. Words'
  BY <1>1, <1>2, <1>3 DEF Words, Settled
<1>5. Sendings'
  BY <1>1 DEF Sendings
<1>6. Drafts'
  BY <1>1, <1>2, <1>3 DEF Drafts, Typed
<1>7. Answers'
  BY <1>1, <1>2, <1>3 DEF Answers, Untouched
<1>8. QED
  BY <1>4, <1>5, <1>6, <1>7

LEMMA OthersSaveKeepsWords ==
  ASSUME Base, Words, Sendings, Drafts, Answers, NEW f \in Fields, OthersSave(f)
  PROVE  Words' /\ Sendings' /\ Drafts' /\ Answers'
<1>1. StateOK /\ habit' = habit /\ UNCHANGED <<answer, open, draft, unsent, sends, asked>>
  BY BaseParts DEF OthersSave, habit
<1>2. \A g \in Fields : last'[g] # 0 => g # f /\ last'[g] = last[g] /\ saved'[g] = saved[g]
  BY <1>1 DEF OthersSave, StateOK, Values
<1>3. Words'
  BY <1>1, <1>2 DEF Words, Settled
<1>4. Sendings'
  <2>1. \A s \in sends : s.fields \subseteq Fields
    BY BaseParts DEF SendsOK, Request
  <2>2. QED
    BY <1>1, <1>2, <2>1 DEF Sendings
<1>5. Drafts'
  BY <1>1, <1>2 DEF Drafts, Typed
<1>6. Answers'
  BY <1>1, <1>2 DEF Answers, Untouched
<1>7. QED
  BY <1>3, <1>4, <1>5, <1>6

LEMMA RefetchKeepsWords ==
  ASSUME Base, Careful, Words, Sendings, Drafts, Refetch
  PROVE  Words' /\ Sendings' /\ Drafts' /\ Answers'
<1>1. habit' = habit /\ UNCHANGED <<saved, open, unsent, sends, last>> /\ answer' = saved
  BY DEF Refetch, habit
<1>2. Words' /\ Sendings'
  BY <1>1, WordsStay
<1>3. Answers'
  BY <1>1 DEF Words, Answers, Settled, Untouched
<1>4. Drafts'
  <2>1. CASE habit.sends = "all"
    <3>1. draft' = draft
      BY <2>1, CarefulForms, RefetchLeaves
    <3>2. QED
      BY <1>1, <3>1 DEF Drafts, Typed
  <2>2. CASE habit.sends # "all"
    BY <1>1, <2>2 DEF Drafts
  <2>3. QED
    BY <2>1, <2>2
<1>5. QED
  BY <1>2, <1>3, <1>4

LEMMA LastWordsStep ==
  ASSUME Base, Careful, CarriesLastWords, [Next]_vars PROVE CarriesLastWords'
<1>1. Words /\ Sendings /\ Drafts /\ Answers
  BY WordParts
<1>2. CASE UNCHANGED vars
  <2>1. UNCHANGED <<last, sends, saved, answer, asked, form, open, draft, unsent>>
    BY <1>2 DEF vars
  <2>2. Words' /\ Sendings' /\ Answers'
    BY <1>1, <2>1, WordsStay, AnswersStay
  <2>3. Drafts'
    BY <1>1, <2>1 DEF Drafts, Typed, habit
  <2>4. QED
    BY <2>2, <2>3, WordParts
<1>3. CASE Open \/ Cancel \/ \E f \in Fields : Type(f)
  BY <1>1, <1>3, OfficerKeepsWords, WordParts
<1>4. CASE Press
  BY <1>1, <1>4, PressKeepsWords, WordParts
<1>5. CASE \E f \in Fields : Choose(f)
  BY <1>1, <1>5, ChooseKeepsWords, WordParts
<1>6. CASE \E s \in sends : Lands(s)
  BY <1>1, <1>6, LandsKeepsWords, WordParts
<1>7. CASE \E s \in sends : Succeeds(s)
  BY <1>1, <1>7, SucceedsKeepsWords, WordParts
<1>8. CASE \E s \in sends : Fails(s)
  BY <1>1, <1>8, FailsKeepsWords, WordParts
<1>9. CASE \E f \in Fields : OthersSave(f)
  BY <1>1, <1>9, OthersSaveKeepsWords, WordParts
<1>10. CASE Refetch
  BY <1>1, <1>10, RefetchKeepsWords, WordParts
<1>11. QED
  BY <1>2, <1>3, <1>4, <1>5, <1>6, <1>7, <1>8, <1>9, <1>10 DEF Next

\* A form that only adds has no last word.
LEMMA AddsNoWord ==
  ASSUME Base, Adds, last = Nothing, [Next]_vars PROVE last' = Nothing
<1>1. StateOK
  BY BaseParts
<1>2. CASE Press
  BY <1>1, <1>2, PressSends DEF Sent
<1>3. ASSUME NEW f \in Fields, Choose(f) PROVE last' = Nothing
  BY <1>1, <1>3, ChooseSends DEF Sent
<1>4. ASSUME NEW s \in sends, Fails(s) PROVE last' = Nothing
  <2>1. last' = Without(s, last) /\ last \in Values
    BY <1>1, <1>4 DEF Fails, StateOK
  <2>2. last' \in Values /\ \A f \in Fields : last'[f] = 0
    BY <2>1, WithoutIsAValue, NothingIsAValue
  <2>3. QED
    BY <2>2, NothingIsAValue, ValuesAreEqual
<1>5. ASSUME NEW f \in Fields, OthersSave(f) PROVE last' = Nothing
  BY <1>5 DEF OthersSave, Nothing
<1>6. CASE Open \/ Cancel \/ Refetch \/ UNCHANGED vars
  BY <1>6 DEF Open, Cancel, Refetch, vars
<1>7. ASSUME NEW f \in Fields, Type(f) PROVE last' = Nothing
  BY <1>7 DEF Type
<1>8. ASSUME NEW s \in sends, Lands(s) \/ Succeeds(s) PROVE last' = Nothing
  BY <1>8 DEF Lands, Succeeds
<1>9. QED
  BY <1>2, <1>3, <1>4, <1>5, <1>6, <1>7, <1>8 DEF Next

LEMMA LastInvStep == Base /\ LastInv /\ [Next]_vars => LastInv'
<1> SUFFICES ASSUME Base, LastInv, [Next]_vars PROVE LastInv'
  OBVIOUS
<1>1. form' = form /\ patient' = patient /\ habit' = habit
  BY FormStays
<1>2. CASE form \in RevertsItself \/ (~ patient /\ form \in RevertsInHaste)
  BY <1>1, <1>2 DEF LastInv, RevertsItself, RevertsInHaste
<1>3. ASSUME ~ (form \in RevertsItself \/ (~ patient /\ form \in RevertsInHaste))
      PROVE  IF Adds' THEN last' = Nothing ELSE CarriesLastWords'
  <2>1. CASE Adds
    BY <1>1, <1>3, <2>1, AddsNoWord DEF LastInv, Adds
  <2>2. CASE ~ Adds
    <3>1. Careful
      BY <1>3, <2>2, BaseParts, HabitOfForm
         DEF StateOK, KeepsWords, OneAtATime, StaysAsItIs, OpensAfterReading, Careful, Adds
    <3>2. CarriesLastWords' /\ ~ Adds'
      BY <1>1, <1>3, <2>2, <3>1, LastWordsStep DEF LastInv, Adds
    <3>3. QED
      BY <3>2
  <2>3. QED
    BY <2>1, <2>2
<1>4. QED
  BY <1>2, <1>3 DEF LastInv

-----------------------------------------------------------------------------
(* The theorems.                                                           *)

LEMMA FormInvInit == Init => FormInv
<1> SUFFICES ASSUME Init PROVE FormInv
  OBVIOUS
<1>1. Base
  BY BaseInit
<1>2. sends = {} /\ rows = [e \in 1 .. MaxEdits |-> 0] /\ edits = 0
  BY DEF Init
<1>3. \A f \in Fields : draft[f] = 0 /\ unsent[f] = 0 /\ last[f] = 0
  BY NothingIsAValue DEF Init
<1>4. WritesItsOwn
  BY <1>2 DEF WritesItsOwn
<1>5. AddInv
  BY <1>2, <1>3 DEF AddInv, RowsComeOnce, AddedOnce
<1>6. TypingInv
  BY <1>2, <1>3 DEF TypingInv, DraftHolds
<1>7. LastInv
  <2>1. CarriesLastWords /\ last = Nothing
    BY <1>2, <1>3 DEF CarriesLastWords, Init
  <2>2. QED
    BY <2>1 DEF LastInv
<1>8. QED
  BY <1>1, <1>4, <1>5, <1>6, <1>7 DEF FormInv

LEMMA FormInvAlways == Spec => []FormInv
<1>1. FormInv /\ [Next]_vars => FormInv'
  BY BaseStep, WritesItsOwnStep, AddInvStep, TypingInvStep, LastInvStep DEF FormInv
<1>2. QED
  BY FormInvInit, <1>1, PTL DEF Spec

\* Whatever is out, refused or read late, the officer's last word on a field
\* stands, in every form but those that are named (RosterTable, MembersSetting
\* and the other forms).
THEOREM LastWordsStand == Spec => []LastWordIsKept
<1>1. FormInv => LastWordIsKept
  <2> SUFFICES ASSUME FormInv PROVE LastWordIsKept
    OBVIOUS
  <2>1. TypeOK
    BY DEF FormInv, Base
  <2>2. ASSUME ~ (form \in RevertsItself \/ (~ patient /\ form \in RevertsInHaste))
        PROVE  LastWordStands
    <3>1. CASE Adds
      <4>1. \A f \in Fields : last[f] = 0
        BY <2>2, <3>1, NothingIsAValue DEF FormInv, LastInv
      <4>2. QED
        BY <4>1 DEF LastWordStands
    <3>2. CASE ~ Adds
      BY <2>2, <3>2 DEF FormInv, LastInv, CarriesLastWords, Settled, LastWordStands
    <3>3. QED
      BY <3>1, <3>2
  <2>3. QED
    BY <2>1, <2>2 DEF LastWordIsKept
<1>2. QED
  BY <1>1, FormInvAlways, PTL

\* Neither a new answer nor a success nor a refusal takes away what is typed,
\* in every form but those that are named (EventRow, NameInput and the others).
THEOREM TypingStays == Spec => []TypingIsKept
<1>1. FormInv => TypingIsKept
  <2> SUFFICES ASSUME FormInv, ~ (form \in ForgetsTyping \/ (~ patient /\ form \in ForgetsHaste))
               PROVE  TypingIsThere
    BY DEF TypingIsKept
  <2>1. CASE habit.fill = "shown"
    <3>1. unsent = Nothing
      BY <2>1 DEF FormInv, Base, NoDraftIfShown
    <3>2. QED
      BY <3>1, NothingIsAValue DEF TypingIsThere
  <2>2. CASE habit.fill # "shown"
    BY <2>2 DEF FormInv, TypingInv, DraftHolds, TypingIsThere
  <2>3. QED
    BY <2>1, <2>2
<1>2. QED
  BY <1>1, FormInvAlways, PTL

\* Pressing again after a lost answer adds no second row, where the form is
\* emptied as it is sent or the row has a key (Comments, SaveChannel and others).
THEOREM RowsAreAddedOnce == Spec => []NothingAddedTwice
<1>1. FormInv => NothingAddedTwice
  BY DEF FormInv, AddInv, NothingAddedTwice
<1>2. QED
  BY <1>1, FormInvAlways, PTL

\* A form that sends what was typed, and not all it shows, never writes over
\* what another officer saved (TabVisibilitySetting, SetRole and others).
THEOREM SavesKeepToTheirOwn == Spec => OthersSavesStay
<1>1. FormInv /\ [Next]_vars => [OnlyOwnFieldsChange \/ form \in SavesUntouched]_vars
  BY SavesOwnFields DEF FormInv
<1>2. QED
  BY <1>1, FormInvAlways, PTL DEF Spec, OthersSavesStay
===============================================================================
