------------------------------- MODULE MCForms -------------------------------
(***************************************************************************)
(* Every form of the dashboard, with an officer who waits for what is out  *)
(* or does not, and another one who saves as well.  The sets name the      *)
(* forms that do not keep a promise; all others keep it.                   *)
(***************************************************************************)
EXTENDS DashboardForms

MCFormNames == DOMAIN AllForms

ASSUME TheForms == Forms \subseteq MCFormNames /\ Habits = AllForms

\* An answer from before the own last save is saved again with the next one.
RevertsItself ==
  {"RankTiersSetting", "OverviewMetricsSetting", "TableLayoutSetting",
   "SeasonBuildingAlertSetting", "BuildingRow", "ParticipationBarsSetting",
   "FormulaSetting", "RemoveFormula", "SaveRouting", "OwnAllianceSetting",
   "PinAnotherAlliance", "HeroesSetting", "PetsSetting", "EventName",
   "InlineValue", "NoticePostPage", "GuidePostPage", "EditComment", "ValueRow",
   "PackRename", "CandidateColumnCell"}

\* Likewise, but only when the officer goes on while a request is out: requests
\* overtake each other, or the form is opened before what was saved is read.
RevertsInHaste ==
  {"AllianceRequestForm", "ToggleChannel", "RemoveChannel", "RankBadge",
   "MemberTable", "CandidateRow", "ScheduleEntry", "ScheduleBoards",
   "PlannerAccount", "RenameTab", "UpdateColumn"}

\* A new answer replaces what is being typed, or a refusal finds the form emptied.
ForgetsTyping ==
  {"RankTiersSetting", "OverviewMetricsSetting", "TableLayoutSetting",
   "SeasonBuildingAlertSetting", "BuildingRow", "ParticipationBarsSetting",
   "NewSeason", "ManualBuilding", "Comments", "Reply", "EditComment",
   "CandidateColumnCell", "AddColumn", "UpdateColumn"}

\* What is typed while a request is out goes when that succeeds.
ForgetsHaste ==
  {"FormulaSetting", "IssueCode", "NewFormation", "JoinCodeForm",
   "PlayerClaimForm", "SaveChannel", "AddHero", "AddPet", "EventsSetting",
   "PasswordForm", "EmailForm", "ManualScoresSetting", "AttendanceRecorder",
   "GiftKeyForm", "HeroesSetting", "PetsSetting", "EventName", "InlineValue",
   "NoticesPanel", "NoticePostPage", "GuidesPanel", "GuidePostPage",
   "ScheduleEntry", "NewScheduleEntry", "ScheduleBoards", "PlannerAccount",
   "RenameTab", "ValueRow", "PackRename", "AddGiftCode", "AddGiftIds",
   "AddCandidates"}

\* Rows without a key: pressed again after a lost answer, there are two.
AddsAgain ==
  {"IssueCode", "NewFormation", "NoticesPanel", "GuidesPanel",
   "NewScheduleEntry", "AddCandidates", "AddColumn"}

\* The whole of what the page had is saved, over what others saved since.
SavesUntouched ==
  {"RankTiersSetting", "OverviewMetricsSetting", "TableLayoutSetting",
   "SeasonBuildingAlertSetting", "BuildingRow", "ParticipationBarsSetting",
   "FormulaSetting", "RemoveFormula", "SaveRouting", "OwnAllianceSetting",
   "PinAnotherAlliance", "HeroesSetting", "PetsSetting", "EventName",
   "InlineValue", "EventRow", "SeasonRow", "NoticePostPage", "GuidePostPage",
   "EditComment", "ScheduleEntry", "ScheduleBoards", "PlannerAccount",
   "ValueRow", "PackRename", "CandidateColumnCell", "UpdateColumn",
   "MigrationEventForm"}

\* The officer's last word on a field stands (MembersSetting, RosterTable,
\* FormulaSetting and the other forms), whatever was out, refused or read late;
\* and every form is well typed.
LastWordIsKept ==
  /\ TypeOK
  /\ form \in RevertsItself \/ (~ patient /\ form \in RevertsInHaste) \/ LastWordStands

\* What was typed does not vanish from a form (PostComments, RankTiersSetting
\* and the other forms) before it is accepted or given up.
TypingIsKept ==
  form \in ForgetsTyping \/ (~ patient /\ form \in ForgetsHaste) \/ TypingIsThere

\* Pressing again after a lost answer adds nothing twice (join codes, notices,
\* candidates and the other lists that are added to).
NothingAddedTwice == form \in AddsAgain \/ AddedOnce

\* A save changes nothing that the officer did not change: what another officer
\* saved since the page was read stays (settings, editors, lists in one value).
OthersSavesStay == [][OnlyOwnFieldsChange \/ form \in SavesUntouched]_vars
==============================================================================
