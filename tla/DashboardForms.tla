--------------------------- MODULE DashboardForms ---------------------------
(***************************************************************************)
(* The forms of the dashboard, by their habits (EditForm).  A form that    *)
(* writes several tables, or a list, is one here; a button that sets what  *)
(* the page shows otherwise is a form without a draft.                     *)
(***************************************************************************)
EXTENDS EditForm

\* Where the draft comes from, how it is sent, what that bars, and what a
\* success does to the draft; sending itself leaves it.
Form(fill, sending, bars, then) ==
  [fill |-> fill, sends |-> sending, bars |-> bars, then |-> then, gives |-> "keeps",
   locks |-> FALSE]

Setting == Form("followed", "all", "sending", "keeps")
Switch(sending, bars) == Form("shown", sending, bars, "keeps")
Adding(sending, bars) == Form("blank", sending, bars, "empties")
Editing(bars) == Form("opened", "all", bars, "closes")


-----------------------------------------------------------------------------
(* Settings of the alliance, each a value of its own.                      *)

RankTiersSetting == Setting
OverviewMetricsSetting == Setting
TableLayoutSetting == Setting
SeasonBuildingAlertSetting == Setting
ParticipationBarsSetting == Form("followed", "changed", "sending", "keeps")
FormulaSetting == Adding("merged", "sending")
RemoveFormula == Switch("merged", "free")
OwnAllianceSetting == Switch("merged", "sending")
PinAnotherAlliance == Switch("merged", "sending")
SaveRouting == Switch("merged", "free")

-----------------------------------------------------------------------------
(* Accounts, capabilities and tabs.                                        *)

SetRole == Switch("typed", "sending")
LetIn == Switch("typed", "sending")
Revoke == Switch("typed", "sending")
Decide == Switch("typed", "sending")
SaveMember == Switch("typed", "sending")

\* Mutant: a cell saves the grid.
PermissionGridSetting == Switch("merged", "sending")

PermissionsSetting == Switch("typed", "sending")

\* Mutant: a cell saves the grid.
TabGridSetting == Switch("merged", "sending")

TabVisibilitySetting == Switch("typed", "sending")
IssueCode == Adding("row", "sending")
RevokeCode == Switch("typed", "reading")
LeaveAllianceForm == Switch("typed", "sending")
JoinCodeForm == Adding("keyed", "sending")
PlayerClaimForm == Adding("keyed", "sending")
AllianceRequestForm == Switch("typed", "free")
PasswordForm == Adding("typed", "sending")
EmailForm == Adding("typed", "sending")
GiftKeyForm == Form("blank", "typed", "reading", "clears")

-----------------------------------------------------------------------------
(* Channels, heroes, pets, events and seasons.                             *)

SaveChannel == Adding("keyed", "sending")
ToggleChannel == Switch("typed", "free")
RemoveChannel == Switch("typed", "free")
HeroesSetting == Editing("sending")
AddHero == Adding("keyed", "sending")
PetsSetting == Editing("sending")

\* Mutant: a pet has a number of its own.
AddNumberedPet == Adding("row", "sending")

AddPet == Adding("keyed", "sending")
EventsSetting == Adding("keyed", "sending")

\* Mutant: the row follows the answer.
EventRowFollowing == Form("followed", "all", "sending", "keeps")

EventRow == Form("mounted", "all", "sending", "keeps")
SeasonRow == Form("mounted", "all", "sending", "keeps")
NewSeason == [Form("blank", "keyed", "sending", "keeps") EXCEPT !.gives = "empties"]
BuildingRow == Setting
UnnamedRow == Form("blank", "typed", "sending", "keeps")
ManualBuilding == [Form("blank", "keyed", "sending", "keeps") EXCEPT !.gives = "empties"]
ManualScoresSetting == Adding("typed", "sending")
ManualRosterSetting == Switch("typed", "sending")

-----------------------------------------------------------------------------
(* Boards, comments and the schedule.                                      *)

NoticeEditor(sending) == Form("opened", sending, "sending", "closes")
GuideEditor(sending) == Form("opened", sending, "sending", "closes")
ScheduleEditor(sending) == Form("opened", sending, "reading", "closes")

\* It is emptied when it is sent, whatever becomes of that.
Composer(fill, sending, then) ==
  [Form(fill, sending, "sending", then) EXCEPT !.gives = "empties"]

NoticesPanel == NoticeEditor("row")
NoticePostPage == NoticeEditor("all")
GuidesPanel == GuideEditor("row")
GuidePostPage == GuideEditor("all")
Comments == Composer("blank", "row", "keeps")
Reply == Composer("opened", "row", "closes")
EditComment == Composer("opened", "all", "closes")
ScrapButton == Switch("typed", "sending")
ScheduleEntry == ScheduleEditor("all")
NewScheduleEntry == ScheduleEditor("row")
ScheduleBoards == Editing("reading")
RenameTab == Form("opened", "typed", "free", "closes")
HideTab == Switch("typed", "reading")
EventName == Editing("sending")

-----------------------------------------------------------------------------
(* Members, hives, shops, gifts and migrations.                            *)

RankBadge == Switch("typed", "free")
AttendanceRecorder == Adding("typed", "sending")
DeclareDay == Switch("typed", "sending")
EventScoreboard == Switch("row", "sending")
PlannerAccount == Editing("reading")
OverviewActions == Switch("typed", "reading")
NewFormation == Adding("row", "sending")
InlineValue == Editing("sending")
VariantMark == Switch("typed", "sending")
ValueRow == Form("opened", "changed", "sending", "closes")
PackRename == [Editing("sending") EXCEPT !.locks = TRUE]
NameInput == Form("blank", "typed", "sending", "keeps")
AddGiftCode == Adding("keyed", "reading")
AddGiftIds == Adding("keyed", "reading")
RunnerPanel == Switch("typed", "reading")
CodeRow == Switch("typed", "reading")
MemberTable == Switch("typed", "free")
AddCandidates == Adding("row", "reading")
CandidateRow == Switch("typed", "free")
CandidateColumnCell == Form("celled", "merged", "free", "keeps")
AddColumn == Form("followed", "row", "reading", "keeps")
UpdateColumn == [Form("opened", "all", "reading", "keeps") EXCEPT !.gives = "closes"]
MigrationEventForm == Form("mounted", "all", "reading", "keeps")

-----------------------------------------------------------------------------

AllForms ==
  [RankTiersSetting |-> RankTiersSetting, OverviewMetricsSetting |-> OverviewMetricsSetting,
   TableLayoutSetting |-> TableLayoutSetting,
   SeasonBuildingAlertSetting |-> SeasonBuildingAlertSetting,
   ParticipationBarsSetting |-> ParticipationBarsSetting, FormulaSetting |-> FormulaSetting,
   RemoveFormula |-> RemoveFormula, OwnAllianceSetting |-> OwnAllianceSetting,
   PinAnotherAlliance |-> PinAnotherAlliance, SaveRouting |-> SaveRouting, SetRole |-> SetRole,
   LetIn |-> LetIn, Revoke |-> Revoke, Decide |-> Decide, SaveMember |-> SaveMember,
   PermissionsSetting |-> PermissionsSetting, TabVisibilitySetting |-> TabVisibilitySetting,
   IssueCode |-> IssueCode, RevokeCode |-> RevokeCode, LeaveAllianceForm |-> LeaveAllianceForm,
   JoinCodeForm |-> JoinCodeForm, PlayerClaimForm |-> PlayerClaimForm,
   AllianceRequestForm |-> AllianceRequestForm, PasswordForm |-> PasswordForm,
   EmailForm |-> EmailForm, GiftKeyForm |-> GiftKeyForm, SaveChannel |-> SaveChannel,
   ToggleChannel |-> ToggleChannel, RemoveChannel |-> RemoveChannel,
   HeroesSetting |-> HeroesSetting, AddHero |-> AddHero, PetsSetting |-> PetsSetting,
   AddPet |-> AddPet, EventsSetting |-> EventsSetting, EventRow |-> EventRow,
   SeasonRow |-> SeasonRow, NewSeason |-> NewSeason, BuildingRow |-> BuildingRow,
   UnnamedRow |-> UnnamedRow, ManualBuilding |-> ManualBuilding,
   ManualScoresSetting |-> ManualScoresSetting, ManualRosterSetting |-> ManualRosterSetting,
   NoticesPanel |-> NoticesPanel, NoticePostPage |-> NoticePostPage, GuidesPanel |-> GuidesPanel,
   GuidePostPage |-> GuidePostPage, Comments |-> Comments, Reply |-> Reply,
   EditComment |-> EditComment, ScrapButton |-> ScrapButton, ScheduleEntry |-> ScheduleEntry,
   NewScheduleEntry |-> NewScheduleEntry, ScheduleBoards |-> ScheduleBoards,
   RenameTab |-> RenameTab, HideTab |-> HideTab, EventName |-> EventName, RankBadge |-> RankBadge,
   AttendanceRecorder |-> AttendanceRecorder, DeclareDay |-> DeclareDay,
   EventScoreboard |-> EventScoreboard, PlannerAccount |-> PlannerAccount,
   OverviewActions |-> OverviewActions, NewFormation |-> NewFormation,
   InlineValue |-> InlineValue, VariantMark |-> VariantMark, ValueRow |-> ValueRow,
   PackRename |-> PackRename, NameInput |-> NameInput, AddGiftCode |-> AddGiftCode,
   AddGiftIds |-> AddGiftIds, RunnerPanel |-> RunnerPanel, CodeRow |-> CodeRow,
   MemberTable |-> MemberTable, AddCandidates |-> AddCandidates, CandidateRow |-> CandidateRow,
   CandidateColumnCell |-> CandidateColumnCell, AddColumn |-> AddColumn,
   UpdateColumn |-> UpdateColumn, MigrationEventForm |-> MigrationEventForm]
=============================================================================
