------------------------------ MODULE Navigation ------------------------------
(***************************************************************************)
(* What the dashboard draws at an address, and which addresses it offers:  *)
(* the wall and the screens (App.tsx), the sidebar (lib/shellNav.ts), the  *)
(* tab strips of the screens, the settings (AdminPage.tsx,                 *)
(* lib/adminAccess.ts), what a community account may open                  *)
(* (lib/communityAccess.tsx) and the tabs an admin hides from a role       *)
(* (lib/tabVisibility.ts).  Each of these decides by itself; the           *)
(* properties say that they agree.                                         *)
(***************************************************************************)
EXTENDS Routes, FiniteSets

CONSTANTS
  OwnAlliance,   \* our alliance on screen
  Ours,          \* the alliances and players that are ours
  PastNames,     \* alliances with earlier names
  Typed,         \* addresses a reader opens by hand or by a link somebody sent
  FirstGrids,    \* what a role holds when it is first read
  Arrangements,  \* the events strip as an admin arranged it: the tabs by number, hidden ones left out
  MaxChanges     \* roles, permissions, hidden tabs and strips that change

Capabilities ==
  {"members.view", "arena.view", "giftcodes.manage", "hive.plan", "members.manage",
   "settings.write", "data.enter", "catalogue.write"}

ASSUME NavigationAssumption ==
  /\ OwnAlliance \in Ours /\ Ours \cup PastNames \subseteq Ids
  /\ FirstGrids \subseteq SUBSET Capabilities
  /\ \A order \in Arrangements : order \in Seq(DOMAIN EVENTS_HUB_TABS)
  /\ MaxChanges \in Nat

VARIABLES
  address,
  role,      \* as the session says, or Unknown
  grid,      \* the capabilities of that role, or {Unknown}
  rules,     \* tabs hidden from that role, as far as they are read
  own,       \* the alliance of the sidebar's entry, or Unknown
  strip,     \* the tabs of the events strip
  changes

vars == <<address, role, grid, rules, own, strip, changes>>

Unknown == "unknown"
Roles == {"viewer", "community", "member", "officer", "admin"}

Page(screen, tab) == [screen |-> screen, tab |-> tab]
Notice(what) == Page(what, "notice")
Link(hash, opens) == [hash |-> hash, opens |-> opens]

gridPending == grid = {Unknown}
isAllowedUntilKnown(capability) == gridPending \/ capability \in grid
isAllowed(capability) == capability \in grid
isCommunity == role = "community"
isAdmin == role = "admin"
isOfficer == role \in {"officer", "admin"}
isMember == role \in {"community", "member", "officer", "admin"}

-----------------------------------------------------------------------------
(* Hidden tabs. *)

TABS ==
  {"overview", "rankings", "migration", "map", "alliance", "members", "hive", "events", "planner",
   "giftCodes", "calendar", "eventGuide", "shopValue", "notices", "guides"}

\* The tab a screen belongs to, or the screen itself when that is none.
tabKeyOf(route) ==
  CASE isRankingRoute(route) -> "rankings"
    [] inEventsHub(route) -> "events"
    [] route = "notice" -> "notices"
    [] route = "guide" -> "guides"
    [] OTHER -> route

isTabShown(tab) == isAdmin \/ tab \notin rules

-----------------------------------------------------------------------------
(* Settings. *)

Section(group, slug, requires) == [group |-> group, slug |-> slug, requires |-> requires]

ADMIN_SECTIONS ==
  << Section("access", "members", "members.manage"), Section("access", "join-codes", "admin"),
     Section("access", "departed", "nothing"), Section("access", "activity", "members.manage"),
     Section("access", "permissions", "members.manage"),
     Section("alliance", "rank-tiers", "settings.write"),
     Section("alliance", "rank-report", "nothing"),
     Section("alliance", "manual-scores", "data.enter"),
     Section("alliance", "manual-roster", "data.enter"),
     Section("display", "metrics", "settings.write"),
     Section("display", "formulas", "settings.write"),
     Section("display", "table-layout", "settings.write"),
     Section("display", "season-building-alert", "settings.write"),
     Section("display", "participation-bars", "settings.write"),
     Section("display", "tab-visibility", "admin"), Section("display", "notices", "nothing"),
     Section("catalogue", "heroes", "catalogue.write"),
     Section("catalogue", "pets", "catalogue.write"),
     Section("catalogue", "seasons", "catalogue.write"),
     Section("catalogue", "events", "catalogue.write"),
     Section("catalogue", "own-alliance", "admin"),
     Section("catalogue", "collectors", "nothing"), Section("catalogue", "discovery", "nothing"),
     Section("operations", "notifications", "admin"), Section("operations", "queue", "admin") >>

\* The sections each group's component draws.
AccessGroup == {"members", "join-codes", "departed", "activity", "permissions"}
AllianceGroup == {"rank-tiers", "rank-report", "manual-scores", "manual-roster"}
DisplayGroup ==
  {"metrics", "season-building-alert", "participation-bars", "formulas", "tab-visibility",
   "table-layout", "notices"}
OperationsGroup == {"notifications"}
CatalogueGroup ==
  {"queue", "heroes", "pets", "seasons", "events", "own-alliance", "collectors", "discovery"}

Panels ==
  [access |-> AccessGroup, alliance |-> AllianceGroup, display |-> DisplayGroup,
   operations |-> OperationsGroup, catalogue |-> CatalogueGroup]

holds(requires) ==
  CASE requires = "nothing" -> TRUE
    [] requires = "admin" -> isAdmin
    [] OTHER -> isAllowed(requires)

\* By their places in the list.
usableSectionsIn(group) ==
  {i \in DOMAIN ADMIN_SECTIONS :
     ADMIN_SECTIONS[i].group = group /\ holds(ADMIN_SECTIONS[i].requires)}

mayOpenSettings == role \in {"member", "officer", "admin"}

\* The section that is open: the one asked for, or the first the reader may use.
OpenSection(group, asked) ==
  LET sections == usableSectionsIn(group)
  IN  IF \E i \in sections : ADMIN_SECTIONS[i].slug = asked THEN asked
      ELSE IF sections # {} THEN ADMIN_SECTIONS[Min(sections)].slug ELSE "nothing"

AdminPage(group, asked) ==
  LET open == OpenSection(group, asked)
  IN  IF open = "nothing" THEN Notice("noneOfYours")
      ELSE Page("admin", <<group, IF open \in Panels[group] THEN open ELSE "blank">>)

-----------------------------------------------------------------------------
(* What is drawn at an address. *)

\* The views an alliance has; one it does not have is its first.
OfferedViews(id) ==
  {view \in ToSet(ALLIANCE_VIEWS) : /\ view # "names" \/ id \in PastNames
                                    /\ view # "activity" \/ id \in Ours}
AlliancePage(id, asked) ==
  Page("alliance", <<id, IF asked \in OfferedViews(id) THEN asked ELSE "members">>)

EventGuidePage(asked) ==
  Page("eventGuide", IF isEventGuideTabOpen(asked, isCommunity) THEN asked ELSE "today")

HivePage(asked) == Page("hive", IF isAllowed("hive.plan") THEN asked ELSE "plan")

\* A screen behind a capability: not before that is known.
Gated(capability, page) ==
  CASE gridPending -> Notice("loading")
    [] isAllowed(capability) -> page
    [] OTHER -> Notice("refused")

Screen(route, a) ==
  CASE ~ isTabShown(tabKeyOf(route)) -> Notice("hidden")
    [] isTabShown(tabKeyOf(route)) ->
       CASE route = "members" -> Gated("members.view", Page("members", MembersTab(a)))
         [] route = "migration" -> IF isOfficer \/ isCommunity THEN Page("migration", "")
                                   ELSE Notice("refused")
         [] route = "season2" -> IF isAdmin THEN Page("season2", "") ELSE Notice("refused")
         [] route = "hive" -> HivePage(HiveTab(a))
         [] route \in {"events", "blackMoney"} -> Page("blackMoney", "")
         [] route = "planner" -> Page("planner", PlannerTab(a))
         [] route = "giftCodes" -> Gated("giftcodes.manage", Page("giftCodes", ""))
         [] route = "eventGuide" -> EventGuidePage(eventGuideTabFromHash(a))
         [] route = "arena" -> Gated("arena.view", Page("arena", ""))
         [] OTHER -> Page(route, "")

communityMayOpenTwoBoards(route) ==
  route \in {"overview", "rankings", "crossRankings", "migration", "map", "planner", "calendar",
             "eventGuide", "shopValue", "alliance", "player", "account", "login", "terms", "privacy"}
communityMayOpen(route) ==
  route \in {"overview", "rankings", "crossRankings", "arena", "migration", "map", "planner",
             "calendar", "eventGuide", "shopValue", "alliance", "player", "account", "login",
             "terms", "privacy"}

\* Somebody else's page, for a community account.
CommunityGate(id, page) == IF isCommunity /\ id \in Ours THEN Notice("closed") ELSE page

walled(route) == ~ isStandaloneRoute(route) /\ role # Unknown /\ ~ isMember

Drawn(a) ==
  LET route == routeFromHash(a)
  IN  CASE walled(route) -> Page("login", "")
        [] ~ isStandaloneRoute(route) /\ role = Unknown -> Notice("loading")
        [] ~ walled(route) /\ isCommunity /\ ~ communityMayOpen(route) -> Notice("closed")
        [] OTHER ->
           CASE route = "admin" -> IF mayOpenSettings
                                   THEN AdminPage(adminGroupFromHash(a), adminSectionFromHash(a))
                                   ELSE Notice("closed")
             [] route = "player" -> CommunityGate(a[2], Page("player", a[2]))
             [] route = "alliance" ->
                CommunityGate(a[2], AlliancePage(a[2], allianceViewFromHash(a)))
             [] route \in {"server", "guide", "notice"} -> Page(route, a[2])
             [] route \in {"login", "terms", "privacy", "monthCards", "account", "guides",
                           "notices", "schedule"} -> Page(route, "")
             [] OTHER -> Screen(route, a)

inShell == isMember /\ ~ isStandaloneRoute(routeFromHash(address))

-----------------------------------------------------------------------------
(* The sidebar: entries, and under some of them the tabs of their screen.   *)
(* "opens" is the screen the label names.                                   *)

Here == routeFromHash(address)
onAny == own # Unknown /\ Here = "alliance"
onOwn == own # Unknown /\ Here = "alliance" /\ address[2] = own

Child(hash, opens, current) == [hash |-> hash, opens |-> opens, current |-> current]
Entry(hash, opens, current, children) ==
  [hash |-> hash, opens |-> opens, current |-> current, children |-> children]

Boards ==
  {Child(board.hash, Page(board.route, ""), board.route = Here) :
     board \in {b \in RANKING_TABS : b.route # "arena" \/ isAllowed("arena.view")}}

Watch ==
  {Entry(tab.hash, Page(tab.route, ""),
         IF tab.route = "rankings" THEN isRankingRoute(Here) ELSE tab.route = Here,
         IF tab.route = "rankings" THEN Boards ELSE {}) :
     tab \in {t \in OVERVIEW_TABS : /\ t.route # "migration" \/ isOfficer \/ isCommunity
                                    /\ isTabShown(t.route)}}
  \cup (IF isTabShown("map") THEN {Entry(<<"map">>, Page("map", ""), Here = "map", {})} ELSE {})

OwnEntry ==
  IF own = Unknown \/ isCommunity \/ ~ isTabShown("alliance") THEN {}
  ELSE {Entry(allianceHash(own, "members"), Page("alliance", <<own, "members">>), onOwn,
              {Child(allianceHash(own, view), Page("alliance", <<own, view>>),
                     onOwn /\ allianceViewFromHash(address) = view) :
                 view \in ToSet(ALLIANCE_VIEWS) \ {"names"}})}

\* The events strip as this reader has it, by places.
eventsTabs == {i \in DOMAIN strip : strip[i].route # "season2" \/ isAdmin}

TabsOf(route) ==
  CASE route = "events" ->
         {Child(strip[i].hash, Page(strip[i].route, ""), strip[i].route = Here) : i \in eventsTabs}
    [] route = "members" ->
         {Child(TabHash("members", MEMBERS, tab), Page("members", tab),
                Here = "members" /\ MembersTab(address) = tab) : tab \in ToSet(MEMBERS)}
    [] route = "hive" ->
         {Child(TabHash("hive", HIVE, tab), Page("hive", tab),
                Here = "hive" /\ HiveTab(address) = tab) :
            tab \in {t \in ToSet(HIVE) : isAllowed("hive.plan")}}
    [] route = "planner" ->
         {Child(TabHash("planner", PLANNER, tab), Page("planner", tab),
                Here = "planner" /\ PlannerTab(address) = tab) : tab \in ToSet(PLANNER)}
    [] route = "eventGuide" ->
         {Child(eventGuideHash(tab), Page("eventGuide", tab),
                Here = "eventGuide" /\ eventGuideTabFromHash(address) = tab) :
            tab \in {t \in ToSet(EVENT_GUIDE_TABS) : isEventGuideTabOpen(t, isCommunity)}}
    [] OTHER -> {}

\* The screen behind an entry: its first tab, or the first page of the hub.
Opens(route) ==
  CASE route = "events" -> Page("blackMoney", "")
    [] route = "members" -> Page(route, MEMBERS[1])
    [] route = "hive" -> Page(route, HIVE[1])
    [] route = "planner" -> Page(route, PLANNER[1])
    [] route = "eventGuide" -> Page(route, EVENT_GUIDE_TABS[1])
    [] OTHER -> Page(route, "")

Alliance ==
  {Entry(tab.hash, Opens(tab.route),
         IF tab.route = "events" THEN inEventsHub(Here) ELSE tab.route = Here,
         TabsOf(tab.route)) :
     tab \in {t \in ALLIANCE_TABS : /\ ~ isCommunity \/ t.route = "planner"
                                    /\ t.route # "members" \/ isAllowed("members.view")
                                    /\ t.route # "giftCodes" \/ isAllowed("giftcodes.manage")
                                    /\ isTabShown(t.route)}}

Events ==
  {Entry(tab.hash, Opens(tab.route), tab.route = Here, TabsOf(tab.route)) :
     tab \in {t \in EVENT_TABS : isTabShown(t.route)}}

BoardEntries ==
  {Entry(tab.hash, Page(tab.route, ""),
         Here = tab.route \/ (Here = "notice" /\ tab.route = "notices")
                          \/ (Here = "guide" /\ tab.route = "guides"), {}) :
     tab \in {t \in BOARD_TABS : ~ isCommunity /\ isTabShown(t.route)}}

\* A settings address without a section opens the first the reader may use.
SettingsPage(group) == AdminPage(group, "first")

buildFooter ==
  {Entry(<<"account">>, Page("account", ""), Here = "account", {})}
  \cup (IF ~ isAdmin THEN {}
        ELSE {Entry(<<"admin">>, SettingsPage("access"), Here = "admin",
                    {Child(adminHash(group), SettingsPage(group),
                           Here = "admin" /\ adminGroupFromHash(address) = group) :
                       group \in ToSet(ADMIN_GROUPS)})})

buildNav == Watch \cup OwnEntry \cup Alliance \cup Events \cup BoardEntries \cup buildFooter

-----------------------------------------------------------------------------
(* The strips on the screens themselves. *)

EventsTabs ==
  IF ~ inEventsHub(Here) \/ isCommunity THEN {}
  ELSE {Child(strip[i].hash, Page(strip[i].route, ""),
              IF Here = "events" THEN i = Min(eventsTabs) ELSE strip[i].route = Here) :
          i \in eventsTabs}

AdminStrips ==
  IF Here # "admin" \/ ~ mayOpenSettings THEN {}
  ELSE LET group == adminGroupFromHash(address)
           open == OpenSection(group, adminSectionFromHash(address))
       IN  {Child(adminHash(g), SettingsPage(g), g = group) : g \in ToSet(ADMIN_GROUPS)}
           \cup {Child(adminSectionHash(group, ADMIN_SECTIONS[i].slug),
                       Page("admin", <<group, ADMIN_SECTIONS[i].slug>>),
                       ADMIN_SECTIONS[i].slug = open) : i \in usableSectionsIn(group)}

AllianceStrip ==
  IF Drawn(address).screen # "alliance" THEN {}
  ELSE {Child(allianceHash(address[2], view), Page("alliance", <<address[2], view>>),
              Drawn(address).tab[2] = view) : view \in OfferedViews(address[2])}

Strips ==
  EventsTabs \cup AdminStrips \cup AllianceStrip
  \cup (IF isRankingRoute(Here) THEN Boards ELSE {})

\* Every link on the page: the sidebar lists an entry's tabs while it is open,
\* the command palette lists all of them.
Links ==
  IF ~ inShell THEN {}
  ELSE LET entries == buildNav
       IN  {Link(entry.hash, entry.opens) : entry \in entries}
           \cup {Link(child.hash, child.opens) :
                   child \in (UNION {entry.children : entry \in entries}) \cup Strips}

-----------------------------------------------------------------------------
(* The reader, and what changes under them. *)

Init ==
  /\ address \in Typed
  /\ role = Unknown /\ grid = {Unknown} /\ rules = {} /\ own = Unknown
  /\ strip = EVENTS_HUB_TABS
  /\ changes = 0

Type ==
  /\ address' \in Typed
  /\ UNCHANGED <<role, grid, rules, own, strip, changes>>

Follow ==
  /\ address' \in {link.hash : link \in Links}
  /\ UNCHANGED <<role, grid, rules, own, strip, changes>>

SessionAnswers ==
  /\ role = Unknown /\ role' \in Roles
  /\ UNCHANGED <<address, grid, rules, own, strip, changes>>

GridAnswers ==
  /\ role # Unknown /\ gridPending /\ grid' \in FirstGrids
  /\ UNCHANGED <<address, role, rules, own, strip, changes>>

OwnAnswers ==
  /\ isMember /\ own = Unknown /\ own' = OwnAlliance
  /\ UNCHANGED <<address, role, grid, rules, strip, changes>>

\* Something else is read than before: a permission, a tab hidden or shown, the
\* strip as somebody arranged it, or another role with what belongs to that.
Changed ==
  /\ changes < MaxChanges /\ changes' = changes + 1
  /\ own # Unknown
  /\ UNCHANGED <<address, own>>

PermissionChanges ==
  /\ Changed /\ ~ gridPending
  /\ \E capability \in Capabilities :
       grid' = IF capability \in grid THEN grid \ {capability} ELSE grid \cup {capability}
  /\ UNCHANGED <<role, rules, strip>>

TabRuleChanges ==
  /\ Changed /\ ~ isAdmin
  /\ \E tab \in TABS : rules' = IF tab \in rules THEN rules \ {tab} ELSE rules \cup {tab}
  /\ UNCHANGED <<role, grid, strip>>

StripArranged ==
  /\ Changed /\ \E order \in Arrangements : strip' = [i \in DOMAIN order |-> EVENTS_HUB_TABS[order[i]]]
  /\ UNCHANGED <<role, grid, rules>>

RoleChanges ==
  /\ Changed /\ ~ gridPending
  /\ role' \in Roles \ {role} /\ grid' \in FirstGrids /\ rules' = {}
  /\ UNCHANGED strip

Next ==
  \/ Type \/ Follow \/ SessionAnswers \/ GridAnswers \/ OwnAnswers
  \/ PermissionChanges \/ TabRuleChanges \/ StripArranged \/ RoleChanges

Spec == Init /\ [][Next]_vars

-----------------------------------------------------------------------------
(* Properties. *)

TypeOK ==
  /\ role \in Roles \cup {Unknown} /\ own \in {OwnAlliance, Unknown}
  /\ gridPending \/ grid \subseteq Capabilities
  /\ rules \subseteq TABS /\ changes \in 0 .. MaxChanges

\* The settings that are listed but drawn by no group.
Undrawn == {<<"operations", "queue">>}

\* Whatever a reader is offered (lib/shellNav.ts, the strips) opens the screen
\* and the tab it names: not the wall, a refusal, another screen or nothing,
\* though the lists, the addresses, the gates and the screens are written apart.
\* Above the notice of a hidden screen its strip is still drawn.
LinksLeadWhereTheySay ==
  \A link \in Links :
    \/ Drawn(link.hash) = link.opens
    \/ Drawn(address) = Notice("hidden") /\ Drawn(link.hash) = Notice("hidden")
    \/ link.opens.screen = "admin" /\ link.opens.tab \in Undrawn

\* Tabs whose screens App.tsx draws before it looks at what is hidden.
Unwatched == {"alliance", "notices", "guides"}

\* The address without a tab stands for the first in the strip, but draws the
\* first of the code.
BareHub == Here = "events" /\ eventsTabs # {} /\ strip[Min(eventsTabs)].route # "blackMoney"

\* What is marked as open (the sidebar, a strip) is what is drawn, or a notice
\* why not; no two entries are marked; and an address of a tab that is hidden
\* from the reader draws the notice.
MarksTellTheTruth ==
  inShell =>
  LET drawn == Drawn(address)
      entries == buildNav
  IN
    /\ \A child \in (UNION {entry.children : entry \in entries}) \cup Strips :
         child.current => \/ drawn = child.opens
                          \/ drawn.tab = "notice"
                          \/ BareHub
                          \/ Here = "admin" /\ adminGroupFromHash(address) = child.opens.tab[1]
    /\ \A one, other \in {entry \in entries : entry.current} : one = other
    /\ LET tab == tabKeyOf(Here)
       IN  (tab \in rules \ Unwatched /\ ~ isAdmin) =>
             drawn \in {Notice("hidden"), Notice("closed")}

\* The permission grid takes nothing away when it arrives (useMayView): what a
\* reader was offered before is still offered.
EntriesStay ==
  [][gridPending => {link.hash : link \in Links} \subseteq {link.hash : link \in Links'}]_<<grid>>
===============================================================================
