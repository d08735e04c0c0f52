--------------------------- MODULE NavigationProofs ---------------------------
(***************************************************************************)
(* Proofs about the way in (SigningIn, as MCNavigation runs it), for any   *)
(* accounts and pages: the states it goes through, who is moved by an      *)
(* answer of the session query, and where to.  And about what is offered   *)
(* and drawn (Navigation), for any alliances, servers, permissions and     *)
(* arrangements: where the links lead, what is marked as open, and what    *)
(* the answer of the permission query takes away.                          *)
(***************************************************************************)
EXTENDS MCNavigation, TLAPS

USE WayInAssumption

-----------------------------------------------------------------------------
(* The invariant.                                                          *)

Somebody == Accounts \cup {In!None}
Remembered == Pages \cup {In!None}

SignInPage ==
  [email : Somebody \cup {In!Misspelt}, arriving : BOOLEAN, busy : BOOLEAN, open : BOOLEAN]

Shown == form.open <=> place = "login" \/ In!walled(place, session)

\* The page waits for an answer only while it has no account, and whom it has
\* taken for a viewer it does not expect to let through any more.
Waits(page) == page.busy => page.email = In!None
SettledOn(page) == told => page.email # In!None /\ ~ page.arriving

WayInv ==
  /\ place \in In!Addresses /\ remembered \in Remembered /\ wanted \in Remembered
  /\ token \in Somebody /\ asked \in Somebody /\ submitted \in Somebody
  /\ form \in SignInPage /\ Shown /\ Waits(form)
  /\ told \in BOOLEAN /\ SettledOn(form)

-----------------------------------------------------------------------------
(* Drawing the screen again.                                               *)

\* Whoever is refused at an address worth returning to is refused at a page.
LEMMA RefusedAtPage ==
  ASSUME NEW a \in In!Addresses, NEW s, In!walled(a, s), In!worthReturningTo(a)
  PROVE  a \in Pages
BY DEF In!Addresses, In!walled, In!worthReturningTo, In!Standalone

LEMMA SettleKeeps ==
  ASSUME NEW a \in In!Addresses, NEW s, NEW f \in SignInPage, NEW hopes \in Remembered,
         remembered \in Remembered, token' \in Somebody, told \in BOOLEAN,
         Waits(f), told => f.email = In!None \/ ~ f.arriving,
         In!Settle(a, s, f, hopes)
  PROVE  /\ place' \in In!Addresses /\ remembered' \in Remembered /\ wanted' \in Remembered
         /\ form' \in SignInPage /\ Shown' /\ Waits(form')
         /\ told' \in BOOLEAN /\ SettledOn(form)'
<1> DEFINE blocked == In!walled(a, s)
           page == CASE ~ (blocked \/ a = "login") -> In!Closed
                     [] (blocked \/ a = "login") /\ ~ f.open -> In!Opened(token')
                     [] OTHER -> f
           kept == In!rememberReturnTo(a, blocked)
           decides == In!Decides(page, s)
           leaves == decides /\ s.role # "viewer"
           way == In!takeReturnTo(kept)
           hoped == IF blocked /\ In!worthReturningTo(a) THEN a ELSE hopes
<1>1. /\ session' = s
      /\ place' = IF leaves THEN way.to ELSE a
      /\ remembered' = IF leaves THEN way.left ELSE kept
      /\ form' = IF leaves /\ way.to # "login" THEN In!Closed
                 ELSE IF decides THEN In!Decided(page) ELSE page
      /\ told' = (form'.email # In!None /\ (told \/ (decides /\ ~ leaves)))
      /\ wanted' = IF \/ decides /\ ~ leaves /\ roles'[s.email] = "viewer"
                      \/ place' = hoped /\ ~ blocked
                   THEN In!None ELSE hoped
  BY DEF In!Settle
<1>2. blocked \in BOOLEAN
  BY DEF In!walled
<1>3. /\ page \in SignInPage /\ Waits(page) /\ (page.open <=> a = "login" \/ blocked)
      /\ told => page.email = In!None \/ ~ page.arriving
  <2>1. In!Closed \in SignInPage /\ In!Opened(token') \in SignInPage
    BY DEF In!Closed, In!Opened, SignInPage, Somebody
  <2> QED
    BY <2>1, <1>2 DEF In!Closed, In!Opened, SignInPage, Waits
<1>4. kept \in Remembered /\ hoped \in Remembered
  BY RefusedAtPage DEF In!rememberReturnTo, Remembered
<1>5. way.to \in Pages \cup {"bare"} /\ way.left = In!None /\ way.to \in In!Addresses /\ way.to # "login"
  BY <1>4 DEF In!takeReturnTo, Remembered, In!Addresses
<1>6. leaves => ~ In!walled(way.to, s)
  BY DEF In!walled
<1>7. decides => page.arriving /\ page.email # In!None
  BY DEF In!Decides
<1>8. decides \in BOOLEAN
  BY DEF In!Decides
<1>9. In!Decided(page) = [page EXCEPT !.arriving = FALSE]
  BY DEF In!Decided
<1> HIDE DEF page, blocked, kept, decides, way, hoped
<1>10. place' \in In!Addresses /\ remembered' \in Remembered /\ wanted' \in Remembered
  BY <1>1, <1>4, <1>5 DEF Remembered
<1>11. CASE leaves
  <2>1. form' = In!Closed /\ place' = way.to /\ session' = s
    BY <1>1, <1>5, <1>11
  <2>2. form' \in SignInPage /\ ~ form'.open /\ ~ form'.busy /\ form'.email = In!None
    BY <2>1 DEF In!Closed, SignInPage, Somebody
  <2>3. Shown'
    BY <2>1, <2>2, <1>5, <1>6, <1>11 DEF Shown
  <2>4. told' = FALSE
    BY <2>2, <1>1
  <2> QED
    BY <1>10, <2>2, <2>3, <2>4 DEF Waits, SettledOn
<1>12. CASE ~ leaves
  <2>1. /\ form' = (IF decides THEN [page EXCEPT !.arriving = FALSE] ELSE page)
        /\ place' = a /\ session' = s
    BY <1>1, <1>9, <1>12
  <2>2. /\ form' \in SignInPage /\ form'.open = page.open /\ form'.busy = page.busy
        /\ form'.email = page.email /\ form'.arriving = (page.arriving /\ ~ decides)
    BY <2>1, <1>3, <1>7, <1>8 DEF SignInPage
  <2>3. Shown'
    BY <2>1, <2>2, <1>3 DEF Shown, blocked
  <2>4. Waits(form')
    BY <2>2, <1>3 DEF Waits
  <2>5. told' = (page.email # In!None /\ (told \/ decides))
    BY <2>2, <1>1, <1>12
  <2>6. SettledOn(form)'
    BY <2>2, <2>5, <1>3 DEF SettledOn
  <2> QED
    BY <1>10, <2>2, <2>3, <2>4, <2>5, <2>6
<1> QED
  BY <1>11, <1>12

-----------------------------------------------------------------------------
(* Every step. *)

\* A step that draws the screen again, from a page it may have changed.
LEMMA DrawnAgain ==
  ASSUME WayInv, NEW a \in In!Addresses, NEW s, NEW f \in SignInPage, NEW hopes \in Remembered,
         token' \in Somebody, asked' \in Somebody, submitted' \in Somebody,
         Waits(f), told => f.email = In!None \/ ~ f.arriving,
         In!Settle(a, s, f, hopes)
  PROVE  WayInv'
<1>1. remembered \in Remembered /\ told \in BOOLEAN
  BY DEF WayInv
<1>2. /\ place' \in In!Addresses /\ remembered' \in Remembered /\ wanted' \in Remembered
      /\ form' \in SignInPage /\ Shown' /\ Waits(form')
      /\ told' \in BOOLEAN /\ SettledOn(form)'
  BY <1>1, SettleKeeps, Zenon
<1> QED
  BY <1>2 DEF WayInv, Waits

\* A step that draws nothing, and changes neither the address nor the session.
LEMMA NotDrawn ==
  ASSUME WayInv, form' \in SignInPage, form'.open = form.open, form'.email = form.email,
         form'.arriving = form.arriving, Waits(form'),
         wanted' \in Remembered, token' \in Somebody, asked' \in Somebody, submitted' \in Somebody,
         UNCHANGED <<place, remembered, session, told>>
  PROVE  WayInv'
<1>1. Shown' /\ SettledOn(form)'
  BY DEF WayInv, Shown, SettledOn, In!walled, In!Standalone
<1> QED
  BY <1>1 DEF WayInv, Waits

LEMMA PageAsItIs ==
  ASSUME WayInv
  PROVE  /\ form \in SignInPage /\ Waits(form)
         /\ told => form.email = In!None \/ ~ form.arriving
         /\ place \in In!Addresses /\ wanted \in Remembered /\ In!None \in Remembered
         /\ token \in Somebody /\ asked \in Somebody /\ submitted \in Somebody
BY DEF WayInv, SettledOn, Remembered

LEMMA DrawKeeps ==
  ASSUME WayInv, NEW a \in In!Addresses, NEW hopes \in Remembered,
         UNCHANGED <<token, submitted>>, In!Draw(a, hopes)
  PROVE  WayInv'
<1>1. PICK s : In!Settle(a, s, form, hopes)
  BY DEF In!Draw
<1>2. token' \in Somebody /\ asked' \in Somebody /\ submitted' \in Somebody
  BY PageAsItIs DEF In!Draw, In!ask
<1> QED
  BY <1>1, <1>2, PageAsItIs, DrawnAgain, Zenon

LEMMA InvalidatingKeeps ==
  ASSUME WayInv, NEW f \in SignInPage, NEW hopes \in Remembered,
         token' \in Somebody, submitted' \in Somebody,
         Waits(f), told => f.email = In!None \/ ~ f.arriving,
         In!invalidateQueries(place, f, hopes)
  PROVE  WayInv'
<1>1. PICK s : In!Settle(place, s, f, hopes)
  BY DEF In!invalidateQueries
<1>2. asked' \in Somebody
  BY PageAsItIs DEF In!invalidateQueries, In!ask
<1> QED
  BY <1>1, <1>2, PageAsItIs, DrawnAgain, Zenon

LEMMA LoadedKeeps ==
  ASSUME WayInv, NEW a \in In!Addresses, token' \in Somebody, In!Loaded(a)
  PROVE  WayInv'
<1>1. PICK s : In!Settle(a, s, In!Closed, In!None)
  BY DEF In!Loaded
<1>2. asked' \in Somebody /\ submitted' \in Somebody
  BY DEF In!Loaded, In!ask, Somebody
<1>3. In!Closed \in SignInPage /\ Waits(In!Closed) /\ In!Closed.email = In!None
  BY DEF In!Closed, SignInPage, Somebody, Waits
<1> QED
  BY <1>1, <1>2, <1>3, PageAsItIs, DrawnAgain, Zenon

LEMMA SigningKeeps ==
  ASSUME WayInv, In!Next
  PROVE  WayInv'
<1> DEFINE settles(f) == f.email = In!None \/ ~ f.arriving
<1>0. /\ form \in SignInPage /\ Waits(form) /\ (told => settles(form))
      /\ place \in In!Addresses /\ wanted \in Remembered /\ In!None \in Remembered
      /\ token \in Somebody /\ asked \in Somebody /\ submitted \in Somebody /\ In!None \in Somebody
  BY PageAsItIs DEF Somebody
<1>1. ASSUME NEW a \in In!Addresses, In!Visit(a)  PROVE WayInv'
  <2>1. (IF a = "login" THEN wanted ELSE In!None) \in Remembered
    BY <1>0
  <2>2. /\ UNCHANGED <<token, submitted>>
        /\ In!Draw(a, IF a = "login" THEN wanted ELSE In!None)
    BY <1>1 DEF In!Visit
  <2> QED
    BY <2>1, <2>2, DrawKeeps, Zenon
<1>2. CASE In!Redraw
  <2>1. UNCHANGED <<token, submitted>> /\ In!Draw(place, wanted)
    BY <1>2 DEF In!Redraw
  <2> QED
    BY <1>0, <2>1, DrawKeeps, Zenon
<1>3. CASE In!Reload
  <2>1. token' \in Somebody /\ In!Loaded(place)
    BY <1>0, <1>3 DEF In!Reload
  <2> QED
    BY <1>0, <2>1, LoadedKeeps, Zenon
<1>4. CASE In!Accepted
  <2>1. token' \in Somebody /\ submitted' \in Somebody
    BY <1>0, <1>4 DEF In!Accepted
  <2> DEFINE accepted(typed) ==
        IF form.busy THEN [form EXCEPT !.email = typed, !.arriving = TRUE, !.busy = FALSE] ELSE form
  <2>2. PICK typed \in {submitted, In!Misspelt} : In!invalidateQueries(place, accepted(typed), wanted)
    BY <1>4 DEF In!Accepted
  <2>3. form.busy => form.email = In!None /\ ~ told
    BY DEF WayInv, Waits, SettledOn
  <2>4. /\ accepted(typed) \in SignInPage /\ Waits(accepted(typed))
        /\ (told => settles(accepted(typed)))
    <3>1. CASE form.busy
      BY <1>0, <2>3, <3>1 DEF SignInPage, Waits
    <3>2. CASE ~ form.busy
      BY <1>0, <3>2
    <3> QED
      BY <3>1, <3>2
  <2> HIDE DEF accepted
  <2> QED
    BY <1>0, <2>1, <2>2, <2>4, InvalidatingKeeps, Zenon
<1>5. CASE In!Refused
  <2>1. /\ form' = [form EXCEPT !.busy = FALSE] /\ submitted' = In!None
        /\ UNCHANGED <<place, token, session, asked, remembered, wanted, told>>
    BY <1>5 DEF In!Refused
  <2>2. /\ form' \in SignInPage /\ form'.open = form.open /\ form'.email = form.email
        /\ form'.arriving = form.arriving /\ Waits(form')
    BY <1>0, <2>1 DEF SignInPage, Waits
  <2> QED
    BY <1>0, <2>1, <2>2, NotDrawn
<1>6. CASE In!signOut
  <2>1. /\ token' = In!None /\ UNCHANGED submitted
        /\ In!invalidateQueries(place, [form EXCEPT !.email = In!None], In!None)
    BY <1>6 DEF In!signOut
  <2>2. /\ [form EXCEPT !.email = In!None] \in SignInPage
        /\ [form EXCEPT !.email = In!None].email = In!None
        /\ Waits([form EXCEPT !.email = In!None])
    BY <1>0 DEF SignInPage, Waits, Somebody
  <2> QED
    BY <1>0, <2>1, <2>2, InvalidatingKeeps
<1>7. CASE In!SignOutButton
  <2>1. token' = In!None /\ asked' = In!None /\ UNCHANGED submitted
    BY <1>7 DEF In!SignOutButton
  <2>2. CASE wanted' = In!None /\ UNCHANGED <<place, session, remembered, form, told>>
    BY <1>0, <2>1, <2>2, NotDrawn
  <2>3. CASE In!Settle(place, In!Answer(In!None), form, In!None)
    BY <1>0, <2>1, <2>3, DrawnAgain
  <2> QED
    BY <1>7, <2>2, <2>3 DEF In!SignOutButton
<1>8. CASE In!Expires
  <2>1. token' = In!None /\ UNCHANGED submitted
    BY <1>8 DEF In!Expires
  <2>2. CASE In!invalidateQueries(place, form, In!None)
    BY <1>0, <2>1, <2>2, InvalidatingKeeps, Zenon
  <2>3. CASE wanted' = In!None /\ UNCHANGED <<place, session, asked, remembered, form, told>>
    BY <1>0, <2>1, <2>3, NotDrawn
  <2> QED
    BY <1>8, <2>2, <2>3 DEF In!Expires
<1>9. CASE In!SessionAnswers
  <2>1. PICK s : In!Settle(place, s, form, wanted)
    BY <1>9 DEF In!SessionAnswers
  <2>2. token' \in Somebody /\ asked' \in Somebody /\ submitted' \in Somebody
    BY <1>0, <1>9 DEF In!SessionAnswers
  <2> QED
    BY <1>0, <2>1, <2>2, DrawnAgain, Zenon
<1>10. CASE In!Refetch
  <2>1. PICK s : In!Settle(place, s, form, wanted)
    BY <1>10 DEF In!Refetch
  <2>2. token' \in Somebody /\ asked' \in Somebody /\ submitted' \in Somebody
    BY <1>0, <1>10 DEF In!Refetch, In!ask
  <2> QED
    BY <1>0, <2>1, <2>2, DrawnAgain, Zenon
<1>11. ASSUME NEW x \in Accounts, In!signIn(x)  PROVE WayInv'
  <2>1. /\ form' = [form EXCEPT !.busy = TRUE] /\ submitted' = x /\ form.email = In!None
        /\ UNCHANGED <<place, token, session, asked, remembered, wanted, told>>
    BY <1>11 DEF In!signIn
  <2>2. /\ form' \in SignInPage /\ form'.open = form.open /\ form'.email = form.email
        /\ form'.arriving = form.arriving /\ Waits(form') /\ submitted' \in Somebody
    BY <1>0, <2>1 DEF SignInPage, Waits, Somebody
  <2> QED
    BY <1>0, <2>1, <2>2, NotDrawn
<1>12. ASSUME NEW x \in Accounts, In!signInWithProvider(x)  PROVE WayInv'
  <2>1. token' \in Somebody /\ In!Loaded("bare") /\ "bare" \in In!Addresses
    BY <1>12 DEF In!signInWithProvider, Somebody, In!Addresses
  <2> QED
    BY <2>1, LoadedKeeps, Zenon
<1>13. ASSUME NEW given, In!Redeem(given)  PROVE WayInv'
  <2>1. /\ token' \in Somebody /\ submitted' \in Somebody
        /\ In!invalidateQueries(place, form, wanted)
    BY <1>0, <1>13 DEF In!Redeem
  <2> QED
    BY <1>0, <2>1, InvalidatingKeeps, Zenon
<1>14. ASSUME NEW x, NEW given, In!AdminSets(x, given)  PROVE WayInv'
  <2>1. UNCHANGED form
        /\ UNCHANGED <<place, session, remembered, submitted, told, asked, token, wanted>>
    BY <1>14 DEF In!AdminSets
  <2> QED
    BY <1>0, <2>1, NotDrawn
<1> QED
  BY <1>1, <1>2, <1>3, <1>4, <1>5, <1>6, <1>7, <1>8, <1>9, <1>10, <1>11, <1>12, <1>13, <1>14
  DEF In!Next

-----------------------------------------------------------------------------
(* What follows. *)

LEMMA StartsSound == Start => WayInv
<1> SUFFICES ASSUME Start  PROVE WayInv
  OBVIOUS
<1>1. /\ place \in In!Addresses /\ token = In!None /\ asked = In!None /\ submitted = In!None
      /\ session = [email |-> In!None, role |-> "viewer"] /\ told = FALSE
      /\ remembered = (IF place \in Pages THEN place ELSE In!None) /\ wanted = remembered
      /\ form = IF place = "terms" THEN In!Closed ELSE In!Opened(In!None)
  BY DEF Start, In!Init
<1>2. In!None \in Somebody /\ remembered \in Remembered
  BY <1>1 DEF Somebody, Remembered
<1>3. /\ form \in SignInPage /\ ~ form.busy /\ ~ form.arriving
      /\ (form.open <=> place # "terms")
  BY <1>1, <1>2 DEF In!Closed, In!Opened, SignInPage
<1>4. Shown
  BY <1>1, <1>3 DEF Shown, In!walled, In!Standalone, In!Pending
<1> QED
  BY <1>1, <1>2, <1>3, <1>4 DEF WayInv, Waits, SettledOn

LEMMA StepSound == WayInv /\ [Moving \/ SigningNext]_allVars => WayInv'
<1> SUFFICES ASSUME WayInv, [Moving \/ SigningNext]_allVars  PROVE WayInv'
  OBVIOUS
<1>1. CASE SigningNext
  BY <1>1, SigningKeeps DEF SigningNext
<1>2. CASE UNCHANGED signVars
  BY <1>2 DEF signVars, WayInv, Shown, Waits, SettledOn, In!walled, In!Standalone
<1> QED
  BY <1>1, <1>2 DEF Moving, allVars

\* The invariant is one of the states the run goes through, of either half of it.
THEOREM WayInHolds == NavigationSpec => []WayInv
BY StartsSound, StepSound, PTL DEF NavigationSpec

\* Whatever is done on the sign-in page, at the wall or behind it, addresses and
\* accounts stay what they are, and the sign-in page is there exactly while it
\* is at its address or the session keeps the reader out (LoginPage.tsx,
\* App.tsx).
THEOREM WayInTypes == NavigationSpec => []In!TypeOK
<1>1. WayInv => In!TypeOK
  BY DEF WayInv, In!TypeOK, Somebody, Remembered, SignInPage, Shown
<1> QED
  BY <1>1, WayInHolds, PTL

\* Who is moved by an answer of the session query.
LEMMA AnswerMoves ==
  ASSUME WayInv, In!SessionAnswers, place' # place
  PROVE  /\ ~ told /\ place = "login" /\ ~ In!walled(place', session') /\ remembered' = In!None
<1>1. PICK s : In!Settle(place, s, form, wanted)
  BY DEF In!SessionAnswers
<1> DEFINE blocked == In!walled(place, s)
           page == CASE ~ (blocked \/ place = "login") -> In!Closed
                     [] (blocked \/ place = "login") /\ ~ form.open -> In!Opened(token')
                     [] OTHER -> form
           way == In!takeReturnTo(In!rememberReturnTo(place, blocked))
<1>2. /\ session' = s /\ place' = way.to /\ remembered' = way.left
      /\ In!Decides(page, s) /\ s.role # "viewer"
  BY <1>1 DEF In!Settle
<1>3. ~ blocked /\ ~ In!walled(place', s)
  BY <1>2 DEF In!walled
<1>4. page.arriving
  BY <1>2 DEF In!Decides
<1>5. place = "login" /\ page = form
  BY <1>3, <1>4 DEF In!Closed, In!Opened
<1>6. ~ told
  BY <1>4, <1>5 DEF WayInv, SettledOn
<1>7. remembered' = In!None
  BY <1>2 DEF In!takeReturnTo
<1> QED
  BY <1>2, <1>3, <1>5, <1>6, <1>7

\* An answer of the session query moves nobody whom the page has taken for a
\* viewer; whoever it moves was on the sign-in page, comes to a page open to
\* them, and leaves nothing to come back to at a later sign-in.
THEOREM AnswersMoveOnce == NavigationSpec => In!PickerStays /\ In!LandsOnce
<1>1. WayInv => [In!SessionAnswers /\ told => UNCHANGED place]_In!vars
  BY AnswerMoves DEF In!vars
<1>2. WayInv => [In!SessionAnswers /\ place' # place =>
                   /\ place = "login" /\ ~ In!walled(place', session')
                   /\ remembered' = In!None]_In!vars
  BY AnswerMoves DEF In!vars
<1> QED
  BY <1>1, <1>2, WayInHolds, PTL DEF In!PickerStays, In!LandsOnce

-----------------------------------------------------------------------------
(* Addresses: which screen they open.                                      *)

HIDE WayInAssumption

\* The lists of tabs, as sets.
LEMMA Lists ==
  /\ ToSet(ADMIN_GROUPS) = {"access", "alliance", "display", "operations", "catalogue"}
  /\ ToSet(EVENT_GUIDE_TABS) = {"today", "events", "survival", "duel", "scores"}
  /\ ToSet(MEMBERS) = {"settled", "running"}
  /\ ToSet(HIVE) = {"plan", "shape", "people"}
  /\ ToSet(PLANNER) = {"raise", "settings", "upgrades"}
  /\ ToSet(ALLIANCE_VIEWS) = {"members", "board", "power", "activity", "compare", "names"}
<1>1. ToSet(ADMIN_GROUPS) = {"access", "alliance", "display", "operations", "catalogue"}
  BY DEF ToSet, ADMIN_GROUPS
<1>2. ToSet(EVENT_GUIDE_TABS) = {"today", "events", "survival", "duel", "scores"}
  BY DEF ToSet, EVENT_GUIDE_TABS
<1>3. ToSet(MEMBERS) = {"settled", "running"}
  BY DEF ToSet, MEMBERS
<1>4. ToSet(HIVE) = {"plan", "shape", "people"}
  BY DEF ToSet, HIVE
<1>5. ToSet(PLANNER) = {"raise", "settings", "upgrades"}
  BY DEF ToSet, PLANNER
<1>6. ToSet(ALLIANCE_VIEWS) = {"members", "board", "power", "activity", "compare", "names"}
  BY DEF ToSet, ALLIANCE_VIEWS
<1> QED
  BY <1>1, <1>2, <1>3, <1>4, <1>5, <1>6

\* The screens that the addresses of one part open.
LEMMA RoutesAre ==
  /\ DOMAIN ROUTES = Plain
  /\ \A part \in Plain \ {"cross-server", "black-gold", "black-money", "month-cards",
                       "capital-clash", "server-clash", "gift-codes", "event-guide",
                       "shop-value"} :
       ROUTES[part] = part
  /\ ROUTES["cross-server"] = "crossRankings" /\ ROUTES["black-gold"] = "blackMoney"
  /\ ROUTES["black-money"] = "blackMoney" /\ ROUTES["month-cards"] = "monthCards"
  /\ ROUTES["capital-clash"] = "capitalClash" /\ ROUTES["server-clash"] = "serverClash"
  /\ ROUTES["gift-codes"] = "giftCodes" /\ ROUTES["event-guide"] = "eventGuide"
  /\ ROUTES["shop-value"] = "shopValue"
BY DEF ROUTES, Plain

\* Addresses are told apart by their first part and their length.
LEMMA Bases ==
  /\ \A a \in tabbed("event-guide", EVENT_GUIDE_TABS) : a[1] = "event-guide"
  /\ \A a \in tabbed("members", MEMBERS) : a[1] = "members"
  /\ \A a \in tabbed("hive", HIVE) : a[1] = "hive"
  /\ \A a \in PlannerHashes : a[1] = "planner"
  /\ \A kind, names : \A a \in Subjects(kind, names) : a[1] = kind /\ Len(a) = 2
  /\ \A a \in AllianceHashes : a[1] = "alliance" /\ Len(a) \in {2, 3}
BY DEF tabbed, PlannerHashes, Subjects, AllianceHashes

\* An address of one part.
LEMMA PlainRoute ==
  ASSUME NEW part \in Plain  PROVE routeFromHash(<<part>>) = ROUTES[part]
<1> DEFINE a == <<part>>
<1>1. a[1] = part /\ Len(a) = 1
  OBVIOUS
<1>2. ~ IsAdminHash(a)
  BY <1>1 DEF IsAdminHash, Plain
<1>3. \A kind, names : a \notin Subjects(kind, names)
  BY <1>1, Bases
<1>4. a \notin AllianceHashes
  BY <1>1, Bases
<1>5. a \in {<<p>> : p \in Plain}
  OBVIOUS
<1>6. /\ a \in tabbed("event-guide", EVENT_GUIDE_TABS) => part = "event-guide"
      /\ a \in tabbed("members", MEMBERS) => part = "members"
      /\ a \in tabbed("hive", HIVE) => part = "hive"
      /\ a \in PlannerHashes => part = "planner"
  BY <1>1, Bases
<1> HIDE DEF a
<1> QED
  BY <1>1, <1>2, <1>3, <1>4, <1>5, <1>6, RoutesAre DEF routeFromHash, a

\* The bare address is the overview.
LEMMA BareRoute == routeFromHash(<< >>) = "overview"
<1> DEFINE a == << >>
<1>1. Len(a) = 0
  OBVIOUS
<1>2. a \notin tabbed("event-guide", EVENT_GUIDE_TABS) /\ a \notin tabbed("members", MEMBERS)
      /\ a \notin tabbed("hive", HIVE) /\ a \notin PlannerHashes /\ a \notin AllianceHashes
      /\ a \notin {<<part>> : part \in Plain}
  BY DEF tabbed, PlannerHashes, AllianceHashes, Subjects
<1>3. \A kind, names : a \notin Subjects(kind, names)
  BY DEF Subjects
<1>4. ~ IsAdminHash(a)
  BY DEF IsAdminHash
<1> QED
  BY <1>2, <1>3, <1>4 DEF routeFromHash

\* Of what an address with a tab is, and that the tab can be read from it.
LEMMA TabbedRoutes ==
  /\ \A a \in tabbed("event-guide", EVENT_GUIDE_TABS) : routeFromHash(a) = "eventGuide"
  /\ \A a \in tabbed("members", MEMBERS) : routeFromHash(a) = "members"
  /\ \A a \in tabbed("hive", HIVE) : routeFromHash(a) = "hive"
  /\ \A a \in PlannerHashes : routeFromHash(a) = "planner"
<1>1. \A a : IsAdminHash(a) => a[1] = "admin"
  BY DEF IsAdminHash
<1>2. /\ \A a \in tabbed("event-guide", EVENT_GUIDE_TABS) : a[1] = "event-guide"
      /\ \A a \in tabbed("members", MEMBERS) : a[1] = "members"
      /\ \A a \in tabbed("hive", HIVE) : a[1] = "hive"
      /\ \A a \in PlannerHashes : a[1] = "planner"
      /\ \A kind, names : \A a \in Subjects(kind, names) : a[1] = kind
      /\ \A a \in AllianceHashes : a[1] = "alliance"
  BY Bases
<1> QED
  BY <1>1, <1>2 DEF routeFromHash

\* The address made for a tab is one of its screen, and the tab is read from it.
LEMMA TabsAreRead ==
  /\ \A tab \in ToSet(EVENT_GUIDE_TABS) :
       /\ eventGuideHash(tab) \in tabbed("event-guide", EVENT_GUIDE_TABS)
       /\ eventGuideTabFromHash(eventGuideHash(tab)) = tab
  /\ \A tab \in ToSet(MEMBERS) :
       /\ TabHash("members", MEMBERS, tab) \in tabbed("members", MEMBERS)
       /\ MembersTab(TabHash("members", MEMBERS, tab)) = tab
  /\ \A tab \in ToSet(HIVE) :
       /\ TabHash("hive", HIVE, tab) \in tabbed("hive", HIVE)
       /\ HiveTab(TabHash("hive", HIVE, tab)) = tab
  /\ \A tab \in ToSet(PLANNER) :
       /\ TabHash("planner", PLANNER, tab) \in PlannerHashes
       /\ PlannerTab(TabHash("planner", PLANNER, tab)) = tab
<1>1. ASSUME NEW base, NEW tabs, NEW tab \in ToSet(tabs)
      PROVE  TabHash(base, tabs, tab) \in tabbed(base, tabs)
             /\ TabOf(tabs, TabHash(base, tabs, tab)) = tab
  BY DEF TabHash, tabbed, TabOf
<1>2. \A tab \in ToSet(PLANNER) : tab \notin PlannerAliases
  BY Lists DEF PlannerAliases
<1> QED
  BY <1>1, <1>2 DEF eventGuideHash, eventGuideTabFromHash, MembersTab, HiveTab, PlannerTab,
     PlannerHashes

\* The address without a tab is the one made for the first.
LEMMA BareTabs ==
  /\ <<"event-guide">> = eventGuideHash("today") /\ "today" \in ToSet(EVENT_GUIDE_TABS)
  /\ <<"members">> = TabHash("members", MEMBERS, "settled") /\ "settled" \in ToSet(MEMBERS)
  /\ <<"hive">> = TabHash("hive", HIVE, "plan") /\ "plan" \in ToSet(HIVE)
  /\ <<"planner">> = TabHash("planner", PLANNER, "raise") /\ "raise" \in ToSet(PLANNER)
  /\ EVENT_GUIDE_TABS[1] = "today" /\ MEMBERS[1] = "settled" /\ HIVE[1] = "plan"
       /\ PLANNER[1] = "raise"
<1>1. EVENT_GUIDE_TABS[1] = "today" /\ MEMBERS[1] = "settled" /\ HIVE[1] = "plan"
      /\ PLANNER[1] = "raise"
  BY DEF EVENT_GUIDE_TABS, MEMBERS, HIVE, PLANNER
<1> QED
  BY <1>1, Lists DEF eventGuideHash, TabHash

\* The address made for a view of an alliance opens that view of it.
LEMMA AllianceRoute ==
  ASSUME NEW id \in Ids, NEW view \in ToSet(ALLIANCE_VIEWS)
  PROVE  LET a == allianceHash(id, view)
         IN  /\ a \in AllianceHashes /\ routeFromHash(a) = "alliance"
             /\ a[2] = id /\ allianceViewFromHash(a) = view
<1> DEFINE a == allianceHash(id, view)
<1>1. a \in AllianceHashes
  BY DEF allianceHash, AllianceHashes, Subjects
<1>2. /\ \A b \in AllianceHashes : b[1] = "alliance"
      /\ \A b : IsAdminHash(b) => b[1] = "admin"
  BY Bases DEF IsAdminHash
<1>3. a[2] = id /\ allianceViewFromHash(a) = view
  BY DEF allianceHash, allianceViewFromHash
<1>4. /\ a \notin tabbed("event-guide", EVENT_GUIDE_TABS) /\ a \notin tabbed("members", MEMBERS)
      /\ a \notin tabbed("hive", HIVE) /\ a \notin PlannerHashes
      /\ a \notin Subjects("server", Servers) /\ a \notin Subjects("map", Servers)
      /\ a \notin Subjects("player", Ids) /\ a \notin Subjects("guides", Ids)
      /\ a \notin Subjects("notices", Ids) /\ ~ IsAdminHash(a)
  BY <1>1, <1>2, Bases
<1> HIDE DEF a
<1> QED
  BY <1>1, <1>3, <1>4 DEF routeFromHash, a

\* The addresses that open the page of an alliance.
LEMMA AlliancesOnly ==
  ASSUME NEW a, routeFromHash(a) = "alliance"
  PROVE  a[2] \in Ids /\ allianceViewFromHash(a) \in ToSet(ALLIANCE_VIEWS)
<1>1. a \in AllianceHashes
  <2>1. \A part \in Plain : ROUTES[part] # "alliance"
    BY DEF ROUTES, Plain
  <2>2. \A b : b \in {<<part>> : part \in Plain} => ROUTES[b[1]] # "alliance"
    BY <2>1
  <2> QED
    BY <2>2 DEF routeFromHash
<1> QED
  BY <1>1, Lists DEF AllianceHashes, Subjects, allianceViewFromHash

\* The same for the groups and the sections of the settings.
LEMMA SettingsRoutes ==
  ASSUME NEW group \in ToSet(ADMIN_GROUPS), NEW slug
  PROVE  /\ routeFromHash(<<"admin">>) = "admin" /\ adminGroupFromHash(<<"admin">>) = "access"
         /\ adminSectionFromHash(<<"admin">>) = "first"
         /\ routeFromHash(adminHash(group)) = "admin"
              /\ adminGroupFromHash(adminHash(group)) = group
         /\ adminSectionFromHash(adminHash(group)) = "first"
         /\ routeFromHash(adminSectionHash(group, slug)) = "admin"
         /\ adminGroupFromHash(adminSectionHash(group, slug)) = group
         /\ adminSectionFromHash(adminSectionHash(group, slug)) = slug
<1>1. \A a : IsAdminHash(a) => a[1] = "admin"
  BY DEF IsAdminHash
<1>2. \A a : IsAdminHash(a) => routeFromHash(a) = "admin"
  BY <1>1, Bases DEF routeFromHash
<1>3. IsAdminHash(<<"admin">>) /\ IsAdminHash(adminHash(group))
      /\ IsAdminHash(adminSectionHash(group, slug))
  BY DEF IsAdminHash, adminHash, adminSectionHash
<1> QED
  BY <1>2, <1>3 DEF adminHash, adminSectionHash, adminGroupFromHash, adminSectionFromHash

\* The group an address of the settings names is one there is.
LEMMA GroupOfSettings ==
  ASSUME NEW a, routeFromHash(a) = "admin"
  PROVE  adminGroupFromHash(a) \in ToSet(ADMIN_GROUPS)
<1>1. IsAdminHash(a)
  <2>1. \A b : b \in {<<part>> : part \in Plain} => ROUTES[b[1]] # "admin"
    BY DEF ROUTES, Plain
  <2> QED
    BY <2>1 DEF routeFromHash
<1> QED
  BY <1>1, Lists DEF IsAdminHash, adminGroupFromHash

-----------------------------------------------------------------------------
(* What is drawn for somebody let in.                                       *)

\* The screens that Drawn opens by itself; the others are for Screen.
Itself ==
  {"admin", "player", "alliance", "server", "guide", "notice", "login", "terms", "privacy",
   "monthCards", "account", "guides", "notices", "schedule"}

Opened(route) == ~ isCommunity \/ communityMayOpen(route)

\* The screen of an address is drawn, for whoever it is opened to.
LEMMA DrawnScreens ==
  ASSUME isMember, NEW a, NEW route, route = routeFromHash(a), route \notin Itself, Opened(route)
  PROVE  Drawn(a) = Screen(route, a)
BY DEF Drawn, Itself, Opened, walled, isMember, isStandaloneRoute, Unknown

\* And the ones Drawn opens by itself.
LEMMA DrawnThemselves ==
  ASSUME isMember, NEW a, ~ isStandaloneRoute(routeFromHash(a)), Opened(routeFromHash(a))
  PROVE  /\ routeFromHash(a) \in {"account", "guides", "notices"}
              => Drawn(a) = Page(routeFromHash(a), "")
         /\ routeFromHash(a) = "alliance" =>
              Drawn(a) = CommunityGate(a[2], AlliancePage(a[2], allianceViewFromHash(a)))
         /\ routeFromHash(a) = "admin" =>
               Drawn(a) = IF mayOpenSettings
                         THEN AdminPage(adminGroupFromHash(a), adminSectionFromHash(a))
                         ELSE Notice("closed")
BY DEF Drawn, Opened, walled, isMember, isStandaloneRoute, Unknown

\* The screens that are drawn for whoever their tab is shown to.
Free ==
  {"overview", "rankings", "crossRankings", "map", "blackMoney", "frankie", "capitalClash",
   "serverClash", "participation", "season", "calendar", "shopValue"}

LEMMA FreeScreens ==
  ASSUME NEW route \in Free, NEW a, isTabShown(tabKeyOf(route))
  PROVE  Screen(route, a) = Page(route, "")
BY DEF Screen, Free

\* A hidden screen is the notice of it.
LEMMA HiddenScreens ==
  ASSUME NEW route, NEW a, ~ isTabShown(tabKeyOf(route))
  PROVE  Screen(route, a) = Notice("hidden")
BY DEF Screen

\* Who holds a capability is past its gate: the permissions are then known.
LEMMA AllowedIsKnown ==
  ASSUME NEW capability \in Capabilities, isAllowed(capability)
  PROVE  \A page : Gated(capability, page) = page
BY DEF Gated, isAllowed, gridPending, Capabilities, Unknown

\* The tab each screen belongs to.
LEMMA KeysOfTabs ==
  /\ \A route \in {"rankings", "crossRankings", "arena"} : tabKeyOf(route) = "rankings"
  /\ \A route \in HubRoutes : tabKeyOf(route) = "events"
  /\ \A route \in {"overview", "migration", "map", "members", "hive", "planner", "giftCodes",
                   "calendar", "eventGuide", "shopValue", "notices", "guides"} : tabKeyOf(route) = route
  /\ HubRoutes = {"events", "blackMoney", "frankie", "capitalClash", "serverClash",
                  "participation", "season", "season2"}
<1>1. ToSet(EVENTS_HUB_TABS) =
        {Tab("blackMoney", <<"black-gold">>), Tab("frankie", <<"frankie">>),
         Tab("capitalClash", <<"capital-clash">>), Tab("serverClash", <<"server-clash">>),
         Tab("participation", <<"participation">>), Tab("season", <<"season">>),
         Tab("season2", <<"season2">>)}
  BY DEF ToSet, EVENTS_HUB_TABS
<1>2. HubRoutes = {"events", "blackMoney", "frankie", "capitalClash", "serverClash",
                  "participation", "season", "season2"}
  BY <1>1 DEF HubRoutes, Tab
<1>3. RankingRoutes = {"rankings", "crossRankings", "arena"}
  BY DEF RankingRoutes, RANKING_TABS, Tab
<1> QED
  BY <1>2, <1>3 DEF tabKeyOf, isRankingRoute, inEventsHub

-----------------------------------------------------------------------------
(* A link leads where it says: LinksLeadWhereTheySay, link by link.         *)

Leads(hash, opens) ==
  \/ Drawn(hash) = opens
  \/ Drawn(address) = Notice("hidden") /\ Drawn(hash) = Notice("hidden")
  \/ opens.screen = "admin" /\ opens.tab \in Undrawn

\* The address of a tab whose screen has no gate of its own.
LEMMA LeadsToFree ==
  ASSUME isMember, NEW tab, routeFromHash(tab.hash) = tab.route, tab.route \in Free,
         isTabShown(tabKeyOf(tab.route)), Opened(tab.route)
  PROVE  Drawn(tab.hash) = Page(tab.route, "")
<1>1. tab.route \notin Itself
  BY DEF Itself, Free
<1> QED
  BY <1>1, DrawnScreens, FreeScreens

\* In every list, the address of a tab opens its screen.
LEMMA RoutesOfTabs ==
  /\ \A tab \in OVERVIEW_TABS \cup ALLIANCE_TABS \cup EVENT_TABS \cup BOARD_TABS \cup RANKING_TABS :
       routeFromHash(tab.hash) = tab.route
  /\ \A tab \in ToSet(EVENTS_HUB_TABS) : routeFromHash(tab.hash) = tab.route
  /\ routeFromHash(<<"map">>) = "map" /\ routeFromHash(<<"account">>) = "account"
<1>1. {"rankings", "migration", "members", "hive", "events", "planner", "gift-codes",
       "black-gold", "frankie", "capital-clash", "server-clash", "participation", "season",
       "season2", "calendar", "event-guide", "shop-value", "notices", "guides", "cross-server",
       "arena", "map", "account"} \subseteq Plain
  BY DEF Plain
<1>2. \A part \in Plain : routeFromHash(<<part>>) = ROUTES[part]
  BY PlainRoute
<1> HIDE DEF Plain
<1>a. \A tab \in OVERVIEW_TABS : routeFromHash(tab.hash) = tab.route
  BY <1>1, <1>2, RoutesAre, BareRoute DEF OVERVIEW_TABS, Tab
<1>b. \A tab \in ALLIANCE_TABS : routeFromHash(tab.hash) = tab.route
  BY <1>1, <1>2, RoutesAre DEF ALLIANCE_TABS, Tab
<1>c. \A tab \in EVENT_TABS : routeFromHash(tab.hash) = tab.route
  BY <1>1, <1>2, RoutesAre DEF EVENT_TABS, Tab
<1>d. \A tab \in BOARD_TABS : routeFromHash(tab.hash) = tab.route
  BY <1>1, <1>2, RoutesAre DEF BOARD_TABS, Tab
<1>e. \A tab \in RANKING_TABS : routeFromHash(tab.hash) = tab.route
  BY <1>1, <1>2, RoutesAre DEF RANKING_TABS, Tab
<1>f. \A tab \in ToSet(EVENTS_HUB_TABS) : routeFromHash(tab.hash) = tab.route
  <2>1. \A i \in DOMAIN EVENTS_HUB_TABS :
          \E part \in Plain : /\ EVENTS_HUB_TABS[i].hash = <<part>>
                              /\ EVENTS_HUB_TABS[i].route = ROUTES[part]
    BY <1>1, RoutesAre DEF EVENTS_HUB_TABS, Tab
  <2> QED
    BY <2>1, <1>2 DEF ToSet
<1>g. routeFromHash(<<"map">>) = "map" /\ routeFromHash(<<"account">>) = "account"
  BY <1>1, <1>2, RoutesAre
<1> QED
  BY <1>a, <1>b, <1>c, <1>d, <1>e, <1>f, <1>g

\* The rankings, and the entries of the first part of the sidebar (shellNav.ts).
LEMMA LeadsToBoards ==
  ASSUME isMember, NEW child \in Boards, isTabShown("rankings")
  PROVE  Drawn(child.hash) = child.opens
<1>1. PICK board \in RANKING_TABS : /\ board.route # "arena" \/ isAllowed("arena.view")
                                    /\ child = Child(board.hash, Page(board.route, ""),
                                        board.route = Here)
  BY DEF Boards
<1>2. child.hash = board.hash /\ child.opens = Page(board.route, "")
  BY <1>1 DEF Child
<1>3. board.route \in {"rankings", "crossRankings", "arena"}
      /\ routeFromHash(board.hash) = board.route
  BY RoutesOfTabs DEF RANKING_TABS, Tab
<1>4. Opened(board.route) /\ isTabShown(tabKeyOf(board.route))
  BY <1>3, KeysOfTabs DEF Opened, communityMayOpen
<1>5. CASE board.route # "arena"
  BY <1>2, <1>3, <1>4, <1>5, LeadsToFree DEF Free
<1>6. CASE board.route = "arena"
  <2>1. Drawn(board.hash) = Screen("arena", board.hash)
    BY <1>3, <1>4, <1>6, DrawnScreens DEF Itself
  <2>2. Screen("arena", board.hash) = Gated("arena.view", Page("arena", ""))
    BY <1>4, <1>6 DEF Screen
  <2>3. isAllowed("arena.view") /\ "arena.view" \in Capabilities
    BY <1>1, <1>6 DEF Capabilities
  <2> QED
    BY <1>2, <1>6, <2>1, <2>2, <2>3, AllowedIsKnown
<1> QED
  BY <1>5, <1>6

LEMMA WatchLeads ==
  ASSUME isMember, NEW entry \in Watch
  PROVE  /\ Drawn(entry.hash) = entry.opens
         /\ \A child \in entry.children : Drawn(child.hash) = child.opens
<1>1. CASE isTabShown("map") /\ entry = Entry(<<"map">>, Page("map", ""), Here = "map", {})
  <2>1. isTabShown("map") /\ entry.hash = <<"map">> /\ entry.opens = Page("map", "")
        /\ entry.children = {}
    BY <1>1 DEF Entry
  <2>2. Opened("map") /\ isTabShown(tabKeyOf("map")) /\ "map" \in Free
    BY <2>1, KeysOfTabs DEF Opened, communityMayOpen, Free
  <2>3. routeFromHash(Tab("map", <<"map">>).hash) = Tab("map", <<"map">>).route
    BY RoutesOfTabs DEF Tab
  <2>4. Drawn(Tab("map", <<"map">>).hash) = Page(Tab("map", <<"map">>).route, "")
    BY <2>2, <2>3, LeadsToFree DEF Tab
  <2> QED
    BY <2>1, <2>4 DEF Tab
<1>2. CASE \E tab \in OVERVIEW_TABS :
             /\ tab.route # "migration" \/ isOfficer \/ isCommunity
             /\ isTabShown(tab.route)
             /\ entry = Entry(tab.hash, Page(tab.route, ""),
                          IF tab.route = "rankings" THEN isRankingRoute(Here) ELSE tab.route = Here,
                          IF tab.route = "rankings" THEN Boards ELSE {})
  <2>1. PICK tab \in OVERVIEW_TABS :
             /\ tab.route # "migration" \/ isOfficer \/ isCommunity
             /\ isTabShown(tab.route)
             /\ entry = Entry(tab.hash, Page(tab.route, ""),
                          IF tab.route = "rankings" THEN isRankingRoute(Here) ELSE tab.route = Here,
                          IF tab.route = "rankings" THEN Boards ELSE {})
    BY <1>2
  <2>2. entry.hash = tab.hash /\ entry.opens = Page(tab.route, "")
        /\ entry.children = IF tab.route = "rankings" THEN Boards ELSE {}
    BY <2>1 DEF Entry
  <2>3. tab.route \in {"overview", "rankings", "migration"} /\ routeFromHash(tab.hash) = tab.route
    BY RoutesOfTabs DEF OVERVIEW_TABS, Tab
  <2>4. Opened(tab.route) /\ isTabShown(tabKeyOf(tab.route))
    BY <2>1, <2>3, KeysOfTabs DEF Opened, communityMayOpen
  <2>5. Drawn(tab.hash) = Page(tab.route, "")
    <3>1. CASE tab.route # "migration"
      BY <2>3, <2>4, <3>1, LeadsToFree DEF Free
    <3>2. CASE tab.route = "migration"
      <4>1. Drawn(tab.hash) = Screen("migration", tab.hash)
        BY <2>3, <2>4, <3>2, DrawnScreens DEF Itself
      <4> QED
        BY <4>1, <2>1, <2>4, <3>2 DEF Screen
    <3> QED
      BY <3>1, <3>2
  <2>6. \A child \in entry.children : Drawn(child.hash) = child.opens
    BY <2>1, <2>2, LeadsToBoards
  <2> QED
    BY <2>2, <2>5, <2>6
<1> QED
  BY <1>1, <1>2 DEF Watch

\* Our alliance, and the views of it that are ours to have.
LEMMA OwnLeads ==
  ASSUME NavigationAssumption, TypeOK, isMember, NEW entry \in OwnEntry
  PROVE  /\ Drawn(entry.hash) = entry.opens
         /\ \A child \in entry.children : Drawn(child.hash) = child.opens
<1> DEFINE alliances(view) == Child(allianceHash(own, view), Page("alliance", <<own, view>>),
                     onOwn /\ allianceViewFromHash(address) = view)
<1>1. ~ (own = Unknown \/ isCommunity \/ ~ isTabShown("alliance"))
  BY DEF OwnEntry
<1>2. entry = Entry(allianceHash(own, "members"), Page("alliance", <<own, "members">>), onOwn,
                    {alliances(view) : view \in ToSet(ALLIANCE_VIEWS) \ {"names"}})
  BY <1>1 DEF OwnEntry
<1>3. own \in Ours /\ own \in Ids
  BY <1>1 DEF TypeOK, NavigationAssumption
<1>4. ASSUME NEW view \in ToSet(ALLIANCE_VIEWS) \ {"names"}
      PROVE  Drawn(allianceHash(own, view)) = Page("alliance", <<own, view>>)
  <2> DEFINE a == allianceHash(own, view)
  <2>1. routeFromHash(a) = "alliance" /\ a[2] = own /\ allianceViewFromHash(a) = view
    BY <1>3, AllianceRoute
  <2> HIDE DEF a
  <2>2. Drawn(a) = CommunityGate(a[2], AlliancePage(a[2], allianceViewFromHash(a)))
    BY <1>1, <2>1, DrawnThemselves DEF Opened, isStandaloneRoute
  <2>3. view \in OfferedViews(own)
    BY <1>3 DEF OfferedViews
  <2>4. Drawn(a) = AlliancePage(own, view)
    BY <1>1, <2>1, <2>2 DEF CommunityGate
  <2> QED
    BY <2>3, <2>4 DEF AlliancePage, a
<1>5. "members" \in ToSet(ALLIANCE_VIEWS) \ {"names"}
  BY Lists
<1>6. /\ entry.hash = allianceHash(own, "members")
           /\ entry.opens = Page("alliance", <<own, "members">>)
      /\ entry.children = {alliances(view) : view \in ToSet(ALLIANCE_VIEWS) \ {"names"}}
  BY <1>2 DEF Entry
<1>7. \A view : alliances(view).hash = allianceHash(own, view)
      /\ alliances(view).opens = Page("alliance", <<own, view>>)
  BY DEF Child
<1> HIDE DEF alliances
<1> QED
  BY <1>4, <1>5, <1>6, <1>7

\* However the events strip is arranged, its tabs are of the list.
TabsInv == \A i \in DOMAIN strip : strip[i] \in ToSet(EVENTS_HUB_TABS)

\* A tab of the events strip.
LEMMA HubLeads ==
  ASSUME isMember, ~ isCommunity, isTabShown("events"), NEW tab \in ToSet(EVENTS_HUB_TABS),
         tab.route # "season2" \/ isAdmin
  PROVE  Drawn(tab.hash) = Page(tab.route, "")
<1>1. routeFromHash(tab.hash) = tab.route /\ tab.route \in HubRoutes
  BY RoutesOfTabs DEF HubRoutes
<1>2. isTabShown(tabKeyOf(tab.route)) /\ Opened(tab.route)
  BY <1>1, KeysOfTabs DEF Opened
<1>3. tab.route # "events"
  BY DEF ToSet, EVENTS_HUB_TABS, Tab
<1>4. CASE tab.route # "season2"
  BY <1>1, <1>2, <1>3, <1>4, KeysOfTabs, LeadsToFree DEF Free
<1>5. CASE tab.route = "season2"
  <2>1. Drawn(tab.hash) = Screen("season2", tab.hash)
    BY <1>1, <1>2, <1>5, DrawnScreens DEF Itself
  <2> QED
    BY <2>1, <1>2, <1>5 DEF Screen
<1> QED
  BY <1>4, <1>5

\* A screen with tabs: the one wish for is drawn.
LEMMA TabbedLeads ==
  ASSUME isMember, NEW a
  PROVE  /\ a \in tabbed("members", MEMBERS) /\ ~ isCommunity /\ isTabShown("members")
              /\ isAllowed("members.view")
              => Drawn(a) = Page("members", MembersTab(a))
         /\ a \in tabbed("hive", HIVE) /\ ~ isCommunity /\ isTabShown("hive")
              => Drawn(a) = HivePage(HiveTab(a))
         /\ a \in PlannerHashes /\ isTabShown("planner")
              => Drawn(a) = Page("planner", PlannerTab(a))
         /\ a \in tabbed("event-guide", EVENT_GUIDE_TABS) /\ isTabShown("eventGuide")
              => Drawn(a) = EventGuidePage(eventGuideTabFromHash(a))
<1>1. ASSUME a \in tabbed("members", MEMBERS), ~ isCommunity, isTabShown("members"),
             isAllowed("members.view")
      PROVE  Drawn(a) = Page("members", MembersTab(a))
  <2>1. Drawn(a) = Screen("members", a)
    BY <1>1, TabbedRoutes, DrawnScreens DEF Itself, Opened
  <2>2. isTabShown(tabKeyOf("members")) /\ "members.view" \in Capabilities
    BY <1>1, KeysOfTabs DEF Capabilities
  <2>3. Screen("members", a) = Gated("members.view", Page("members", MembersTab(a)))
    BY <2>2 DEF Screen
  <2> QED
    BY <1>1, <2>1, <2>2, <2>3, AllowedIsKnown
<1>2. ASSUME a \in tabbed("hive", HIVE), ~ isCommunity, isTabShown("hive")
      PROVE  Drawn(a) = HivePage(HiveTab(a))
  <2>1. Drawn(a) = Screen("hive", a)
    BY <1>2, TabbedRoutes, DrawnScreens DEF Itself, Opened
  <2>2. isTabShown(tabKeyOf("hive"))
    BY <1>2, KeysOfTabs
  <2> QED
    BY <2>1, <2>2 DEF Screen
<1>3. ASSUME a \in PlannerHashes, isTabShown("planner")
      PROVE  Drawn(a) = Page("planner", PlannerTab(a))
  <2>1. Drawn(a) = Screen("planner", a)
    BY <1>3, TabbedRoutes, DrawnScreens DEF Itself, Opened, communityMayOpen
  <2>2. isTabShown(tabKeyOf("planner"))
    BY <1>3, KeysOfTabs
  <2> QED
    BY <2>1, <2>2 DEF Screen
<1>4. ASSUME a \in tabbed("event-guide", EVENT_GUIDE_TABS), isTabShown("eventGuide")
      PROVE  Drawn(a) = EventGuidePage(eventGuideTabFromHash(a))
  <2>1. Drawn(a) = Screen("eventGuide", a)
    BY <1>4, TabbedRoutes, DrawnScreens DEF Itself, Opened, communityMayOpen
  <2>2. isTabShown(tabKeyOf("eventGuide"))
    BY <1>4, KeysOfTabs
  <2> QED
    BY <2>1, <2>2 DEF Screen
<1> QED
  BY <1>1, <1>2, <1>3, <1>4

\* The tabs listed under an entry.
LEMMA TabsLead ==
  ASSUME TabsInv, isMember, NEW route \in {"events", "members", "hive", "planner", "eventGuide"},
         isTabShown(route), ~ isCommunity \/ route \in {"planner", "eventGuide"},
         route = "members" => isAllowed("members.view"), NEW child \in TabsOf(route)
  PROVE  Drawn(child.hash) = child.opens
<1>1. CASE route = "events"
  <2>1. PICK i \in eventsTabs : child = Child(strip[i].hash, Page(strip[i].route, ""),
             strip[i].route = Here)
    BY <1>1 DEF TabsOf
  <2>2. strip[i] \in ToSet(EVENTS_HUB_TABS) /\ (strip[i].route # "season2" \/ isAdmin)
    BY <2>1 DEF eventsTabs, TabsInv
  <2> QED
    BY <1>1, <2>1, <2>2, HubLeads DEF Child
<1>2. CASE route = "members"
  <2>1. PICK tab \in ToSet(MEMBERS) :
          child = Child(TabHash("members", MEMBERS, tab), Page("members", tab),
                Here = "members" /\ MembersTab(address) = tab)
    BY <1>2 DEF TabsOf
  <2>2. child.hash = TabHash("members", MEMBERS, tab) /\ child.opens = Page("members", tab)
    BY <2>1 DEF Child
  <2> QED
    BY <1>2, <2>2, TabsAreRead, TabbedLeads
<1>3. CASE route = "hive"
  <2>1. PICK tab \in ToSet(HIVE) :
          /\ isAllowed("hive.plan")
          /\ child = Child(TabHash("hive", HIVE, tab), Page("hive", tab),
                Here = "hive" /\ HiveTab(address) = tab)
    BY <1>3 DEF TabsOf
  <2>2. child.hash = TabHash("hive", HIVE, tab) /\ child.opens = Page("hive", tab)
    BY <2>1 DEF Child
  <2>3. HivePage(tab) = Page("hive", tab)
    BY <2>1 DEF HivePage
  <2> QED
    BY <1>3, <2>2, <2>3, TabsAreRead, TabbedLeads
<1>4. CASE route = "planner"
  <2>1. PICK tab \in ToSet(PLANNER) :
          child = Child(TabHash("planner", PLANNER, tab), Page("planner", tab),
                Here = "planner" /\ PlannerTab(address) = tab)
    BY <1>4 DEF TabsOf
  <2>2. child.hash = TabHash("planner", PLANNER, tab) /\ child.opens = Page("planner", tab)
    BY <2>1 DEF Child
  <2> QED
    BY <1>4, <2>2, TabsAreRead, TabbedLeads
<1>5. CASE route = "eventGuide"
  <2>1. PICK tab \in ToSet(EVENT_GUIDE_TABS) :
          /\ isEventGuideTabOpen(tab, isCommunity)
          /\ child = Child(eventGuideHash(tab), Page("eventGuide", tab),
                Here = "eventGuide" /\ eventGuideTabFromHash(address) = tab)
    BY <1>5 DEF TabsOf
  <2>2. child.hash = eventGuideHash(tab) /\ child.opens = Page("eventGuide", tab)
    BY <2>1 DEF Child
  <2>3. EventGuidePage(tab) = Page("eventGuide", tab)
    BY <2>1 DEF EventGuidePage
  <2> QED
    BY <1>5, <2>2, <2>3, TabsAreRead, TabbedLeads
<1> QED
  BY <1>1, <1>2, <1>3, <1>4, <1>5

\* The screen behind an entry is the first of its tabs.
LEMMA AllianceLeads ==
  ASSUME TabsInv, isMember, NEW entry \in Alliance
  PROVE  /\ Drawn(entry.hash) = entry.opens
         /\ \A child \in entry.children : Drawn(child.hash) = child.opens
<1>1. PICK tab \in ALLIANCE_TABS :
        /\ ~ isCommunity \/ tab.route = "planner"
        /\ tab.route # "members" \/ isAllowed("members.view")
        /\ tab.route # "giftCodes" \/ isAllowed("giftcodes.manage")
        /\ isTabShown(tab.route)
        /\ entry = Entry(tab.hash, Opens(tab.route),
                         IF tab.route = "events" THEN inEventsHub(Here) ELSE tab.route = Here,
                         TabsOf(tab.route))
  BY DEF Alliance
<1>2. entry.hash = tab.hash /\ entry.opens = Opens(tab.route) /\ entry.children = TabsOf(tab.route)
  BY <1>1 DEF Entry
<1>3. routeFromHash(tab.hash) = tab.route
  BY RoutesOfTabs
<1>4. \/ tab = Tab("members", <<"members">>) \/ tab = Tab("hive", <<"hive">>)
      \/ tab = Tab("events", <<"events">>)
      \/ tab = Tab("planner", <<"planner">>) \/ tab = Tab("giftCodes", <<"gift-codes">>)
  BY DEF ALLIANCE_TABS
<1>5. Drawn(tab.hash) = Opens(tab.route)
  <2>1. CASE tab = Tab("members", <<"members">>)
    <3>1. tab.hash = TabHash("members", MEMBERS, "settled") /\ tab.route = "members"
      BY <2>1, BareTabs DEF Tab
    <3>2. Drawn(tab.hash) = Page("members", "settled")
      BY <1>1, <3>1, BareTabs, TabsAreRead, TabbedLeads
    <3> QED
      BY <3>1, <3>2, BareTabs DEF Opens
  <2>2. CASE tab = Tab("hive", <<"hive">>)
    <3>1. tab.hash = TabHash("hive", HIVE, "plan") /\ tab.route = "hive"
      BY <2>2, BareTabs DEF Tab
    <3>2. Drawn(tab.hash) = HivePage("plan")
      BY <1>1, <3>1, BareTabs, TabsAreRead, TabbedLeads
    <3> QED
      BY <3>1, <3>2, BareTabs DEF Opens, HivePage
  <2>3. CASE tab = Tab("events", <<"events">>)
    <3>1. tab.route = "events" /\ isTabShown(tabKeyOf("events")) /\ ~ isCommunity
      BY <1>1, <2>3, KeysOfTabs DEF Tab
    <3>2. Drawn(tab.hash) = Screen("events", tab.hash)
      BY <1>3, <3>1, DrawnScreens DEF Itself, Opened
    <3> QED
      BY <3>1, <3>2 DEF Screen, Opens
  <2>4. CASE tab = Tab("planner", <<"planner">>)
    <3>1. tab.hash = TabHash("planner", PLANNER, "raise") /\ tab.route = "planner"
      BY <2>4, BareTabs DEF Tab
    <3>2. Drawn(tab.hash) = Page("planner", "raise")
      BY <1>1, <3>1, BareTabs, TabsAreRead, TabbedLeads
    <3> QED
      BY <3>1, <3>2, BareTabs DEF Opens
  <2>5. CASE tab = Tab("giftCodes", <<"gift-codes">>)
    <3>1. tab.route = "giftCodes" /\ isTabShown(tabKeyOf("giftCodes")) /\ ~ isCommunity
          /\ isAllowed("giftcodes.manage") /\ "giftcodes.manage" \in Capabilities
      BY <1>1, <2>5, KeysOfTabs DEF Tab, Capabilities
    <3>2. Drawn(tab.hash) = Screen("giftCodes", tab.hash)
      BY <1>3, <3>1, DrawnScreens DEF Itself, Opened
    <3>3. Screen("giftCodes", tab.hash) = Gated("giftcodes.manage", Page("giftCodes", ""))
      BY <3>1 DEF Screen
    <3> QED
      BY <3>1, <3>2, <3>3, AllowedIsKnown DEF Opens
  <2> QED
    BY <1>4, <2>1, <2>2, <2>3, <2>4, <2>5
<1>6. \A child \in TabsOf(tab.route) : Drawn(child.hash) = child.opens
  <2>1. CASE tab.route = "giftCodes"
    BY <2>1 DEF TabsOf
  <2>2. CASE tab.route \in {"events", "members", "hive", "planner", "eventGuide"}
    BY <1>1, <2>2, TabsLead
  <2> QED
    BY <1>4, <2>1, <2>2 DEF Tab
<1> QED
  BY <1>2, <1>5, <1>6

\* The calendar, the guide of the events and the values of the shop.
LEMMA EventsLead ==
  ASSUME TabsInv, isMember, NEW entry \in Events
  PROVE  /\ Drawn(entry.hash) = entry.opens
         /\ \A child \in entry.children : Drawn(child.hash) = child.opens
<1>1. PICK tab \in EVENT_TABS :
        /\ isTabShown(tab.route)
        /\ entry = Entry(tab.hash, Opens(tab.route), tab.route = Here, TabsOf(tab.route))
  BY DEF Events
<1>2. entry.hash = tab.hash /\ entry.opens = Opens(tab.route) /\ entry.children = TabsOf(tab.route)
  BY <1>1 DEF Entry
<1>3. routeFromHash(tab.hash) = tab.route
  BY RoutesOfTabs
<1>4. CASE tab = Tab("eventGuide", <<"event-guide">>)
  <2>1. tab.hash = eventGuideHash("today") /\ tab.route = "eventGuide"
    BY <1>4, BareTabs DEF Tab
  <2>2. Drawn(tab.hash) = EventGuidePage("today")
    BY <1>1, <2>1, BareTabs, TabsAreRead, TabbedLeads
  <2>3. Drawn(tab.hash) = Opens(tab.route)
    BY <2>1, <2>2, BareTabs DEF Opens, EventGuidePage
  <2> QED
    BY <1>1, <1>2, <2>1, <2>3, TabsLead
<1>5. CASE tab.route \in {"calendar", "shopValue"}
  <2>1. tab.route \in Free /\ isTabShown(tabKeyOf(tab.route)) /\ Opened(tab.route)
    BY <1>1, <1>5, KeysOfTabs DEF Free, Opened, communityMayOpen
  <2>2. Drawn(tab.hash) = Page(tab.route, "")
    BY <1>3, <2>1, LeadsToFree
  <2>3. Opens(tab.route) = Page(tab.route, "") /\ TabsOf(tab.route) = {}
    BY <1>5 DEF Opens, TabsOf
  <2> QED
    BY <1>2, <2>2, <2>3
<1> QED
  BY <1>4, <1>5 DEF EVENT_TABS, Tab

\* The notices and the guides.
LEMMA BoardsLead ==
  ASSUME isMember, NEW entry \in BoardEntries
  PROVE  /\ Drawn(entry.hash) = entry.opens
         /\ entry.children = {}
<1>1. PICK tab \in BOARD_TABS :
        /\ ~ isCommunity
        /\ entry = Entry(tab.hash, Page(tab.route, ""),
                         Here = tab.route \/ (Here = "notice" /\ tab.route = "notices")
                                          \/ (Here = "guide" /\ tab.route = "guides"), {})
  BY DEF BoardEntries
<1>2. entry.hash = tab.hash /\ entry.opens = Page(tab.route, "") /\ entry.children = {}
  BY <1>1 DEF Entry
<1>3. routeFromHash(tab.hash) = tab.route /\ tab.route \in {"notices", "guides"}
  BY RoutesOfTabs DEF BOARD_TABS, Tab
<1>4. ~ isStandaloneRoute(tab.route) /\ Opened(tab.route)
  BY <1>1, <1>3 DEF Opened, isStandaloneRoute
<1> QED
  BY <1>2, <1>3, <1>4, DrawnThemselves

\* An address of the settings opens the group and the section it names.
LEMMA SettingsLead ==
  ASSUME mayOpenSettings, NEW group \in ToSet(ADMIN_GROUPS), NEW slug
  PROVE  /\ Drawn(<<"admin">>) = SettingsPage("access")
         /\ Drawn(adminHash(group)) = SettingsPage(group)
         /\ Drawn(adminSectionHash(group, slug)) = AdminPage(group, slug)
<1>1. isMember /\ ~ isCommunity
  BY DEF mayOpenSettings, isMember, isCommunity
<1>2. ASSUME NEW a, routeFromHash(a) = "admin"
      PROVE  Drawn(a) = AdminPage(adminGroupFromHash(a), adminSectionFromHash(a))
  BY <1>1, <1>2, DrawnThemselves DEF Opened, isStandaloneRoute
<1> QED
  BY <1>2, SettingsRoutes DEF SettingsPage

\* The account and the settings.
LEMMA FooterLeads ==
  ASSUME isMember, NEW entry \in buildFooter
  PROVE  /\ Drawn(entry.hash) = entry.opens
         /\ \A child \in entry.children : Drawn(child.hash) = child.opens
<1> DEFINE settings(group) == Child(adminHash(group), SettingsPage(group),
                                    Here = "admin" /\ adminGroupFromHash(address) = group)
<1>1. CASE entry = Entry(<<"account">>, Page("account", ""), Here = "account", {})
  <2>1. entry.hash = <<"account">> /\ entry.opens = Page("account", "") /\ entry.children = {}
    BY <1>1 DEF Entry
  <2>2. ~ isStandaloneRoute("account") /\ Opened("account")
    BY DEF Opened, isStandaloneRoute, communityMayOpen
  <2> QED
    BY <2>1, <2>2, RoutesOfTabs, DrawnThemselves
<1>2. CASE /\ isAdmin
           /\ entry = Entry(<<"admin">>, SettingsPage("access"), Here = "admin",
                            {settings(group) : group \in ToSet(ADMIN_GROUPS)})
  <2>1. entry.hash = <<"admin">> /\ entry.opens = SettingsPage("access")
        /\ entry.children = {settings(group) : group \in ToSet(ADMIN_GROUPS)}
    BY <1>2 DEF Entry
  <2>2. \A group : settings(group).hash = adminHash(group)
        /\ settings(group).opens = SettingsPage(group)
    BY DEF Child
  <2>3. mayOpenSettings /\ "access" \in ToSet(ADMIN_GROUPS)
    BY <1>2, Lists DEF mayOpenSettings, isAdmin
  <2> HIDE DEF settings
  <2> QED
    BY <2>1, <2>2, <2>3, SettingsLead
<1>3. ~ isAdmin => buildFooter = {Entry(<<"account">>, Page("account", ""), Here = "account", {})}
  BY DEF buildFooter
<1>4. isAdmin => buildFooter = {Entry(<<"account">>, Page("account", ""), Here = "account", {})}
        \cup {Entry(<<"admin">>, SettingsPage("access"), Here = "admin",
                            {settings(group) : group \in ToSet(ADMIN_GROUPS)})}
  BY DEF buildFooter
<1> QED
  BY <1>1, <1>2, <1>3, <1>4

\* The strips: on a hidden screen they are drawn above the notice.
LEMMA EventsStripLeads ==
  ASSUME TabsInv, isMember, NEW child \in EventsTabs
  PROVE  Leads(child.hash, child.opens)
<1>1. inEventsHub(Here) /\ ~ isCommunity
  BY DEF EventsTabs
<1>2. PICK i \in eventsTabs :
        child = Child(strip[i].hash, Page(strip[i].route, ""),
                      IF Here = "events" THEN i = Min(eventsTabs) ELSE strip[i].route = Here)
  BY <1>1 DEF EventsTabs
<1>3. child.hash = strip[i].hash /\ child.opens = Page(strip[i].route, "")
  BY <1>2 DEF Child
<1>4. strip[i] \in ToSet(EVENTS_HUB_TABS) /\ (strip[i].route # "season2" \/ isAdmin)
  BY <1>2 DEF eventsTabs, TabsInv
<1>5. CASE isTabShown("events")
  BY <1>1, <1>3, <1>4, <1>5, HubLeads DEF Leads
<1>6. CASE ~ isTabShown("events")
  <2>1. ASSUME NEW a, routeFromHash(a) \in HubRoutes
        PROVE  Drawn(a) = Notice("hidden")
    <3>1. routeFromHash(a) \notin Itself
      BY <2>1, KeysOfTabs DEF Itself
    <3>2. Drawn(a) = Screen(routeFromHash(a), a)
      BY <1>1, <3>1, DrawnScreens DEF Opened
    <3> QED
      BY <1>6, <2>1, <3>2, KeysOfTabs, HiddenScreens
  <2>2. routeFromHash(strip[i].hash) \in HubRoutes
    BY <1>4, RoutesOfTabs DEF HubRoutes
  <2>3. routeFromHash(address) \in HubRoutes
    BY <1>1 DEF Here, inEventsHub
  <2> QED
    BY <1>3, <2>1, <2>2, <2>3 DEF Leads
<1> QED
  BY <1>5, <1>6

LEMMA BoardsStripLeads ==
  ASSUME isMember, isRankingRoute(Here), NEW child \in Boards
  PROVE  Leads(child.hash, child.opens)
<1>1. CASE isTabShown("rankings")
  BY <1>1, LeadsToBoards DEF Leads
<1>2. CASE ~ isTabShown("rankings")
  <2>1. ASSUME NEW a, routeFromHash(a) \in {"rankings", "crossRankings", "arena"}
        PROVE  Drawn(a) = Notice("hidden")
    <3>1. routeFromHash(a) \notin Itself /\ Opened(routeFromHash(a))
      BY <2>1 DEF Itself, Opened, communityMayOpen
    <3>2. Drawn(a) = Screen(routeFromHash(a), a)
      BY <3>1, DrawnScreens
    <3> QED
      BY <1>2, <2>1, <3>2, KeysOfTabs, HiddenScreens
  <2>2. RankingRoutes = {"rankings", "crossRankings", "arena"}
    BY DEF RankingRoutes, RANKING_TABS, Tab
  <2>3. routeFromHash(address) \in {"rankings", "crossRankings", "arena"}
    BY <2>2 DEF Here, isRankingRoute
  <2>4. PICK board \in RANKING_TABS : child = Child(board.hash, Page(board.route, ""),
             board.route = Here)
    BY DEF Boards
  <2>5. child.hash = board.hash /\ board.route \in RankingRoutes
    BY <2>4 DEF Child, RankingRoutes
  <2>6. routeFromHash(child.hash) \in {"rankings", "crossRankings", "arena"}
    BY <2>2, <2>5, RoutesOfTabs
  <2> QED
    BY <2>1, <2>3, <2>6 DEF Leads
<1> QED
  BY <1>1, <1>2

\* Every section is drawn by the component of its group, but for one.
LEMMA SectionsOfPanels ==
  ASSUME NEW i \in DOMAIN ADMIN_SECTIONS
  PROVE  /\ ADMIN_SECTIONS[i].slug # "nothing"
         /\ \/ ADMIN_SECTIONS[i].slug \in Panels[ADMIN_SECTIONS[i].group]
            \/ <<ADMIN_SECTIONS[i].group, ADMIN_SECTIONS[i].slug>> \in Undrawn
<1> USE DEF ADMIN_SECTIONS, Section
<1>1. i \in 1 .. 25
  OBVIOUS
<1>2. ADMIN_SECTIONS[i].slug # "nothing"
  BY <1>1
<1>3. CASE i \in 1 .. 5
  BY <1>3 DEF Panels, AccessGroup
<1>4. CASE i \in 6 .. 9
  BY <1>4 DEF Panels, AllianceGroup
<1>5. CASE i \in 10 .. 16
  BY <1>5 DEF Panels, DisplayGroup
<1>6. CASE i \in 17 .. 23
  BY <1>6 DEF Panels, CatalogueGroup
<1>7. CASE i \in 24 .. 25
  BY <1>7 DEF Panels, OperationsGroup, Undrawn
<1> QED
  BY <1>1, <1>2, <1>3, <1>4, <1>5, <1>6, <1>7

LEMMA AdminStripsLead ==
  ASSUME NEW child \in AdminStrips
  PROVE  Leads(child.hash, child.opens)
<1> DEFINE group == adminGroupFromHash(address)
           open == OpenSection(group, adminSectionFromHash(address))
<1>1. Here = "admin" /\ mayOpenSettings
  BY DEF AdminStrips
<1>2. \/ \E g \in ToSet(ADMIN_GROUPS) : child = Child(adminHash(g), SettingsPage(g), g = group)
      \/ \E i \in usableSectionsIn(group) :
           child = Child(adminSectionHash(group, ADMIN_SECTIONS[i].slug),
                       Page("admin", <<group, ADMIN_SECTIONS[i].slug>>),
                       ADMIN_SECTIONS[i].slug = open)
  BY <1>1, Zenon DEF AdminStrips
<1>3. group \in ToSet(ADMIN_GROUPS)
  BY <1>1, GroupOfSettings DEF Here
<1> HIDE DEF group, open
<1>4. CASE \E g \in ToSet(ADMIN_GROUPS) : child = Child(adminHash(g), SettingsPage(g), g = group)
  <2>1. PICK g \in ToSet(ADMIN_GROUPS) : child = Child(adminHash(g), SettingsPage(g), g = group)
    BY <1>4
  <2>2. child.hash = adminHash(g) /\ child.opens = SettingsPage(g)
    BY <2>1 DEF Child
  <2> QED
    BY <1>1, <2>2, SettingsLead DEF Leads
<1>5. CASE \E i \in usableSectionsIn(group) :
           child = Child(adminSectionHash(group, ADMIN_SECTIONS[i].slug),
                       Page("admin", <<group, ADMIN_SECTIONS[i].slug>>),
                       ADMIN_SECTIONS[i].slug = open)
  <2>1. PICK i \in usableSectionsIn(group) :
           child = Child(adminSectionHash(group, ADMIN_SECTIONS[i].slug),
                       Page("admin", <<group, ADMIN_SECTIONS[i].slug>>),
                       ADMIN_SECTIONS[i].slug = open)
    BY <1>5
  <2> DEFINE slug == ADMIN_SECTIONS[i].slug
  <2>2. child.hash = adminSectionHash(group, slug) /\ child.opens = Page("admin", <<group, slug>>)
    BY <2>1 DEF Child
  <2>3. i \in DOMAIN ADMIN_SECTIONS /\ ADMIN_SECTIONS[i].group = group
    BY <2>1 DEF usableSectionsIn
  <2>4. slug # "nothing" /\ (slug \in Panels[group] \/ <<group, slug>> \in Undrawn)
    BY <2>3, SectionsOfPanels
  <2>5. OpenSection(group, slug) = slug
    BY <2>1 DEF OpenSection
  <2>6. Drawn(child.hash) = AdminPage(group, slug)
    BY <1>1, <1>3, <2>2, SettingsLead
  <2> HIDE DEF slug
  <2>7. AdminPage(group, slug) = Page("admin", <<group,
        IF slug \in Panels[group] THEN slug ELSE "blank">>)
    BY <2>4, <2>5 DEF AdminPage
  <2>8. child.opens.screen = "admin" /\ child.opens.tab = <<group, slug>>
    BY <2>2 DEF Page
  <2> QED
    BY <2>2, <2>4, <2>6, <2>7, <2>8 DEF Leads
<1> QED
  BY <1>2, <1>4, <1>5

\* Only the page of an alliance is drawn as one.
LEMMA AlliancePagesOnly ==
  ASSUME NEW a, Drawn(a).screen = "alliance"
  PROVE  routeFromHash(a) = "alliance" /\ ~ walled("alliance") /\ role # Unknown
         /\ Drawn(a) = AlliancePage(a[2], allianceViewFromHash(a))
         /\ ~ (isCommunity /\ a[2] \in Ours)
<1> DEFINE route == routeFromHash(a)
<1>1. \A what : Notice(what).screen = what
  BY DEF Notice, Page
<1>2. \A screen, tab : Page(screen, tab).screen = screen
  BY DEF Page
<1>3. \A group, wish : AdminPage(group, wish).screen # "alliance"
  BY <1>1, <1>2 DEF AdminPage
<1>4. ASSUME route \notin Itself  PROVE  Screen(route, a).screen # "alliance"
  <2>1. \A capability, page : page.screen # "alliance"
        => Gated(capability, page).screen # "alliance"
    BY <1>1 DEF Gated
  <2>2. /\ \A wish : HivePage(wish).screen # "alliance"
        /\ \A wish : EventGuidePage(wish).screen # "alliance"
    BY <1>2 DEF HivePage, EventGuidePage
  <2>3. route # "alliance"
    BY <1>4 DEF Itself
  <2> HIDE DEF route
  <2>4. CASE ~ isTabShown(tabKeyOf(route))
    BY <1>1, <2>4, HiddenScreens
  <2>5. CASE isTabShown(tabKeyOf(route))
    <3>1. CASE route \in {"members", "giftCodes", "arena"}
      BY <1>2, <2>1, <2>5, <3>1 DEF Screen
    <3>2. CASE route \in {"migration", "season2", "hive", "eventGuide"}
      BY <1>1, <1>2, <2>2, <2>5, <3>2 DEF Screen
    <3>3. CASE route \in {"events", "blackMoney", "planner"}
      <4>1. CASE route \in {"events", "blackMoney"}
        <5>1. PICK tab : Screen(route, a) = Page("blackMoney", tab)
          BY <2>5, <4>1 DEF Screen
        <5> QED
          BY <1>2, <5>1
      <4>2. CASE route = "planner"
        <5>1. Screen(route, a) = Page("planner", PlannerTab(a))
          BY <2>5, <4>2 DEF Screen
        <5> QED
          BY <1>2, <5>1
      <4> QED
        BY <3>3, <4>1, <4>2
    <3>4. CASE route \notin {"members", "giftCodes", "arena", "migration", "season2", "hive",
                            "eventGuide", "events", "blackMoney", "planner"}
      <4>1. Screen(route, a) = Page(route, "")
        BY <2>5, <3>4 DEF Screen
      <4> QED
        BY <1>2, <2>3, <4>1
    <3> QED
      BY <3>1, <3>2, <3>3, <3>4
  <2> QED
    BY <2>4, <2>5
<1>5. \A page : page.screen # "alliance" => \A id : CommunityGate(id, page).screen # "alliance"
  BY <1>1 DEF CommunityGate
<1>6. ~ walled(route) /\ (isStandaloneRoute(route) \/ role # Unknown)
      /\ ~ (isCommunity /\ ~ communityMayOpen(route))
  <2> HIDE DEF route
  <2> QED
    BY <1>1, <1>2 DEF Drawn, route, walled, isCommunity, isMember, Unknown
<1>7. route = "alliance"
  <2> SUFFICES ASSUME route # "alliance" PROVE FALSE
    OBVIOUS
  <2>1. route = "admin" \/ route = "player" \/ route \in {"server", "guide", "notice"}
        \/ route \in {"login", "terms", "privacy", "monthCards", "account", "guides", "notices",
                     "schedule"}
        \/ route \notin Itself
    BY DEF Itself
  <2> HIDE DEF route
  <2> QED
    BY <1>1, <1>2, <1>3, <1>4, <1>5, <1>6, <2>1 DEF Drawn, route, Itself
<1>8. Drawn(a) = CommunityGate(a[2], AlliancePage(a[2], allianceViewFromHash(a)))
  BY <1>6, <1>7 DEF Drawn, isStandaloneRoute
<1> QED
  BY <1>1, <1>6, <1>7, <1>8 DEF CommunityGate, isStandaloneRoute

LEMMA AllianceStripLeads ==
  ASSUME isMember, NEW child \in AllianceStrip
  PROVE  Leads(child.hash, child.opens)
<1>1. Drawn(address).screen = "alliance"
  BY DEF AllianceStrip
<1>2. PICK view \in OfferedViews(address[2]) :
        child = Child(allianceHash(address[2], view), Page("alliance", <<address[2], view>>),
                      Drawn(address).tab[2] = view)
  BY <1>1 DEF AllianceStrip
<1> DEFINE id == address[2]
           a == allianceHash(id, view)
<1>3. child.hash = a /\ child.opens = Page("alliance", <<id, view>>)
  BY <1>2 DEF Child
<1>4. id \in Ids /\ ~ (isCommunity /\ id \in Ours)
  BY <1>1, AlliancePagesOnly, AlliancesOnly
<1>5. view \in ToSet(ALLIANCE_VIEWS)
  BY <1>2 DEF OfferedViews
<1>6. routeFromHash(a) = "alliance" /\ a[2] = id /\ allianceViewFromHash(a) = view
  BY <1>4, <1>5, AllianceRoute
<1> HIDE DEF a
<1>7. Drawn(a) = CommunityGate(a[2], AlliancePage(a[2], allianceViewFromHash(a)))
  BY <1>6, DrawnThemselves DEF Opened, isStandaloneRoute, communityMayOpen
<1>8. Drawn(a) = AlliancePage(id, view)
  BY <1>4, <1>6, <1>7 DEF CommunityGate
<1> QED
  BY <1>2, <1>3, <1>8 DEF AlliancePage, Leads

\* All of them together.
LEMMA LinksLead ==
  ASSUME NavigationAssumption, TypeOK, TabsInv
  PROVE  LinksLeadWhereTheySay
<1> SUFFICES ASSUME inShell, NEW link \in Links  PROVE Leads(link.hash, link.opens)
  BY DEF LinksLeadWhereTheySay, Leads, Links
<1>1. isMember
  BY DEF inShell
<1>2. ASSUME NEW entry \in buildNav
      PROVE  Drawn(entry.hash) = entry.opens
             /\ \A child \in entry.children : Drawn(child.hash) = child.opens
  BY <1>1, <1>2, WatchLeads, OwnLeads, AllianceLeads, EventsLead, BoardsLead,
     FooterLeads DEF buildNav
<1>3. ASSUME NEW child \in Strips  PROVE Leads(child.hash, child.opens)
  <2>1. child \in EventsTabs \/ child \in AdminStrips \/ child \in AllianceStrip
        \/ (isRankingRoute(Here) /\ child \in Boards)
    BY <1>3 DEF Strips
  <2> QED
    BY <1>1, <2>1, EventsStripLeads, AdminStripsLead, AllianceStripLeads, BoardsStripLeads
<1>4. \/ \E entry \in buildNav : link = Link(entry.hash, entry.opens)
      \/ \E entry \in buildNav : \E child \in entry.children : link = Link(child.hash, child.opens)
      \/ \E child \in Strips : link = Link(child.hash, child.opens)
  <2> DEFINE children == (UNION {entry.children : entry \in buildNav}) \cup Strips
  <2>1. Links = {Link(entry.hash, entry.opens) : entry \in buildNav}
                \cup {Link(child.hash, child.opens) : child \in children}
    BY DEF Links
  <2>2. \A child \in children :
          (\E entry \in buildNav : child \in entry.children) \/ child \in Strips
    OBVIOUS
  <2> HIDE DEF children
  <2> QED
    BY <2>1, <2>2
<1>5. \A hash, opens : Link(hash, opens).hash = hash /\ Link(hash, opens).opens = opens
  BY DEF Link
<1> QED
  BY <1>2, <1>3, <1>4, <1>5 DEF Leads

-----------------------------------------------------------------------------
(* What is marked as open is what is drawn: MarksTellTheTruth.              *)

MarkedRight(child) ==
  \/ Drawn(address) = child.opens
  \/ Drawn(address).tab = "notice"
  \/ BareHub
  \/ Here = "admin" /\ adminGroupFromHash(address) = child.opens.tab[1]

\* Wherever a reader is not let in, there is a notice.
LEMMA OpenedOrNotice ==
  ASSUME isMember, ~ isStandaloneRoute(Here), Drawn(address).tab # "notice"
  PROVE  Opened(Here)
BY DEF Drawn, Here, Notice, Page, Opened, walled, Unknown, isMember, isCommunity

\* What is drawn where there is no notice.
LEMMA FreeIsDrawn ==
  ASSUME isMember, Here \in Free, Drawn(address).tab # "notice"
  PROVE  Drawn(address) = Page(Here, "")
<1>1. Here \notin Itself /\ ~ isStandaloneRoute(Here)
  BY DEF Itself, Free, isStandaloneRoute
<1>2. Drawn(address) = Screen(Here, address)
  BY <1>1, OpenedOrNotice, DrawnScreens DEF Here
<1>3. isTabShown(tabKeyOf(Here))
  BY <1>2, HiddenScreens DEF Notice, Page
<1> QED
  BY <1>2, <1>3, FreeScreens

LEMMA ScreenIsDrawn ==
  ASSUME isMember, Here \notin Itself, Drawn(address).tab # "notice"
  PROVE  Drawn(address) = Screen(Here, address) /\ isTabShown(tabKeyOf(Here))
<1>1. ~ isStandaloneRoute(Here)
  BY DEF Itself, isStandaloneRoute
<1>2. Drawn(address) = Screen(Here, address)
  BY <1>1, OpenedOrNotice, DrawnScreens DEF Here
<1> QED
  BY <1>2, HiddenScreens DEF Notice, Page

LEMMA GatedIsPage ==
  ASSUME NEW capability, NEW page, Gated(capability, page).tab # "notice"
  PROVE  Gated(capability, page) = page
BY DEF Gated, Notice, Page, gridPending, isAllowed

\* The marks, in the order of the links above.
LEMMA BoardsMarked ==
  ASSUME isMember, NEW child \in Boards, child.current
  PROVE  MarkedRight(child)
<1>1. PICK board \in RANKING_TABS : child = Child(board.hash, Page(board.route, ""),
           board.route = Here)
  BY DEF Boards
<1>2. child.opens = Page(board.route, "") /\ board.route = Here
  BY <1>1 DEF Child
<1>3. Here \in {"rankings", "crossRankings", "arena"}
  <2>1. \A tab \in RANKING_TABS : tab.route \in {"rankings", "crossRankings", "arena"}
    BY DEF RANKING_TABS, Tab
  <2> QED
    BY <1>1, <1>2, <2>1
<1>4. CASE Here = "arena"
  <2>1. Here \notin Itself
    BY <1>4 DEF Itself
  <2> SUFFICES ASSUME Drawn(address).tab # "notice"  PROVE Drawn(address) = Page("arena", "")
    BY <1>2, <1>4 DEF MarkedRight
  <2>2. Drawn(address) = Gated("arena.view", Page("arena", ""))
    BY <1>4, <2>1, ScreenIsDrawn DEF Screen
  <2> QED
    BY <2>2, GatedIsPage
<1>5. CASE Here # "arena"
  BY <1>2, <1>3, <1>5, FreeIsDrawn DEF Free, MarkedRight
<1> QED
  BY <1>4, <1>5

LEMMA OwnMarked ==
  ASSUME NavigationAssumption, TypeOK, isMember, NEW entry \in OwnEntry,
         NEW child \in entry.children, child.current
  PROVE  MarkedRight(child)
<1>1. own # Unknown
  BY DEF OwnEntry
<1>2. PICK view \in ToSet(ALLIANCE_VIEWS) \ {"names"} :
        child = Child(allianceHash(own, view), Page("alliance", <<own, view>>),
                     onOwn /\ allianceViewFromHash(address) = view)
  <2> DEFINE views(view) == Child(allianceHash(own, view), Page("alliance", <<own, view>>),
                                  onOwn /\ allianceViewFromHash(address) = view)
  <2>1. ~ (own = Unknown \/ isCommunity \/ ~ isTabShown("alliance"))
    BY DEF OwnEntry
  <2>2. entry = Entry(allianceHash(own, "members"), Page("alliance", <<own, "members">>), onOwn,
                      {views(view) : view \in ToSet(ALLIANCE_VIEWS) \ {"names"}})
    BY <2>1 DEF OwnEntry
  <2>3. entry.children = {views(view) : view \in ToSet(ALLIANCE_VIEWS) \ {"names"}}
    BY <2>2 DEF Entry
  <2> QED
    BY <2>3
<1>3. child.opens = Page("alliance", <<own, view>>) /\ onOwn /\ allianceViewFromHash(address) = view
  BY <1>2 DEF Child
<1>4. Here = "alliance" /\ address[2] = own /\ own \in Ours
  BY <1>1, <1>3 DEF onOwn, TypeOK, NavigationAssumption
<1> SUFFICES ASSUME Drawn(address).tab # "notice"
                    PROVE Drawn(address) = Page("alliance", <<own, view>>)
  BY <1>3 DEF MarkedRight
<1>5. Opened(Here)
  BY <1>4, OpenedOrNotice DEF isStandaloneRoute
<1>6. Drawn(address) = CommunityGate(own, AlliancePage(own, view))
  BY <1>3, <1>4, <1>5, DrawnThemselves DEF Here, isStandaloneRoute
<1>7. Drawn(address) = AlliancePage(own, view)
  BY <1>6 DEF CommunityGate, Notice, Page
<1>8. view \in OfferedViews(own)
  BY <1>4 DEF OfferedViews
<1> QED
  BY <1>7, <1>8 DEF AlliancePage

LEMMA HubMarked ==
  ASSUME isMember, Here \in HubRoutes \ {"events"}, Drawn(address).tab # "notice"
  PROVE  Drawn(address) = Page(Here, "")
<1>1. CASE Here = "season2"
  <2>1. Drawn(address) = Screen("season2", address) /\ isTabShown(tabKeyOf("season2"))
    BY <1>1, ScreenIsDrawn DEF Itself
  <2>2. Drawn(address) = IF isAdmin THEN Page("season2", "") ELSE Notice("refused")
    BY <2>1 DEF Screen
  <2> QED
    <3>1. CASE ~ isAdmin
      <4>1. Drawn(address) = Notice("refused")
        BY <2>2, <3>1
      <4>2. Drawn(address).tab = "notice"
        BY <4>1 DEF Notice, Page
      <4> QED
        BY <4>2
    <3> QED
      BY <1>1, <2>2, <3>1
<1>2. CASE Here # "season2"
  BY <1>2, KeysOfTabs, FreeIsDrawn DEF Free
<1> QED
  BY <1>1, <1>2

LEMMA TabsMarked ==
  ASSUME TabsInv, isMember, NEW route, NEW child \in TabsOf(route), child.current
  PROVE  MarkedRight(child)
<1> SUFFICES ASSUME Drawn(address).tab # "notice"  PROVE Drawn(address) = child.opens
  BY DEF MarkedRight
<1>1. CASE route = "events"
  <2>1. PICK i \in eventsTabs : child = Child(strip[i].hash, Page(strip[i].route, ""),
             strip[i].route = Here)
    BY <1>1 DEF TabsOf
  <2>2. child.opens = Page(Here, "") /\ strip[i].route = Here
    BY <2>1 DEF Child
  <2>3. strip[i] \in ToSet(EVENTS_HUB_TABS)
    BY <2>1 DEF eventsTabs, TabsInv
  <2>4. Here # "events" /\ Here \in HubRoutes
    <3>1. \A tab \in ToSet(EVENTS_HUB_TABS) : tab.route # "events" /\ tab.route \in HubRoutes
      BY DEF ToSet, EVENTS_HUB_TABS, Tab, HubRoutes
    <3> QED
      BY <2>2, <2>3, <3>1
  <2> QED
    BY <2>2, <2>4, HubMarked
<1>2. CASE route = "members"
  <2>1. PICK tab \in ToSet(MEMBERS) :
          child = Child(TabHash("members", MEMBERS, tab), Page("members", tab),
                Here = "members" /\ MembersTab(address) = tab)
    BY <1>2 DEF TabsOf
  <2>2. child.opens = Page("members", tab) /\ Here = "members" /\ MembersTab(address) = tab
    BY <2>1 DEF Child
  <2>3. Drawn(address) = Gated("members.view", Page("members", tab))
    BY <2>2, ScreenIsDrawn DEF Itself, Screen
  <2> QED
    BY <2>2, <2>3, GatedIsPage
<1>3. CASE route = "hive"
  <2>1. PICK tab \in ToSet(HIVE) :
          /\ isAllowed("hive.plan")
          /\ child = Child(TabHash("hive", HIVE, tab), Page("hive", tab),
                Here = "hive" /\ HiveTab(address) = tab)
    BY <1>3 DEF TabsOf
  <2>2. child.opens = Page("hive", tab) /\ Here = "hive" /\ HiveTab(address) = tab
    BY <2>1 DEF Child
  <2> QED
    BY <2>1, <2>2, ScreenIsDrawn DEF Itself, Screen, HivePage
<1>4. CASE route = "planner"
  <2>1. PICK tab \in ToSet(PLANNER) :
          child = Child(TabHash("planner", PLANNER, tab), Page("planner", tab),
                Here = "planner" /\ PlannerTab(address) = tab)
    BY <1>4 DEF TabsOf
  <2>2. child.opens = Page("planner", tab) /\ Here = "planner" /\ PlannerTab(address) = tab
    BY <2>1 DEF Child
  <2> QED
    BY <2>2, ScreenIsDrawn DEF Itself, Screen
<1>5. CASE route = "eventGuide"
  <2>1. PICK tab \in ToSet(EVENT_GUIDE_TABS) :
          /\ isEventGuideTabOpen(tab, isCommunity)
          /\ child = Child(eventGuideHash(tab), Page("eventGuide", tab),
                Here = "eventGuide" /\ eventGuideTabFromHash(address) = tab)
    BY <1>5 DEF TabsOf
  <2>2. child.opens = Page("eventGuide", tab) /\ Here = "eventGuide"
        /\ eventGuideTabFromHash(address) = tab
    BY <2>1 DEF Child
  <2> QED
    BY <2>1, <2>2, ScreenIsDrawn DEF Itself, Screen, EventGuidePage
<1>6. CASE route \notin {"events", "members", "hive", "planner", "eventGuide"}
  BY <1>6 DEF TabsOf
<1> QED
  BY <1>1, <1>2, <1>3, <1>4, <1>5, <1>6

\* The strip of the events: a bare address marks its first tab.
LEMMA EventsStripMarked ==
  ASSUME TabsInv, isMember, NEW child \in EventsTabs, child.current
  PROVE  MarkedRight(child)
<1> SUFFICES ASSUME Drawn(address).tab # "notice", ~ BareHub  PROVE Drawn(address) = child.opens
  BY DEF MarkedRight
<1>1. inEventsHub(Here) /\ ~ isCommunity
  BY DEF EventsTabs
<1>2. PICK i \in eventsTabs :
        child = Child(strip[i].hash, Page(strip[i].route, ""),
                      IF Here = "events" THEN i = Min(eventsTabs) ELSE strip[i].route = Here)
  BY <1>1 DEF EventsTabs
<1>3. child.opens = Page(strip[i].route, "")
      /\ (IF Here = "events" THEN i = Min(eventsTabs) ELSE strip[i].route = Here)
  BY <1>2 DEF Child
<1>4. CASE Here = "events"
  <2>1. i = Min(eventsTabs) /\ strip[i].route = "blackMoney"
    BY <1>2, <1>3, <1>4 DEF BareHub
  <2>2. Drawn(address) = Page("blackMoney", "")
    BY <1>4, ScreenIsDrawn DEF Itself, Screen
  <2> QED
    BY <1>3, <2>1, <2>2
<1>5. CASE Here # "events"
  <2>1. Here \in HubRoutes \ {"events"} /\ strip[i].route = Here
    BY <1>1, <1>3, <1>5 DEF inEventsHub
  <2> QED
    BY <1>3, <2>1, HubMarked
<1> QED
  BY <1>4, <1>5

\* The first of some places in the list of sections is one of them.
LEMMA MinOfSections ==
  ASSUME NEW S, S \subseteq 1 .. 25, S # {}
  PROVE  Min(S) \in S
<1> DEFINE From(k) == \A x \in S : x >= k
<1>1. ASSUME ~ \E x \in S : \A y \in S : x =< y, NEW k \in 1 .. 25, From(k)
      PROVE  From(k + 1)
  BY <1>1
<1>2. \E x \in S : \A y \in S : x =< y
  <2> SUFFICES ASSUME ~ \E x \in S : \A y \in S : x =< y  PROVE FALSE
    OBVIOUS
  <2>1. \A k \in 1 .. 25 : From(k) => From(k + 1)
    BY <1>1
  <2>2. From(1)
    OBVIOUS
  <2> HIDE DEF From
  <2>3. From(2) /\ From(3) /\ From(4) /\ From(5) /\ From(6)
    BY <2>1, <2>2
  <2>4. From(7) /\ From(8) /\ From(9) /\ From(10) /\ From(11)
    BY <2>1, <2>3
  <2>5. From(12) /\ From(13) /\ From(14) /\ From(15) /\ From(16)
    BY <2>1, <2>4
  <2>6. From(17) /\ From(18) /\ From(19) /\ From(20) /\ From(21)
    BY <2>1, <2>5
  <2>7. From(22) /\ From(23) /\ From(24) /\ From(25) /\ From(26)
    BY <2>1, <2>6
  <2>8. \A x \in S : x >= 26
    BY <2>7 DEF From
  <2>9. PICK x \in S : TRUE
    OBVIOUS
  <2> QED
    BY <2>8, <2>9
<1> QED
  BY <1>2 DEF Min

\* A group without a section for the reader shows so, whatever is wish for.
LEMMA NoneOfYours ==
  ASSUME NEW group
  PROVE  \/ \A wish : AdminPage(group, wish) = Notice("noneOfYours")
         \/ /\ SettingsPage(group).screen = "admin"
            /\ SettingsPage(group).tab[1] = group
<1>1. usableSectionsIn(group) \subseteq DOMAIN ADMIN_SECTIONS /\ DOMAIN ADMIN_SECTIONS = 1 .. 25
  BY DEF usableSectionsIn, ADMIN_SECTIONS
<1>2. CASE usableSectionsIn(group) = {}
  <2>1. \A wish : OpenSection(group, wish) = "nothing"
    BY <1>2 DEF OpenSection
  <2> QED
    BY <2>1 DEF AdminPage
<1>3. CASE usableSectionsIn(group) # {}
  <2>1. OpenSection(group, "first") # "nothing"
    <3>1. Min(usableSectionsIn(group)) \in DOMAIN ADMIN_SECTIONS
      BY <1>1, <1>3, MinOfSections
    <3>2. ADMIN_SECTIONS[Min(usableSectionsIn(group))].slug # "nothing"
      BY <3>1, SectionsOfPanels
    <3> QED
      BY <1>3, <3>2 DEF OpenSection
  <2> DEFINE open == OpenSection(group, "first")
  <2>2. SettingsPage(group) = Page("admin", <<group,
        IF open \in Panels[group] THEN open ELSE "blank">>)
    BY <2>1 DEF SettingsPage, AdminPage
  <2> HIDE DEF open
  <2> QED
    BY <2>2 DEF Page
<1> QED
  BY <1>2, <1>3

\* A group that is marked is the one that is drawn.
LEMMA GroupMarked ==
  ASSUME isMember, NEW group, Here = "admin", adminGroupFromHash(address) = group,
         NEW child, child.opens = SettingsPage(group)
  PROVE  MarkedRight(child)
<1>1. CASE SettingsPage(group).tab[1] = group
  BY <1>1 DEF MarkedRight
<1>2. CASE \A wish : AdminPage(group, wish) = Notice("noneOfYours")
  <2> SUFFICES ASSUME Drawn(address).tab # "notice"  PROVE FALSE
    BY DEF MarkedRight
  <2>1. Opened(Here) /\ ~ isStandaloneRoute(Here)
    BY OpenedOrNotice DEF isStandaloneRoute
  <2>2. Drawn(address) = AdminPage(group, adminSectionFromHash(address))
        \/ Drawn(address) = Notice("closed")
    BY <2>1, DrawnThemselves DEF Here
  <2> QED
    BY <1>2, <2>2 DEF Notice, Page
<1> QED
  BY <1>1, <1>2, NoneOfYours

LEMMA FooterMarked ==
  ASSUME isMember, NEW entry \in buildFooter, NEW child \in entry.children, child.current
  PROVE  MarkedRight(child)
<1> DEFINE settings(group) == Child(adminHash(group), SettingsPage(group),
                                    Here = "admin" /\ adminGroupFromHash(address) = group)
           account == Entry(<<"account">>, Page("account", ""), Here = "account", {})
           admin == Entry(<<"admin">>, SettingsPage("access"), Here = "admin",
                          {settings(group) : group \in ToSet(ADMIN_GROUPS)})
<1>1. entry = account \/ entry = admin
  BY DEF buildFooter
<1>2. account.children = {} /\ admin.children = {settings(group) : group \in ToSet(ADMIN_GROUPS)}
  BY DEF Entry
<1>3. \E group : child = settings(group)
  <2> HIDE DEF account, admin, settings
  <2>1. CASE entry = account
    BY <1>2, <2>1
  <2>2. CASE entry = admin
    BY <1>2, <2>2
  <2> QED
    BY <1>1, <2>1, <2>2
<1>4. PICK group : child = settings(group)
  BY <1>3
<1>5. child.opens = SettingsPage(group) /\ Here = "admin" /\ adminGroupFromHash(address) = group
  BY <1>4 DEF Child
<1> QED
  BY <1>5, GroupMarked

LEMMA AdminStripsMarked ==
  ASSUME isMember, NEW child \in AdminStrips, child.current
  PROVE  MarkedRight(child)
<1> DEFINE group == adminGroupFromHash(address)
           open == OpenSection(group, adminSectionFromHash(address))
<1>1. Here = "admin"
  BY DEF AdminStrips
<1>2. \/ \E g \in ToSet(ADMIN_GROUPS) : child = Child(adminHash(g), SettingsPage(g), g = group)
      \/ \E i \in usableSectionsIn(group) :
           child = Child(adminSectionHash(group, ADMIN_SECTIONS[i].slug),
                       Page("admin", <<group, ADMIN_SECTIONS[i].slug>>),
                       ADMIN_SECTIONS[i].slug = open)
  <2>1. mayOpenSettings
    BY DEF AdminStrips
  <2> QED
    BY <1>1, <2>1, Zenon DEF AdminStrips
<1> HIDE DEF open
<1>3. CASE \E g \in ToSet(ADMIN_GROUPS) : child = Child(adminHash(g), SettingsPage(g), g = group)
  <2>1. PICK g \in ToSet(ADMIN_GROUPS) : child = Child(adminHash(g), SettingsPage(g), g = group)
    BY <1>3
  <2>2. child.opens = SettingsPage(g) /\ g = group
    BY <2>1 DEF Child
  <2> QED
    BY <1>1, <2>2, GroupMarked
<1>4. CASE \E i \in usableSectionsIn(group) :
           child = Child(adminSectionHash(group, ADMIN_SECTIONS[i].slug),
                       Page("admin", <<group, ADMIN_SECTIONS[i].slug>>),
                       ADMIN_SECTIONS[i].slug = open)
  <2>1. child.opens.tab[1] = group
    BY <1>4 DEF Child, Page
  <2> QED
    BY <1>1, <2>1 DEF MarkedRight
<1> QED
  BY <1>2, <1>3, <1>4

\* The views of the alliance that is open.
LEMMA AllianceStripMarked ==
  ASSUME isMember, NEW child \in AllianceStrip, child.current
  PROVE  MarkedRight(child)
<1>1. Drawn(address).screen = "alliance"
  BY DEF AllianceStrip
<1>2. PICK view \in OfferedViews(address[2]) :
        child = Child(allianceHash(address[2], view), Page("alliance", <<address[2], view>>),
                      Drawn(address).tab[2] = view)
  BY <1>1 DEF AllianceStrip
<1>3. child.opens = Page("alliance", <<address[2], view>>) /\ Drawn(address).tab[2] = view
  BY <1>2 DEF Child
<1>4. Drawn(address) = AlliancePage(address[2], allianceViewFromHash(address))
  BY <1>1, AlliancePagesOnly
<1>5. PICK drawn : Drawn(address) = Page("alliance", <<address[2], drawn>>)
  BY <1>4 DEF AlliancePage
<1>6. drawn = view
  BY <1>3, <1>5 DEF Page
<1> QED
  BY <1>3, <1>5, <1>6 DEF MarkedRight

LEMMA ChildrenMarked ==
  ASSUME NavigationAssumption, TypeOK, TabsInv, isMember,
         NEW child \in (UNION {entry.children : entry \in buildNav}) \cup Strips, child.current
  PROVE  MarkedRight(child)
<1>1. CASE child \in Strips
  <2>1. child \in EventsTabs \/ child \in AdminStrips \/ child \in AllianceStrip \/ child \in Boards
    BY <1>1 DEF Strips
  <2> QED
    BY <2>1, EventsStripMarked, AdminStripsMarked, AllianceStripMarked, BoardsMarked
<1>2. ASSUME NEW entry \in buildNav, child \in entry.children  PROVE MarkedRight(child)
  <2>1. CASE entry \in Watch
    <3>1. entry.children \subseteq Boards
      <4>1. \/ \E tab : entry = Entry(tab.hash, Page(tab.route, ""),
                 IF tab.route = "rankings" THEN isRankingRoute(Here) ELSE tab.route = Here,
                 IF tab.route = "rankings" THEN Boards ELSE {})
            \/ entry = Entry(<<"map">>, Page("map", ""), Here = "map", {})
        BY <2>1 DEF Watch
      <4>2. ASSUME NEW tab, entry = Entry(tab.hash, Page(tab.route, ""),
                 IF tab.route = "rankings" THEN isRankingRoute(Here) ELSE tab.route = Here,
                 IF tab.route = "rankings" THEN Boards ELSE {})
            PROVE  entry.children \subseteq Boards
        <5>1. entry.children = IF tab.route = "rankings" THEN Boards ELSE {}
          BY <4>2 DEF Entry
        <5> QED
          BY <5>1
      <4>3. ASSUME entry = Entry(<<"map">>, Page("map", ""), Here = "map", {})
            PROVE  entry.children \subseteq Boards
        BY <4>3 DEF Entry
      <4> QED
        BY <4>1, <4>2, <4>3
    <3> QED
      BY <1>2, <3>1, BoardsMarked
  <2>2. CASE entry \in OwnEntry
    BY <1>2, <2>2, OwnMarked
  <2>3. CASE entry \in Alliance \cup Events
    <3>1. \E route : entry.children = TabsOf(route)
      BY <2>3 DEF Alliance, Events, Entry
    <3> QED
      BY <1>2, <3>1, TabsMarked
  <2>4. CASE entry \in BoardEntries
    BY <1>2, <2>4, BoardsLead
  <2>5. CASE entry \in buildFooter
    BY <1>2, <2>5, FooterMarked
  <2> QED
    BY <2>1, <2>2, <2>3, <2>4, <2>5 DEF buildNav
<1>3. child \in Strips \/ \E entry \in buildNav : child \in entry.children
  OBVIOUS
<1> QED
  BY <1>1, <1>2, <1>3

\* The address of a hidden tab draws the notice, except where nobody looks.
LEMMA HiddenIsSaid ==
  ASSUME TypeOK, isMember, ~ isAdmin, tabKeyOf(Here) \in rules \ Unwatched
  PROVE  Drawn(address) \in {Notice("hidden"), Notice("closed")}
<1>1. tabKeyOf(Here) \in TABS \ Unwatched
  BY DEF TypeOK
<1>2. Here \notin Itself
  <2>1. \A route \in Itself : ~ isRankingRoute(route) /\ ~ inEventsHub(route)
    BY KeysOfTabs DEF Itself, isRankingRoute, inEventsHub, RankingRoutes, RANKING_TABS, Tab
  <2>2. \A route \in Itself : tabKeyOf(route) \in {"notices", "guides", route}
    BY <2>1 DEF tabKeyOf
  <2>3. (Itself \cup {"notices", "guides"}) \cap (TABS \ Unwatched) = {}
    BY DEF Itself, TABS, Unwatched
  <2> QED
    BY <1>1, <2>2, <2>3
<1>3. ~ isTabShown(tabKeyOf(Here))
  BY DEF isTabShown
<1>4. CASE Opened(Here)
  <2>1. Drawn(address) = Screen(Here, address)
    BY <1>2, <1>4, DrawnScreens DEF Here
  <2> QED
    BY <1>3, <2>1, HiddenScreens
<1>5. CASE ~ Opened(Here)
  <2>1. ~ isStandaloneRoute(Here)
    BY <1>2 DEF Itself, isStandaloneRoute
  <2> QED
    BY <1>5, <2>1 DEF Drawn, Opened, Here, walled, isMember, isCommunity, Unknown
<1> QED
  BY <1>4, <1>5

-----------------------------------------------------------------------------
(* No two entries are marked.                                              *)

\* An entry is marked at the addresses of its own screens, so no two are.
WatchRoutes == {"overview", "rankings", "crossRankings", "arena", "migration", "map"}
AllianceRoutes ==
  {"members", "hive", "planner", "giftCodes", "events", "blackMoney", "frankie", "capitalClash",
   "serverClash", "participation", "season", "season2"}
EventsRoutes == {"calendar", "eventGuide", "shopValue"}
BoardRoutes == {"notices", "notice", "guides", "guide"}
FooterRoutes == {"account", "admin"}

LEMMA OneOfWatch ==
  ASSUME NEW one \in Watch, NEW other \in Watch, one.current, other.current
  PROVE  one = other /\ Here \in WatchRoutes
<1> DEFINE watched(tab) ==
             Entry(tab.hash, Page(tab.route, ""),
                   IF tab.route = "rankings" THEN isRankingRoute(Here) ELSE tab.route = Here,
                   IF tab.route = "rankings" THEN Boards ELSE {})
           map == Entry(<<"map">>, Page("map", ""), Here = "map", {})
           overview == watched(Tab("overview", << >>))
           rankings == watched(Tab("rankings", <<"rankings">>))
           migration == watched(Tab("migration", <<"migration">>))
<1>1. \A entry \in Watch : entry = map \/ \E tab \in OVERVIEW_TABS : entry = watched(tab)
  BY DEF Watch
<1>2. \A entry \in Watch : entry \in {map, overview, rankings, migration}
  <2> HIDE DEF map, watched
  <2> QED
    BY <1>1 DEF OVERVIEW_TABS
<1>3. /\ map.current <=> Here = "map"
      /\ overview.current <=> Here = "overview"
      /\ rankings.current <=> Here \in {"rankings", "crossRankings", "arena"}
      /\ migration.current <=> Here = "migration"
  <2>1. map.current = (Here = "map")
    BY DEF Entry
  <2>2. overview.current = ("overview" = Here)
    BY DEF Entry, Tab
  <2>3. rankings.current = isRankingRoute(Here)
    BY DEF Entry, Tab
  <2>4. migration.current = ("migration" = Here)
    BY DEF Entry, Tab
  <2>5. isRankingRoute(Here) <=> Here \in {"rankings", "crossRankings", "arena"}
    BY DEF isRankingRoute, RankingRoutes, RANKING_TABS, Tab
  <2> HIDE DEF map, overview, rankings, migration
  <2> QED
    BY <2>1, <2>2, <2>3, <2>4, <2>5
<1> HIDE DEF map, overview, rankings, migration
<1>4. one \in {map, overview, rankings, migration} /\ other \in {map, overview, rankings, migration}
  BY <1>2
<1> QED
  BY <1>3, <1>4 DEF WatchRoutes

LEMMA OneOfOwn ==
  ASSUME NEW one \in OwnEntry, NEW other \in OwnEntry, one.current
  PROVE  one = other /\ Here = "alliance"
<1>1. ~ (own = Unknown \/ isCommunity \/ ~ isTabShown("alliance"))
  BY DEF OwnEntry
<1> DEFINE children == {Child(allianceHash(own, view), Page("alliance", <<own, view>>),
                              onOwn /\ allianceViewFromHash(address) = view) :
                          view \in ToSet(ALLIANCE_VIEWS) \ {"names"}}
           entry == Entry(allianceHash(own, "members"), Page("alliance", <<own, "members">>), onOwn,
             children)
<1>2. OwnEntry = {entry}
  BY <1>1 DEF OwnEntry
<1> HIDE DEF children
<1>3. entry.current = onOwn
  BY DEF Entry
<1>4. one = entry /\ other = entry
  BY <1>2
<1>5. onOwn
  BY <1>3, <1>4
<1> QED
  BY <1>4, <1>5 DEF onOwn

LEMMA OneOfAlliance ==
  ASSUME NEW one \in Alliance, NEW other \in Alliance, one.current, other.current
  PROVE  one = other /\ Here \in AllianceRoutes
<1> DEFINE listed(tab) ==
             Entry(tab.hash, Opens(tab.route),
                   IF tab.route = "events" THEN inEventsHub(Here) ELSE tab.route = Here,
                     TabsOf(tab.route))
<1>1. \A entry \in Alliance : \E tab \in ALLIANCE_TABS : entry = listed(tab)
  BY DEF Alliance
<1>2. \A tab : listed(tab).current =
                  IF tab.route = "events" THEN inEventsHub(Here) ELSE tab.route = Here
  BY DEF Entry
<1> HIDE DEF listed
<1>3. PICK tab \in ALLIANCE_TABS : one = listed(tab)
  BY <1>1
<1>4. PICK tabAlso \in ALLIANCE_TABS : other = listed(tabAlso)
  BY <1>1
<1>5. /\ IF tab.route = "events" THEN inEventsHub(Here) ELSE tab.route = Here
      /\ IF tabAlso.route = "events" THEN inEventsHub(Here) ELSE tabAlso.route = Here
  BY <1>2, <1>3, <1>4
<1>6. \A t \in ALLIANCE_TABS : t.route \in {"members", "hive", "events", "planner", "giftCodes"}
  BY DEF ALLIANCE_TABS, Tab
<1>7. \A t, s \in ALLIANCE_TABS : t.route = s.route => t = s
  BY DEF ALLIANCE_TABS, Tab
<1>8. tab.route = tabAlso.route /\ Here \in AllianceRoutes
  BY <1>3, <1>4, <1>5, <1>6, KeysOfTabs DEF inEventsHub, AllianceRoutes
<1> QED
  BY <1>3, <1>4, <1>7, <1>8

LEMMA OneOfEvents ==
  ASSUME NEW one \in Events, NEW other \in Events, one.current, other.current
  PROVE  one = other /\ Here \in EventsRoutes
<1> DEFINE listed(tab) == Entry(tab.hash, Opens(tab.route), tab.route = Here, TabsOf(tab.route))
<1>1. \A entry \in Events : \E tab \in EVENT_TABS : entry = listed(tab)
  BY DEF Events
<1>2. \A tab : listed(tab).current = (tab.route = Here)
  BY DEF Entry
<1> HIDE DEF listed
<1>3. PICK tab \in EVENT_TABS : one = listed(tab)
  BY <1>1
<1>4. PICK tabAlso \in EVENT_TABS : other = listed(tabAlso)
  BY <1>1
<1>5. tab.route = Here /\ tabAlso.route = Here
  BY <1>2, <1>3, <1>4
<1>6. \A t, s \in EVENT_TABS : t.route \in EventsRoutes /\ (t.route = s.route => t = s)
  BY DEF EVENT_TABS, Tab, EventsRoutes
<1> QED
  BY <1>3, <1>4, <1>5, <1>6

LEMMA OneOfBoards ==
  ASSUME NEW one \in BoardEntries, NEW other \in BoardEntries, one.current, other.current
  PROVE  one = other /\ Here \in BoardRoutes
<1> DEFINE marked(tab) == Here = tab.route \/ (Here = "notice" /\ tab.route = "notices")
                                           \/ (Here = "guide" /\ tab.route = "guides")
           listed(tab) == Entry(tab.hash, Page(tab.route, ""), marked(tab), {})
<1>1. \A entry \in BoardEntries : \E tab \in BOARD_TABS : entry = listed(tab)
  BY DEF BoardEntries
<1>2. \A tab : listed(tab).current = marked(tab)
  BY DEF Entry
<1> HIDE DEF listed
<1>3. PICK tab \in BOARD_TABS : one = listed(tab)
  BY <1>1
<1>4. PICK tabAlso \in BOARD_TABS : other = listed(tabAlso)
  BY <1>1
<1>5. marked(tab) /\ marked(tabAlso)
  <2> HIDE DEF marked
  <2> QED
    BY <1>2, <1>3, <1>4
<1>6. \A t, s \in BOARD_TABS : t.route \in {"notices", "guides"} /\ (t.route = s.route => t = s)
  BY DEF BOARD_TABS, Tab
<1>7. tab.route = tabAlso.route /\ Here \in BoardRoutes
  BY <1>3, <1>4, <1>5, <1>6 DEF BoardRoutes
<1> QED
  BY <1>3, <1>4, <1>6, <1>7

LEMMA OneOfFooter ==
  ASSUME NEW one \in buildFooter, NEW other \in buildFooter, one.current, other.current
  PROVE  one = other /\ Here \in FooterRoutes
<1> DEFINE groups == {Child(adminHash(group), SettingsPage(group),
                            Here = "admin" /\ adminGroupFromHash(address) = group) :
                        group \in ToSet(ADMIN_GROUPS)}
           account == Entry(<<"account">>, Page("account", ""), Here = "account", {})
           admin == Entry(<<"admin">>, SettingsPage("access"), Here = "admin", groups)
<1>1. \A entry \in buildFooter : entry = account \/ entry = admin
  BY DEF buildFooter
<1> HIDE DEF groups
<1>2. account.current = (Here = "account") /\ admin.current = (Here = "admin")
  BY DEF Entry
<1> HIDE DEF account, admin
<1>3. (account.current <=> Here = "account") /\ (admin.current <=> Here = "admin")
  BY <1>2
<1> QED
  BY <1>1, <1>3 DEF FooterRoutes

LEMMA OneIsMarked ==
  ASSUME NEW one \in buildNav, NEW other \in buildNav, one.current, other.current
  PROVE  one = other
<1>1. ASSUME NEW entry \in buildNav, entry.current
      PROVE
        /\ entry \in Watch => Here \in WatchRoutes
        /\ entry \in OwnEntry => Here = "alliance"
        /\ entry \in Alliance => Here \in AllianceRoutes
        /\ entry \in Events => Here \in EventsRoutes
        /\ entry \in BoardEntries => Here \in BoardRoutes
        /\ entry \in buildFooter => Here \in FooterRoutes
  BY <1>1, OneOfWatch, OneOfOwn, OneOfAlliance, OneOfEvents, OneOfBoards, OneOfFooter
<1>2. \/ one \in Watch /\ other \in Watch
      \/ one \in OwnEntry /\ other \in OwnEntry
      \/ one \in Alliance /\ other \in Alliance
      \/ one \in Events /\ other \in Events
      \/ one \in BoardEntries /\ other \in BoardEntries
      \/ one \in buildFooter /\ other \in buildFooter
  <2>1. ASSUME NEW entry \in buildNav
        PROVE  \/ entry \in Watch \/ entry \in OwnEntry \/ entry \in Alliance \/ entry \in Events
               \/ entry \in BoardEntries \/ entry \in buildFooter
    BY DEF buildNav
  <2>2. /\ Here \in WatchRoutes
             => Here \notin {"alliance"} \cup AllianceRoutes \cup EventsRoutes \cup BoardRoutes
               \cup FooterRoutes
        /\ Here = "alliance"
             => Here \notin AllianceRoutes \cup EventsRoutes \cup BoardRoutes \cup FooterRoutes
        /\ Here \in AllianceRoutes => Here \notin EventsRoutes \cup BoardRoutes \cup FooterRoutes
        /\ Here \in EventsRoutes => Here \notin BoardRoutes \cup FooterRoutes
        /\ Here \in BoardRoutes => Here \notin FooterRoutes
    BY DEF WatchRoutes, AllianceRoutes, EventsRoutes, BoardRoutes, FooterRoutes
  <2>3. one \in Watch \/ one \in OwnEntry \/ one \in Alliance \/ one \in Events
        \/ one \in BoardEntries
        \/ one \in buildFooter
    BY <2>1
  <2>4. other \in Watch \/ other \in OwnEntry \/ other \in Alliance \/ other \in Events
        \/ other \in BoardEntries
        \/ other \in buildFooter
    BY <2>1
  <2>5. /\ one \in Watch => Here \in WatchRoutes
        /\ one \in OwnEntry => Here = "alliance"
        /\ one \in Alliance => Here \in AllianceRoutes
        /\ one \in Events => Here \in EventsRoutes
        /\ one \in BoardEntries => Here \in BoardRoutes
        /\ one \in buildFooter => Here \in FooterRoutes
    BY <1>1
  <2>6. /\ other \in Watch => Here \in WatchRoutes
        /\ other \in OwnEntry => Here = "alliance"
        /\ other \in Alliance => Here \in AllianceRoutes
        /\ other \in Events => Here \in EventsRoutes
        /\ other \in BoardEntries => Here \in BoardRoutes
        /\ other \in buildFooter => Here \in FooterRoutes
    BY <1>1
  <2>7. CASE one \in Watch
    BY <2>7, <2>2, <2>4, <2>5, <2>6
  <2>8. CASE one \in OwnEntry
    BY <2>8, <2>2, <2>4, <2>5, <2>6
  <2>9. CASE one \in Alliance
    BY <2>9, <2>2, <2>4, <2>5, <2>6
  <2>10. CASE one \in Events
    BY <2>10, <2>2, <2>4, <2>5, <2>6
  <2>11. CASE one \in BoardEntries
    BY <2>11, <2>2, <2>4, <2>5, <2>6
  <2>12. CASE one \in buildFooter
    BY <2>12, <2>2, <2>4, <2>5, <2>6
  <2> QED
    BY <2>3, <2>7, <2>8, <2>9, <2>10, <2>11, <2>12
<1> QED
  BY <1>2, OneOfWatch, OneOfOwn, OneOfAlliance, OneOfEvents, OneOfBoards, OneOfFooter

\* All of it together.
LEMMA MarksTell ==
  ASSUME NavigationAssumption, TypeOK, TabsInv
  PROVE  MarksTellTheTruth
<1> SUFFICES ASSUME inShell
             PROVE  /\ \A child \in (UNION {entry.children : entry \in buildNav}) \cup Strips :
                         child.current => MarkedRight(child)
                    /\ \A one, other \in {entry \in buildNav : entry.current} : one = other
                    /\ (tabKeyOf(Here) \in rules \ Unwatched /\ ~ isAdmin) =>
                         Drawn(address) \in {Notice("hidden"), Notice("closed")}
  BY Zenon DEF MarksTellTheTruth, MarkedRight
<1>1. isMember
  BY DEF inShell
<1>2. \A child \in (UNION {entry.children : entry \in buildNav}) \cup Strips :
        child.current => MarkedRight(child)
  BY <1>1, ChildrenMarked
<1>3. \A one, other \in {entry \in buildNav : entry.current} : one = other
  BY OneIsMarked
<1>4. (tabKeyOf(Here) \in rules \ Unwatched /\ ~ isAdmin) =>
         Drawn(address) \in {Notice("hidden"), Notice("closed")}
  BY <1>1, HiddenIsSaid
<1> QED
  BY <1>2, <1>3, <1>4

-----------------------------------------------------------------------------
(* The invariant, and what follows in every state.                         *)

NavInv == TypeOK /\ TabsInv

LEMMA NavStarts == Init => NavInv
<1> SUFFICES ASSUME Init  PROVE NavInv
  OBVIOUS
<1>1. TypeOK
  BY NavigationAssumption DEF Init, TypeOK, gridPending, Roles
<1>2. TabsInv
  BY DEF Init, TabsInv, ToSet
<1> QED
  BY <1>1, <1>2 DEF NavInv

LEMMA NavSteps == NavInv /\ [Next]_vars => NavInv'
<1> SUFFICES ASSUME NavInv, [Next]_vars  PROVE NavInv'
  OBVIOUS
<1> USE NavigationAssumption
<1>1. CASE UNCHANGED vars
  BY <1>1 DEF NavInv, TypeOK, TabsInv, vars, gridPending
<1>2. CASE Type \/ Follow
  BY <1>2 DEF NavInv, TypeOK, TabsInv, Type, Follow, gridPending
<1>3. CASE SessionAnswers
  BY <1>3 DEF NavInv, TypeOK, TabsInv, SessionAnswers, gridPending
<1>4. CASE GridAnswers
  BY <1>4 DEF NavInv, TypeOK, TabsInv, GridAnswers, gridPending
<1>5. CASE OwnAnswers
  BY <1>5 DEF NavInv, TypeOK, TabsInv, OwnAnswers, gridPending
<1>a. Changed => changes' \in 0 .. MaxChanges /\ UNCHANGED <<address, own>>
  BY DEF Changed, NavInv, TypeOK
<1>6. CASE PermissionChanges
  <2>1. grid \subseteq Capabilities
    BY <1>6 DEF PermissionChanges, NavInv, TypeOK
  <2>2. grid' \subseteq Capabilities
    BY <1>6, <2>1 DEF PermissionChanges
  <2> QED
    BY <1>6, <1>a, <2>2 DEF NavInv, TypeOK, TabsInv, PermissionChanges, gridPending
<1>7. CASE TabRuleChanges
  <2>1. rules' \subseteq TABS
    BY <1>7 DEF TabRuleChanges, NavInv, TypeOK
  <2> QED
    BY <1>7, <1>a, <2>1 DEF NavInv, TypeOK, TabsInv, TabRuleChanges, gridPending
<1>8. CASE StripArranged
  <2>1. PICK order \in Arrangements : strip' = [i \in DOMAIN order |-> EVENTS_HUB_TABS[order[i]]]
    BY <1>8 DEF StripArranged
  <2>2. \A i \in DOMAIN order : order[i] \in DOMAIN EVENTS_HUB_TABS
    BY DEF NavigationAssumption
  <2>3. TabsInv'
    BY <2>1, <2>2 DEF TabsInv, ToSet
  <2> QED
    BY <1>8, <1>a, <2>3 DEF NavInv, TypeOK, StripArranged, gridPending
<1>9. CASE RoleChanges
  BY <1>9, <1>a DEF NavInv, TypeOK, TabsInv, RoleChanges, gridPending
<1> QED
  BY <1>1, <1>2, <1>3, <1>4, <1>5, <1>6, <1>7, <1>8, <1>9 DEF Next

LEMMA NavAlways == NavigationSpec => []NavInv
<1>1. Start => NavInv
  BY NavStarts DEF Start
<1>2. NavInv /\ [Moving \/ SigningNext]_allVars => NavInv'
  <2>1. [Moving \/ SigningNext]_allVars => [Next]_vars
    BY DEF Moving, SigningNext, allVars
  <2> QED
    BY <2>1, NavSteps
<1> QED
  BY <1>1, <1>2, PTL DEF NavigationSpec

\* Whatever a reader is offered opens the screen and the tab it names, for every
\* alliance, player and server an address may name, every set of permissions a
\* role may hold, and however the strip is arranged (shellNav.ts, route.ts,
\* App.tsx).
THEOREM LinksAlwaysLead == NavigationSpec => []LinksLeadWhereTheySay
<1>1. NavInv => LinksLeadWhereTheySay
  BY NavigationAssumption, LinksLead DEF NavInv
<1> QED
  BY <1>1, NavAlways, PTL

\* What is marked as open is what is drawn, or a notice why not; no two entries are
\* marked; and the address of a hidden tab draws the notice (shellNav.ts, App.tsx).
THEOREM MarksAlwaysTrue == NavigationSpec => []MarksAreTrue
<1>1. NavInv => TypeOK /\ MarksTellTheTruth
  BY NavigationAssumption, MarksTell DEF NavInv
<1> QED
  BY <1>1, NavAlways, WayInTypes, PTL DEF MarksAreTrue

-----------------------------------------------------------------------------
(* The answer of the permission query.                                     *)

Offers(links) == {link.hash : link \in links}

\* Every entry is still there, with at least its tabs.
Grows(entry, entries) ==
  \E more \in entries : more.hash = entry.hash
    /\ Offers(entry.children) \subseteq Offers(more.children)

\* Before it nobody holds anything (useMayView).
LEMMA NothingBefore ==
  ASSUME gridPending, NEW capability, capability # Unknown
  PROVE  ~ isAllowed(capability)
BY DEF gridPending, isAllowed

\* And nothing else that is looked at changes with it.
LEMMA SameEyes ==
  ASSUME GridAnswers
  PROVE  /\ Here' = Here /\ isCommunity' = isCommunity /\ isAdmin' = isAdmin
              /\ isOfficer' = isOfficer
         /\ isMember' = isMember /\ inShell' = inShell /\ mayOpenSettings' = mayOpenSettings
         /\ \A tab : isTabShown(tab)' = isTabShown(tab)
         /\ eventsTabs' = eventsTabs /\ onOwn' = onOwn
         /\ address' = address /\ own' = own /\ strip' = strip /\ role' = role /\ rules' = rules
BY DEF GridAnswers, Here, isCommunity, isAdmin, isOfficer, isMember, inShell, mayOpenSettings,
   isTabShown,
       eventsTabs, onOwn

\* Each list of links grows, or stays.
LEMMA BoardsStay ==
  ASSUME gridPending, GridAnswers
  PROVE  Boards \subseteq Boards'
<1>1. \A b \in RANKING_TABS : b.route # "arena" \/ isAllowed("arena.view") =>
                              b.route # "arena" \/ isAllowed("arena.view")'
  BY NothingBefore DEF Unknown
<1>2. Here' = Here
  BY SameEyes
<1> QED
  BY <1>1, <1>2 DEF Boards

LEMMA SameStay ==
  ASSUME gridPending, GridAnswers
  PROVE  /\ OwnEntry' = OwnEntry /\ BoardEntries' = BoardEntries /\ EventsTabs' = EventsTabs
         /\ \A route : TabsOf(route) \subseteq TabsOf(route)'
<1>1. OwnEntry' = OwnEntry
  BY SameEyes DEF OwnEntry
<1>2. BoardEntries' = BoardEntries
  <2> DEFINE marked(tab) == Here = tab.route \/ (Here = "notice" /\ tab.route = "notices")
                                             \/ (Here = "guide" /\ tab.route = "guides")
             shown(tab) == ~ isCommunity /\ isTabShown(tab.route)
             listed(tab) == Entry(tab.hash, Page(tab.route, ""), marked(tab), {})
  <2>1. BoardEntries = {listed(tab) : tab \in {t \in BOARD_TABS : shown(t)}}
    BY DEF BoardEntries
  <2>2. BoardEntries' = {listed(tab)' : tab \in {t \in BOARD_TABS : shown(t)'}}
    BY DEF BoardEntries
  <2>3. (\A tab : shown(tab)' = shown(tab)) /\ (\A tab : listed(tab)' = listed(tab))
    BY SameEyes
  <2> HIDE DEF shown, listed
  <2> QED
    BY <2>1, <2>2, <2>3
<1>3. EventsTabs' = EventsTabs
  BY SameEyes DEF EventsTabs
<1>4. ASSUME NEW route  PROVE TabsOf(route) \subseteq TabsOf(route)'
  <2>1. CASE route = "hive"
    <3>1. ~ isAllowed("hive.plan")
      BY NothingBefore DEF Unknown
    <3>2. TabsOf("hive") = {}
      BY <3>1 DEF TabsOf
    <3> QED
      BY <2>1, <3>2
  <2>2. CASE route \in {"events", "members", "planner", "eventGuide"}
    BY <2>2, SameEyes DEF TabsOf
  <2>3. CASE route \notin {"events", "members", "planner", "eventGuide", "hive"}
    BY <2>3 DEF TabsOf
  <2> QED
    BY <2>1, <2>2, <2>3
<1> QED
  BY <1>1, <1>2, <1>3, <1>4

\* An entry with the same address and more tabs.
LEMMA EntryGrows ==
  ASSUME NEW hash, NEW opens, NEW opensNow, NEW current, NEW currentNow,
         NEW children, NEW more, children \subseteq more,
         NEW entries, Entry(hash, opensNow, currentNow, more) \in entries
  PROVE  Grows(Entry(hash, opens, current, children), entries)
<1>1. Entry(hash, opens, current, children).hash = hash
      /\ Entry(hash, opens, current, children).children = children
  BY DEF Entry
<1>2. Entry(hash, opensNow, currentNow, more).hash = hash
      /\ Entry(hash, opensNow, currentNow, more).children = more
  BY DEF Entry
<1>3. Offers(children) \subseteq Offers(more)
  BY DEF Offers
<1> QED
  BY <1>1, <1>2, <1>3 DEF Grows

LEMMA WatchGrows ==
  ASSUME gridPending, GridAnswers, NEW entry \in Watch
  PROVE  Grows(entry, Watch')
<1> DEFINE marked(tab) == IF tab.route = "rankings" THEN isRankingRoute(Here) ELSE tab.route = Here
           watched(tab) == Entry(tab.hash, Page(tab.route, ""), marked(tab),
                                 IF tab.route = "rankings" THEN Boards ELSE {})
           shown(tab) == (tab.route # "migration" \/ isOfficer \/ isCommunity)
             /\ isTabShown(tab.route)
           map == Entry(<<"map">>, Page("map", ""), Here = "map", {})
<1>1. Watch = {watched(tab) : tab \in {t \in OVERVIEW_TABS : shown(t)}}
      \cup (IF isTabShown("map") THEN {map} ELSE {})
  BY DEF Watch
<1>2. Watch' = {watched(tab)' : tab \in {t \in OVERVIEW_TABS : shown(t)'}}
      \cup (IF isTabShown("map")' THEN {map'} ELSE {})
  BY DEF Watch
<1>3. (\A tab : shown(tab)' = shown(tab)) /\ map' = map /\ isTabShown("map")' = isTabShown("map")
  BY SameEyes
<1>4. \A tab : watched(tab)' = Entry(tab.hash, Page(tab.route, ""), marked(tab),
                                 IF tab.route = "rankings" THEN Boards' ELSE {})
  BY SameEyes
<1> HIDE DEF marked, shown, map
<1>5. CASE \E tab \in OVERVIEW_TABS : shown(tab) /\ entry = watched(tab)
  <2>1. PICK tab \in OVERVIEW_TABS : shown(tab) /\ entry = watched(tab)
    BY <1>5
  <2>2. watched(tab)' \in Watch'
    BY <1>2, <1>3, <2>1
  <2>3. (IF tab.route = "rankings" THEN Boards ELSE {})
        \subseteq (IF tab.route = "rankings" THEN Boards' ELSE {})
    BY BoardsStay
  <2> QED
    BY <1>4, <2>1, <2>2, <2>3, EntryGrows
<1>6. CASE isTabShown("map") /\ entry = map
  <2>1. entry \in Watch'
    BY <1>2, <1>3, <1>6
  <2> QED
    BY <2>1 DEF Grows
<1> QED
  BY <1>1, <1>5, <1>6

LEMMA AllianceGrows ==
  ASSUME gridPending, GridAnswers, NEW entry \in Alliance
  PROVE  Grows(entry, Alliance')
<1> DEFINE marked(tab) == IF tab.route = "events" THEN inEventsHub(Here) ELSE tab.route = Here
           listed(tab) == Entry(tab.hash, Opens(tab.route), marked(tab), TabsOf(tab.route))
           shown(tab) == /\ ~ isCommunity \/ tab.route = "planner"
                         /\ tab.route # "members" \/ isAllowed("members.view")
                         /\ tab.route # "giftCodes" \/ isAllowed("giftcodes.manage")
                         /\ isTabShown(tab.route)
<1>1. Alliance = {listed(tab) : tab \in {t \in ALLIANCE_TABS : shown(t)}}
  BY DEF Alliance
<1>2. Alliance' = {listed(tab)' : tab \in {t \in ALLIANCE_TABS : shown(t)'}}
  BY DEF Alliance
<1>3. PICK tab \in ALLIANCE_TABS : shown(tab) /\ entry = listed(tab)
  BY <1>1
<1>4. shown(tab)'
  BY <1>3, NothingBefore, SameEyes DEF Unknown
<1>5. listed(tab)' = Entry(tab.hash, Opens(tab.route), marked(tab), TabsOf(tab.route)')
  BY SameEyes DEF Opens
<1>6. listed(tab)' \in Alliance'
  BY <1>2, <1>3, <1>4
<1> HIDE DEF marked, shown
<1> QED
  BY <1>3, <1>5, <1>6, SameStay, EntryGrows

LEMMA EventsGrow ==
  ASSUME gridPending, GridAnswers, NEW entry \in Events
  PROVE  Grows(entry, Events')
<1> DEFINE listed(tab) == Entry(tab.hash, Opens(tab.route), tab.route = Here, TabsOf(tab.route))
<1>1. Events = {listed(tab) : tab \in {t \in EVENT_TABS : isTabShown(t.route)}}
  BY DEF Events
<1>2. Events' = {listed(tab)' : tab \in {t \in EVENT_TABS : isTabShown(t.route)'}}
  BY DEF Events
<1>3. PICK tab \in EVENT_TABS : isTabShown(tab.route) /\ entry = listed(tab)
  BY <1>1
<1>4. isTabShown(tab.route)'
  BY <1>3, SameEyes
<1>5. listed(tab)' = Entry(tab.hash, Opens(tab.route), tab.route = Here, TabsOf(tab.route)')
  BY SameEyes DEF Opens
<1>6. listed(tab)' \in Events'
  BY <1>2, <1>3, <1>4
<1> QED
  BY <1>3, <1>5, <1>6, SameStay, EntryGrows

LEMMA FooterGrows ==
  ASSUME GridAnswers, NEW entry \in buildFooter
  PROVE  Grows(entry, buildFooter')
<1> DEFINE settings(group) == Child(adminHash(group), SettingsPage(group),
                                    Here = "admin" /\ adminGroupFromHash(address) = group)
           account == Entry(<<"account">>, Page("account", ""), Here = "account", {})
           groups == {settings(group) : group \in ToSet(ADMIN_GROUPS)}
           admin == Entry(<<"admin">>, SettingsPage("access"), Here = "admin", groups)
<1>1. buildFooter = {account} \cup (IF ~ isAdmin THEN {} ELSE {admin})
  BY DEF buildFooter
<1>2. buildFooter' = {account'} \cup (IF ~ isAdmin' THEN {} ELSE {admin'})
  BY DEF buildFooter
<1>3. account' = account /\ isAdmin' = isAdmin
  BY SameEyes
<1>4. /\ admin.hash = <<"admin">> /\ admin.children = groups
      /\ admin'.hash = <<"admin">> /\ admin'.children = groups'
  BY DEF Entry
<1>5. Offers(groups) \subseteq Offers(groups')
  <2>1. \A group : settings(group).hash = adminHash(group)
        /\ settings(group)'.hash = adminHash(group)
    BY DEF Child
  <2>2. groups' = {settings(group)' : group \in ToSet(ADMIN_GROUPS)}
    OBVIOUS
  <2> HIDE DEF settings
  <2> QED
    BY <2>1, <2>2 DEF Offers
<1> HIDE DEF account, admin, groups
<1> QED
  BY <1>1, <1>2, <1>3, <1>4, <1>5 DEF Grows

LEMMA EntriesGrow ==
  ASSUME gridPending, GridAnswers, NEW entry \in buildNav
  PROVE  Grows(entry, buildNav')
<1>1. buildNav' = Watch' \cup OwnEntry' \cup Alliance' \cup Events' \cup BoardEntries'
      \cup buildFooter'
  BY DEF buildNav
<1>2. \A set : Grows(entry, set) => \A more : set \subseteq more => Grows(entry, more)
  BY DEF Grows
<1>3. \/ Grows(entry, Watch') \/ Grows(entry, OwnEntry') \/ Grows(entry, Alliance')
           \/ Grows(entry, Events')
      \/ Grows(entry, BoardEntries') \/ Grows(entry, buildFooter')
  <2>1. \A set : entry \in set => Grows(entry, set)
    BY DEF Grows
  <2> QED
    BY <2>1, WatchGrows, SameStay, AllianceGrows, EventsGrow, FooterGrows DEF buildNav
<1> QED
  BY <1>1, <1>2, <1>3

LEMMA AdminStripsStay ==
  ASSUME gridPending, GridAnswers
  PROVE  Offers(AdminStrips) \subseteq Offers(AdminStrips')
<1> DEFINE group == adminGroupFromHash(address)
           slugs == {ADMIN_SECTIONS[i].slug : i \in usableSectionsIn(group)}
           hashes == {adminHash(g) : g \in ToSet(ADMIN_GROUPS)}
             \cup {adminSectionHash(group, slug) : slug \in slugs}
           gone == Here # "admin" \/ ~ mayOpenSettings
<1>1. gone => AdminStrips = {}
  BY DEF AdminStrips
<1>2. ~ gone => Offers(AdminStrips) = hashes
  <2> SUFFICES ASSUME ~ gone  PROVE Offers(AdminStrips) = hashes
    OBVIOUS
  <2> DEFINE open == OpenSection(group, adminSectionFromHash(address))
             strips(g) == Child(adminHash(g), SettingsPage(g), g = group)
             sections(i) == Child(adminSectionHash(group, ADMIN_SECTIONS[i].slug),
                       Page("admin", <<group, ADMIN_SECTIONS[i].slug>>),
                       ADMIN_SECTIONS[i].slug = open)
  <2>1. AdminStrips = {strips(g) : g \in ToSet(ADMIN_GROUPS)}
        \cup {sections(i) : i \in usableSectionsIn(group)}
    BY Zenon DEF AdminStrips
  <2>2. /\ \A g : strips(g).hash = adminHash(g)
        /\ \A i : sections(i).hash = adminSectionHash(group, ADMIN_SECTIONS[i].slug)
    BY DEF Child
  <2> HIDE DEF strips, sections, group
  <2> QED
    BY <2>1, <2>2 DEF Offers
<1>3. ~ gone' => Offers(AdminStrips)' = hashes'
  <2> SUFFICES ASSUME ~ gone'  PROVE Offers(AdminStrips)' = hashes'
    OBVIOUS
  <2> DEFINE open == OpenSection(group, adminSectionFromHash(address))
             strips(g) == Child(adminHash(g), SettingsPage(g), g = group)
             sections(i) == Child(adminSectionHash(group, ADMIN_SECTIONS[i].slug),
                       Page("admin", <<group, ADMIN_SECTIONS[i].slug>>),
                       ADMIN_SECTIONS[i].slug = open)
  <2>1. AdminStrips' = {strips(g)' : g \in ToSet(ADMIN_GROUPS)}
        \cup {sections(i)' : i \in usableSectionsIn(group)'}
    BY Zenon DEF AdminStrips
  <2>2. /\ \A g : strips(g)'.hash = adminHash(g)
        /\ \A i : sections(i)'.hash = adminSectionHash(group', ADMIN_SECTIONS[i].slug)
    BY DEF Child
  <2>3. hashes' = {adminHash(g) : g \in ToSet(ADMIN_GROUPS)}
        \cup {adminSectionHash(group', slug) : slug \in slugs'}
        /\ slugs' = {ADMIN_SECTIONS[i].slug : i \in usableSectionsIn(group)'}
    OBVIOUS
  <2> HIDE DEF strips, sections, group
  <2> QED
    BY <2>1, <2>2, <2>3 DEF Offers
<1>4. gone' = gone /\ group' = group
  BY SameEyes
<1>5. usableSectionsIn(group) \subseteq usableSectionsIn(group)'
  <2>1. \A i \in DOMAIN ADMIN_SECTIONS : ADMIN_SECTIONS[i].requires # Unknown
    BY DEF ADMIN_SECTIONS, Section, Unknown
  <2>2. \A i \in DOMAIN ADMIN_SECTIONS : holds(ADMIN_SECTIONS[i].requires)
        => holds(ADMIN_SECTIONS[i].requires)'
    BY <2>1, NothingBefore, SameEyes DEF holds
  <2> QED
    BY <1>4, <2>2 DEF usableSectionsIn
<1>6. hashes \subseteq hashes'
  BY <1>4, <1>5
<1> HIDE DEF gone, hashes
<1> QED
  BY <1>1, <1>2, <1>3, <1>4, <1>6 DEF Offers

LEMMA AllianceStripStays ==
  ASSUME GridAnswers
  PROVE  Offers(AllianceStrip) \subseteq Offers(AllianceStrip')
<1> DEFINE drawn == Drawn(address)
           hashes == {allianceHash(address[2], v) : v \in OfferedViews(address[2])}
<1>1. drawn.screen # "alliance" => AllianceStrip = {}
  BY DEF AllianceStrip
<1> DEFINE view(v) == Child(allianceHash(address[2], v), Page("alliance", <<address[2], v>>),
           drawn.tab[2] = v)
<1>a. /\ \A v : view(v).hash = allianceHash(address[2], v)
      /\ \A v : view(v)'.hash = allianceHash(address'[2], v)
  BY DEF Child
<1>b. hashes' = {allianceHash(address'[2], v) : v \in OfferedViews(address'[2])}
  BY DEF OfferedViews
<1>2. drawn.screen = "alliance" => Offers(AllianceStrip) = hashes
  <2>1. drawn.screen = "alliance" => AllianceStrip = {view(v) : v \in OfferedViews(address[2])}
    BY DEF AllianceStrip
  <2> HIDE DEF view, drawn
  <2> QED
    BY <2>1, <1>a DEF Offers
<1>3. drawn'.screen = "alliance" => Offers(AllianceStrip)' = hashes'
  <2>1. drawn'.screen = "alliance" => AllianceStrip' = {view(v)' : v \in OfferedViews(address'[2])}
    BY DEF AllianceStrip, OfferedViews
  <2> HIDE DEF view, drawn, hashes
  <2> QED
    BY <2>1, <1>a, <1>b DEF Offers
<1>4. hashes' = hashes
  BY SameEyes DEF OfferedViews
<1>5. drawn.screen = "alliance" => drawn'.screen = "alliance"
  <2> SUFFICES ASSUME drawn.screen = "alliance"  PROVE drawn'.screen = "alliance"
    OBVIOUS
  <2>1. Here = "alliance" /\ ~ walled("alliance") /\ role # Unknown
        /\ ~ (isCommunity /\ address[2] \in Ours)
    BY AlliancePagesOnly DEF Here
  <2>2. isMember /\ ~ isStandaloneRoute("alliance")
    BY <2>1 DEF walled, isStandaloneRoute
  <2>3. isMember' /\ routeFromHash(address') = "alliance"
        /\ ~ (isCommunity' /\ address'[2] \in Ours)
    BY <2>1, <2>2, SameEyes DEF Here
  <2>4. Drawn(address)' = CommunityGate(address[2],
        AlliancePage(address[2], allianceViewFromHash(address)))'
    BY <2>2, <2>3 DEF Drawn, walled, isMember, isStandaloneRoute, Unknown, communityMayOpen,
       isCommunity
  <2>5. Drawn(address)' = AlliancePage(address[2], allianceViewFromHash(address))'
    BY <2>3, <2>4 DEF CommunityGate
  <2> QED
    BY <2>5 DEF AlliancePage, Page
<1> HIDE DEF drawn, hashes
<1> QED
  BY <1>1, <1>2, <1>3, <1>4, <1>5 DEF Offers

LEMMA OffersStay ==
  ASSUME gridPending, GridAnswers
  PROVE  Offers(Links) \subseteq Offers(Links')
<1> DEFINE all == (UNION {entry.children : entry \in buildNav}) \cup Strips
           links == {Link(entry.hash, entry.opens) : entry \in buildNav}
                    \cup {Link(child.hash, child.opens) : child \in all}
<1>1. ~ inShell => Links = {}
  BY DEF Links
<1>2. inShell => Links = links
  BY DEF Links
<1>3. inShell' => Links' = links'
  BY DEF Links
<1>4. inShell' = inShell
  BY SameEyes
<1>a. \A items : Offers({Link(item.hash, item.opens) : item \in items}) = Offers(items)
  <2> SUFFICES ASSUME NEW items
               PROVE  Offers({Link(item.hash, item.opens) : item \in items}) = Offers(items)
    OBVIOUS
  <2>1. \A item : Link(item.hash, item.opens).hash = item.hash
    BY DEF Link
  <2> DEFINE made == {Link(item.hash, item.opens) : item \in items}
  <2>2. \A hash : hash \in Offers(made) <=> \E item \in items : hash = item.hash
    BY <2>1 DEF Offers
  <2>3. \A hash : hash \in Offers(items) <=> \E item \in items : hash = item.hash
    BY DEF Offers
  <2> HIDE DEF made
  <2>4. \A hash : hash \in Offers(made) <=> hash \in Offers(items)
    BY <2>2, <2>3
  <2>5. Offers(made) = Offers(items)
    BY <2>4 DEF Offers
  <2> QED
    BY <2>5 DEF made
<1>b. \A some, more : Offers(some \cup more) = Offers(some) \cup Offers(more)
  BY DEF Offers
<1>c. links' = {Link(entry.hash, entry.opens) : entry \in buildNav'}
               \cup {Link(child.hash, child.opens) : child \in all'}
  OBVIOUS
<1>5. Offers(links) = Offers(buildNav) \cup Offers(all)
  <2> DEFINE fromNav == {Link(entry.hash, entry.opens) : entry \in buildNav}
             fromAll == {Link(child.hash, child.opens) : child \in all}
  <2>1. Offers(fromNav) = Offers(buildNav) /\ Offers(fromAll) = Offers(all)
    <3> HIDE DEF all
    <3> QED
      BY <1>a
  <2>2. links = fromNav \cup fromAll
    OBVIOUS
  <2> HIDE DEF all, fromNav, fromAll, links
  <2> QED
    BY <1>b, <2>1, <2>2
<1>6. Offers(links)' = Offers(buildNav') \cup Offers(all')
  <2> DEFINE fromNav == {Link(entry.hash, entry.opens) : entry \in buildNav'}
             fromAll == {Link(child.hash, child.opens) : child \in all'}
  <2>a. Offers(fromNav) = Offers(buildNav') /\ Offers(fromAll) = Offers(all')
    <3> HIDE DEF all
    <3> QED
      BY <1>a
  <2>b. links' = fromNav \cup fromAll
    BY <1>c
  <2> HIDE DEF all, links, fromNav, fromAll
  <2>1. Offers(links') = Offers(buildNav') \cup Offers(all')
    BY <1>b, <2>a, <2>b
  <2>2. Offers(links)' = Offers(links')
    BY DEF Offers
  <2> QED
    BY <2>1, <2>2
<1>7. Offers(buildNav) \subseteq Offers(buildNav)'
  BY EntriesGrow DEF Offers, Grows
<1>8. \A entry \in buildNav : Offers(entry.children) \subseteq Offers(all)'
  <2> SUFFICES ASSUME NEW entry \in buildNav  PROVE Offers(entry.children) \subseteq Offers(all)'
    OBVIOUS
  <2>1. PICK more \in buildNav' : Offers(entry.children) \subseteq Offers(more.children)
    BY EntriesGrow DEF Grows
  <2>2. more.children \subseteq all'
    BY <2>1
  <2> HIDE DEF all
  <2> QED
    BY <2>1, <2>2 DEF Offers
<1>9. Offers(Strips) \subseteq Offers(Strips)'
  <2> DEFINE boards == IF isRankingRoute(Here) THEN Boards ELSE {}
  <2>1. Offers(Strips) = Offers(EventsTabs) \cup Offers(AdminStrips) \cup Offers(AllianceStrip)
        \cup Offers(boards)
    BY DEF Strips, Offers
  <2>2. Offers(Strips)' = Offers(EventsTabs') \cup Offers(AdminStrips') \cup Offers(AllianceStrip')
        \cup Offers(boards')
    BY DEF Strips, Offers
  <2>3. Offers(boards) \subseteq Offers(boards')
    BY BoardsStay, SameEyes DEF Offers
  <2> HIDE DEF boards
  <2> QED
    BY <2>1, <2>2, <2>3, SameStay, AdminStripsStay, AllianceStripStays
<1>10. Offers(all) \subseteq Offers(all)'
  <2>1. Strips' \subseteq all'
    OBVIOUS
  <2>2. Offers(Strips)' \subseteq Offers(all)'
    BY <2>1 DEF Offers
  <2>3. \A x \in Offers(all) : x \in Offers(Strips)
        \/ \E entry \in buildNav : x \in Offers(entry.children)
    BY DEF Offers
  <2> HIDE DEF all
  <2> QED
    BY <1>8, <1>9, <2>2, <2>3
<1> HIDE DEF links, all
<1> QED
  BY <1>1, <1>2, <1>3, <1>4, <1>5, <1>6, <1>7, <1>10 DEF Offers

\* Only the answer of the permission query ends the wait for it.
LEMMA EntriesStep ==
  ASSUME [Moving \/ SigningNext]_allVars, gridPending, grid' # grid
  PROVE  {link.hash : link \in Links} \subseteq {link.hash : link \in Links'}
<1>1. Next
  BY DEF Moving, SigningNext, allVars, vars
<1>2. GridAnswers
  BY <1>1 DEF Next, Type, Follow, SessionAnswers, GridAnswers, OwnAnswers, PermissionChanges,
     TabRuleChanges,
              StripArranged, RoleChanges
<1> QED
  BY <1>2, OffersStay DEF Offers

\* What was offered before the permissions were known is still offered when they
\* arrive, whatever they turn out to be (useMayView, App.tsx).
LEMMA EntriesAlwaysStay == NavigationSpec => EntriesStay
<1>1. [Moving \/ SigningNext]_allVars =>
        [gridPending => {link.hash : link \in Links}
          \subseteq {link.hash : link \in Links'}]_<<grid>>
  BY EntriesStep
<1> QED
  BY <1>1, PTL DEF NavigationSpec, EntriesStay

\* Nothing is taken away from a reader: an entry they were offered stays when the
\* permissions arrive, nobody is moved who has something to do where they are,
\* and who is moved is moved once (App.tsx, LoginPage.tsx).
THEOREM NothingIsEverTaken == NavigationSpec => NothingIsTakenAway
BY EntriesAlwaysStay, AnswersMoveOnce DEF NothingIsTakenAway
=============================================================================
