------------------------------- MODULE SigningIn -------------------------------
(***************************************************************************)
(* Signing in (features/auth/LoginPage.tsx), at its own address and at the *)
(* wall that stands before the alliance's pages (App.tsx), with what it    *)
(* goes by: the session query (lib/useSession.ts), which answers late and  *)
(* is kept when the account behind it has changed, and the page to come    *)
(* back to (lib/returnTo.ts).  Sign-in page and session are drawn again    *)
(* and run their effects within the step that changes them (Settle).       *)
(***************************************************************************)
CONSTANTS
  Accounts,
  Pages     \* the pages behind the wall; "bare", the overview, is one more

VARIABLES
  address,     \* in the address bar
  token,       \* the account whose token is stored, or None
  roles,       \* of every account, in the database
  session,     \* what the session query holds: [email, role], or Pending
  asked,       \* the account it is asking about, or None
  dropped,     \* the cache is cleared, the screen not drawn again since
  remembered,  \* the page to come back to (sessionStorage), or None
  form,        \* the sign-in page, or Closed
  submitted,   \* the account whose password is on its way, or None
  wanted,      \* ghost: the page the reader was refused and has not given up
  told         \* ghost: since the sign-in, the page has taken them for a viewer

vars == <<address, token, roles, session, asked, dropped, remembered, form, submitted, wanted, told>>

None == "none"
Pending == [email |-> "pending", role |-> "pending"]
Closed == [email |-> None, arriving |-> FALSE, busy |-> FALSE, open |-> FALSE]
Misspelt == "misspelt"
Standalone == {"login", "terms"}
Addresses == Pages \cup {"bare"} \cup Standalone

walled(a, s) == a \notin Standalone /\ s # Pending /\ s.role = "viewer"
worthReturningTo(a) == a \notin {"bare", "login"}

\* The sign-in page as it opens: it asks whose token is stored.
Opened(t) == [email |-> t, arriving |-> FALSE, busy |-> FALSE, open |-> TRUE]

rememberReturnTo(a, blocked) == IF blocked /\ worthReturningTo(a) THEN a ELSE remembered

\* Mutant: every sign-in leads to the overview.
takeReturnHome(kept) == [to |-> "bare", left |-> None]

\* Where a sign-in leads, and what is left to come back to afterwards.
takeReturnTo(kept) == [to |-> IF kept = None THEN "bare" ELSE kept, left |-> None]

\* The page leaves once the session is the one of the account that signed in.
Decides(page, s) ==
  /\ page.arriving /\ page.email # None
  /\ s # Pending /\ s.email = page.email

\* After a decision the page is not arriving any more, whatever was decided.
StillArriving(page) == page
Decided(page) == [page EXCEPT !.arriving = FALSE]

\* The screen at address a with session s, the sign-in page being f before, and
\* the effects of drawing it.
Settle(a, s, f, hopes) ==
  LET blocked == walled(a, s)
      page == CASE ~ (blocked \/ a = "login") -> Closed
                [] (blocked \/ a = "login") /\ ~ f.open -> Opened(token')
                [] OTHER -> f
      kept == rememberReturnTo(a, blocked)
      decides == Decides(page, s)
      leaves == decides /\ s.role # "viewer"
      way == takeReturnTo(kept)
      hoped == IF blocked /\ worthReturningTo(a) THEN a ELSE hopes
  IN  /\ session' = s
      /\ address' = IF leaves THEN way.to ELSE a
      /\ remembered' = IF leaves THEN way.left ELSE kept
      /\ form' = IF leaves /\ way.to # "login" THEN Closed
                 ELSE IF decides THEN Decided(page) ELSE page
      /\ told' = (form'.email # None /\ (told \/ (decides /\ ~ leaves)))
      /\ wanted' = IF \/ decides /\ ~ leaves /\ roles'[s.email] = "viewer"
                      \/ address' = hoped /\ ~ blocked
                   THEN None ELSE hoped

\* Without a token the session query is answered on the spot.
Answer(t) == IF t = None THEN [email |-> None, role |-> "viewer"] ELSE session
ask(t) == asked' = t

\* Every query is asked again; one that never had an answer goes on as it is.
invalidateQueries(a, f, hopes) ==
  IF session = Pending /\ asked # None
  THEN asked' = asked /\ Settle(a, session, f, hopes)
  ELSE ask(token') /\ Settle(a, Answer(token'), f, hopes)

Init ==
  /\ address \in Addresses /\ token = None
  /\ roles \in [Accounts -> {"viewer", "member"}]
  /\ session = [email |-> None, role |-> "viewer"] /\ asked = None /\ dropped = FALSE
  /\ remembered = IF address \in Pages THEN address ELSE None
  /\ form = IF address = "terms" THEN Closed ELSE Opened(None)
  /\ submitted = None
  /\ wanted = remembered /\ told = FALSE

-----------------------------------------------------------------------------
(* The reader goes somewhere.  A screen that was not drawn since the cache   *)
(* was cleared now is, and asks.                                             *)

Draw(a, hopes) ==
  IF dropped THEN ask(token) /\ Settle(a, IF token = None THEN Answer(None) ELSE Pending, form, hopes)
  ELSE asked' = asked /\ Settle(a, session, form, hopes)

Visit(a) ==
  /\ a # address
  /\ dropped' = FALSE /\ UNCHANGED <<token, roles, submitted>>
  /\ Draw(a, IF a = "login" THEN wanted ELSE None)

Redraw ==
  /\ dropped /\ dropped' = FALSE /\ UNCHANGED <<token, roles, submitted>>
  /\ Draw(address, wanted)

\* A reload keeps what sessionStorage keeps.
Loaded(a) ==
  /\ dropped' = FALSE /\ submitted' = None /\ ask(token')
  /\ Settle(a, IF token' = None THEN Answer(None) ELSE Pending, Closed, None)

Reload == UNCHANGED <<token, roles>> /\ Loaded(address)

\* Through a provider, the browser leaves and comes back to the bare address.
signInWithProvider(x) ==
  /\ form.open /\ form.email = None /\ token' = x /\ UNCHANGED roles
  /\ Loaded("bare")

-----------------------------------------------------------------------------
(* Signing in and out. *)

signIn(x) ==
  /\ form.open /\ form.email = None /\ submitted = None /\ ~ dropped
  /\ submitted' = x /\ form' = [form EXCEPT !.busy = TRUE]
  /\ UNCHANGED <<address, token, roles, session, asked, dropped, remembered, wanted, told>>

\* The answer, also to a page that was closed since.  The page takes the address
\* for the one that was typed, which the service reads in any spelling.
Accepted ==
  /\ submitted # None /\ submitted' = None
  /\ token' = submitted /\ UNCHANGED <<roles, dropped>>
  /\ \E typed \in {submitted, Misspelt} :
       invalidateQueries(address,
         IF form.busy THEN [form EXCEPT !.email = typed, !.arriving = TRUE, !.busy = FALSE] ELSE form,
         wanted)

Refused ==
  /\ submitted # None /\ submitted' = None
  /\ form' = [form EXCEPT !.busy = FALSE]
  /\ UNCHANGED <<address, token, roles, session, asked, dropped, remembered, wanted, told>>

\* Signing in and out announce themselves (App.tsx), and every query is asked
\* again; the page's own button forgets the account besides.
signOut ==
  /\ form.open /\ form.email # None
  /\ token' = None /\ UNCHANGED <<roles, dropped, submitted>>
  /\ invalidateQueries(address, [form EXCEPT !.email = None], None)

\* The one of the header clears the cache, before the session is answered again
\* or after, and leaves the sign-in page alone.
SignOutButton ==
  /\ session # Pending /\ session.email # None /\ ~ dropped
  /\ token' = None /\ dropped' = TRUE /\ asked' = None /\ UNCHANGED <<roles, submitted>>
  /\ \/ wanted' = None /\ UNCHANGED <<address, session, remembered, form, told>>
     \/ Settle(address, Answer(None), form, None)

\* A session that cannot be renewed, or is ended in another tab.
Expires ==
  /\ token # None /\ token' = None /\ UNCHANGED <<roles, dropped, submitted>>
  /\ \/ ~ dropped /\ invalidateQueries(address, form, None)
     \/ /\ dropped /\ wanted' = None
        /\ UNCHANGED <<address, session, asked, remembered, form, told>>

-----------------------------------------------------------------------------
(* The session, and the role behind it. *)

SessionAnswers ==
  /\ asked # None /\ asked' = None
  /\ UNCHANGED <<token, roles, dropped, submitted>>
  /\ Settle(address, [email |-> asked, role |-> roles[asked]], form, wanted)

\* A screen is opened again after a minute, or something changes.
Refetch ==
  /\ session # Pending /\ asked = None /\ ~ dropped
  /\ UNCHANGED <<token, roles, dropped, submitted>>
  /\ ask(token) /\ Settle(address, Answer(token), form, wanted)

\* A code is redeemed on the page, or access given up.
Redeem(role) ==
  /\ form.open /\ form.email # None /\ token # None
  /\ session # Pending /\ session.role # role
  /\ roles' = [roles EXCEPT ![token] = role]
  /\ UNCHANGED <<token, dropped, submitted>>
  /\ invalidateQueries(address, form, wanted)

AdminSets(x, role) ==
  /\ roles[x] # role /\ roles' = [roles EXCEPT ![x] = role]
  /\ UNCHANGED <<address, token, session, asked, dropped, remembered, form, submitted, wanted, told>>

Next ==
  \/ \E a \in Addresses : Visit(a)
  \/ Redraw \/ Reload \/ Accepted \/ Refused \/ signOut \/ SignOutButton \/ Expires
  \/ SessionAnswers \/ Refetch
  \/ \E x \in Accounts : signIn(x) \/ signInWithProvider(x)
  \/ \E role \in {"viewer", "member"} : Redeem(role) \/ \E x \in Accounts : AdminSets(x, role)

\* What was asked is answered (retry and the screen's error aside); a reader, an
\* admin and the end of a session are free.
Spec == Init /\ [][Next]_vars /\ WF_vars(SessionAnswers)

-----------------------------------------------------------------------------
(* Properties. *)

TypeOK ==
  /\ address \in Addresses /\ token \in Accounts \cup {None} /\ asked \in Accounts \cup {None}
  /\ remembered \in Pages \cup {"terms", None} /\ wanted \in Pages \cup {None}
  /\ form.open = (address = "login" \/ walled(address, session))

\* A reader whom the page has taken for a viewer redeems a code there: the answer
\* that makes them a member leaves them where the character picker now is.
PickerStays == [][SessionAnswers /\ told => UNCHANGED address]_vars

\* A reader is only moved from the sign-in page, to a page that is then open to
\* them; and there is nothing left to come back to at the next sign-in.
LandsOnce ==
  [][SessionAnswers /\ address' # address =>
       address = "login" /\ ~ walled(address', session') /\ remembered' = None]_vars

\* A reader refused at a page who signs in, spelling their address as it is
\* stored, ends on that page, unless they go elsewhere, the session ends or the
\* account turns out to be a viewer's.  (A session query that had no answer yet
\* is not asked again for the sign-in, and may answer about somebody before.)
SignedIn == form.arriving /\ form.email = token /\ asked = token
WantedIsReached == (SignedIn /\ wanted # None) ~> (wanted = None \/ token = None)
===============================================================================
