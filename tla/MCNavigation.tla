----------------------------- MODULE MCNavigation -----------------------------
(***************************************************************************)
(* For TLC: what a reader is offered and drawn (Navigation), and how one   *)
(* gets in (SigningIn).  They share no state, so each behaviour of the run *)
(* is a behaviour of one of them.                                          *)
(***************************************************************************)
EXTENDS Navigation

CONSTANTS Accounts, Pages

VARIABLES
  place, token, roles, session, asked, dropped, remembered, form, submitted, wanted, told, side

In == INSTANCE SigningIn WITH address <- place

\* No account or page is named like one of the special values.
ASSUME WayInAssumption ==
  /\ Accounts \cap {In!None, In!Misspelt} = {}
  /\ Pages \cap {In!None, "bare", "login", "terms"} = {}

MCTyped ==
  {<<"black-money">>, <<"planner", "heroes">>, <<"alliance", "ours", "names">>,
   <<"alliance", "theirs", "names">>, <<"alliance", "theirs", "activity">>,
   <<"player", "ours">>, <<"guides", "theirs">>, <<"notices", "ours">>, <<"map", "580">>,
   <<"month-cards">>, <<"login">>, <<"admin", "display", "heroes">>, <<"admin", "nowhere">>,
   <<"hive", "shape">>, <<"gift-codes">>, <<"arena">>, <<"members">>, <<"migration">>,
   <<"nowhere">>, <<"server", "580">>, <<"event-guide", "scores">>, <<"schedule">>,
   <<"season2">>, <<"player", "theirs">>}

MCGrids == {{}, Capabilities}
MCArrangements ==
  {<<2, 1, 7>>, <<7>>}

signVars ==
  <<place, token, roles, session, asked, dropped, remembered, form, submitted, wanted, told>>
allVars == <<vars, signVars, side>>

Start ==
  /\ Init /\ In!Init
  /\ \/ side = "moving" /\ place = "bare" /\ \A x \in Accounts : roles[x] = "viewer"
     \/ side = "signing" /\ address = <<"login">>

Moving == side = "moving" /\ Next /\ UNCHANGED <<signVars, side>>
SigningNext == side = "signing" /\ In!Next /\ UNCHANGED <<vars, side>>
SigningAnswers == side = "signing" /\ In!SessionAnswers /\ UNCHANGED <<vars, side>>

NavigationSpec == Start /\ [][Moving \/ SigningNext]_allVars /\ WF_allVars(SigningAnswers)

\* Marks and notices are true, in states of the right type (Navigation, SigningIn).
MarksAreTrue == TypeOK /\ MarksTellTheTruth /\ In!TypeOK

\* Nothing is taken away from a reader: an entry they were offered stays when the
\* permissions arrive (Navigation); nobody is moved who has something to do where
\* they are, and who is moved is moved once, to a page open to them (SigningIn).
NothingIsTakenAway == EntriesStay /\ In!PickerStays /\ In!LandsOnce

\* The page a reader was refused is the one on which the way in ends (SigningIn).
WayInIsFound == In!WantedIsReached
===============================================================================
