------------------------------- MODULE Console -------------------------------
(***************************************************************************)
(* How a command gets from a supervisor's click to a row: one browser with *)
(* its two cookies, the remediation panel in each of its tabs, the step-up *)
(* handler, and the guards in front of the issue and cancel handlers of    *)
(* CommandServer.  Anybody may sign in again, under any name, at any time, *)
(* and every request carries the cookies of the moment it was sent.        *)
(***************************************************************************)
EXTENDS CommandServer, Integers

CONSTANTS
  Tab, Email,
  SessionTtl,  \* MAX_AGE_SECONDS
  StepUpTtl,   \* STEPUP_TTL_SECONDS
  MaxTime,     \* bound: time
  None

ASSUME ConsoleAssumption ==
  /\ SessionTtl \in Nat /\ StepUpTtl \in Nat /\ MaxTime \in Nat
  /\ None \notin [email : Email, iat : Nat]

VARIABLES
  now,
  session, stepup,      \* the browser's cookies: None or [email, iat]
  tab,                  \* the panels: [at, kind, retried, session, stepup, slot]
  signedIn, vouched,    \* history: email -> when it last signed in, last gave the password
  issuer,               \* history: request slot -> how old both were at its check
  issuedBy              \* history: row -> the same of the request that inserted it

browserVars == <<now, session, stepup, tab, signedIn, vouched>>
consoleVars == <<serverVars, browserVars, issuer, issuedBy>>

(* DESTRUCTIVE of the handler; SPECS of the panel offers no rotate_key and *)
(* no upgrade.                                                             *)
Destructive == {"revoke", "rotate_key", "restart_machine"}
PanelKinds  == Kinds \ {"rotate_key", "upgrade"}

Never  == -1 - SessionTtl - StepUpTtl  \* too long ago to count
Token  == [email : Email, iat : 0..MaxTime]
Idle   == [at |-> "idle", kind |-> "none", retried |-> FALSE,
           session |-> None, stepup |-> None, slot |-> None]
NoOne  == [login |-> 0, stepup |-> 0]

ConsoleInit ==
  /\ ServerInit
  /\ now = 0 /\ session = None /\ stepup = None
  /\ tab = [t \in Tab |-> Idle]
  /\ signedIn = [e \in Email |-> Never] /\ vouched = [e \in Email |-> Never]
  /\ issuer = [a \in Admin |-> NoOne] /\ issuedBy = [c \in Cmd |-> NoOne]

Tick ==
  /\ now < MaxTime /\ now' = now + 1
  /\ UNCHANGED <<serverVars, session, stepup, tab, signedIn, vouched, issuer, issuedBy>>

(* loginAction: any email, a new session cookie, the step-up cookie stays. *)
Login(e) ==
  /\ session' = [email |-> e, iat |-> now]
  /\ signedIn' = [signedIn EXCEPT ![e] = now]
  /\ UNCHANGED <<serverVars, now, stepup, tab, vouched, issuer, issuedBy>>

Verify(s) == s # None /\ now - s.iat <= SessionTtl

(* Mutant: whoever gave the password.                                      *)
VerifyStepUpAnyone(u, e) == u # None /\ now - u.iat <= StepUpTtl

VerifyStepUp(u, e) == u # None /\ u.email = e /\ now - u.iat <= StepUpTtl

-----------------------------------------------------------------------------
(* The panel.  One request at a time: every button is disabled while busy. *)

Panel(t, new) == tab' = [tab EXCEPT ![t] = new]
Quiet == UNCHANGED <<serverVars, now, session, signedIn, issuer, issuedBy>>

(* A page may be as old as can be, so any button may be on it.  For a      *)
(* destructive action the typed confirmation, then the password prompt.    *)
Click(t, k) ==
  /\ tab[t].at = "idle"
  /\ Panel(t, [Idle EXCEPT !.at = IF k \in Destructive THEN "prompt" ELSE "post", !.kind = k])
  /\ Quiet /\ UNCHANGED <<stepup, vouched>>

(* The prompt is answered or dismissed.                                    *)
AnswerPrompt(t) ==
  /\ tab[t].at = "prompt"
  /\ \/ Panel(t, [tab[t] EXCEPT !.at = "stepup", !.session = session])
     \/ Panel(t, Idle)
  /\ Quiet /\ UNCHANGED <<stepup, vouched>>

(* POST /api/admin/step-up: a wrong password, a dead session or a missing  *)
(* setting is refused, and the panel gives up; else a token for the email  *)
(* of the session, which the browser has only once the answer arrives.     *)
StepUpHandler(t) ==
  /\ tab[t].at = "stepup"
  /\ \/ /\ Verify(tab[t].session)
        /\ Panel(t, [tab[t] EXCEPT !.at = "granted",
                                   !.stepup = [email |-> tab[t].session.email, iat |-> now]])
        /\ vouched' = [vouched EXCEPT ![tab[t].session.email] = now]
     \/ Panel(t, Idle) /\ UNCHANGED vouched
  /\ Quiet /\ UNCHANGED stepup

StepUpReply(t) ==
  /\ tab[t].at = "granted"
  /\ stepup' = tab[t].stepup
  /\ Panel(t, [tab[t] EXCEPT !.at = "post"])
  /\ Quiet /\ UNCHANGED vouched

PostCommand(t) ==
  /\ tab[t].at = "post"
  /\ Panel(t, [tab[t] EXCEPT !.at = "sent", !.session = session, !.stepup = stepup])
  /\ Quiet /\ UNCHANGED <<stepup, vouched>>

(* fetch throws: the panel is idle again, whatever becomes of the request. *)
NetworkError(t) ==
  /\ tab[t].at \in {"stepup", "granted", "sent", "await"}
  /\ Panel(t, Idle)
  /\ Quiet /\ UNCHANGED <<stepup, vouched>>

-----------------------------------------------------------------------------
(* The handlers.                                                           *)

FreeSlot(a) == admin[a].at = "idle" /\ \A t \in Tab : tab[t].slot # a

Accepted(t) ==
  /\ Verify(tab[t].session)
  /\ tab[t].kind \in Destructive => VerifyStepUp(tab[t].stepup, tab[t].session.email)

(* POST /api/admin/commands, up to and with the device lookup.             *)
HandlePost(t, a) ==
  /\ tab[t].at = "sent" /\ FreeSlot(a) /\ Accepted(t)
  /\ IssueLookup(a, tab[t].kind)
  /\ issuer' = [issuer EXCEPT ![a] = [login  |-> now - signedIn[tab[t].session.email],
                                      stepup |-> now - vouched[tab[t].session.email]]]
  /\ Panel(t, [tab[t] EXCEPT !.at = "await", !.slot = a])
  /\ UNCHANGED <<now, session, stepup, signedIn, vouched, issuedBy>>

(* Mutant: every 401 step_up_required is answered with a prompt.           *)
HandleRefusesAgain(t) ==
  /\ tab[t].at = "sent" /\ ~Accepted(t)
  /\ IF Verify(tab[t].session)
     THEN Panel(t, [Idle EXCEPT !.at = "prompt", !.kind = tab[t].kind, !.retried = TRUE])
     ELSE Panel(t, Idle)
  /\ Quiet /\ UNCHANGED <<stepup, vouched>>

(* 401.  step_up_required prompts once more, anything else ends the click. *)
HandleRefuses(t) ==
  /\ tab[t].at = "sent" /\ ~Accepted(t)
  /\ IF Verify(tab[t].session) /\ ~tab[t].retried
     THEN Panel(t, [Idle EXCEPT !.at = "prompt", !.kind = tab[t].kind, !.retried = TRUE])
     ELSE Panel(t, Idle)
  /\ Quiet /\ UNCHANGED <<stepup, vouched>>

(* 404 or 500: the device lookup fails.                                    *)
HandleFails(t) ==
  /\ tab[t].at = "sent" /\ Accepted(t)
  /\ Panel(t, Idle)
  /\ Quiet /\ UNCHANGED <<stepup, vouched>>

Answered(t) ==
  /\ tab[t].at = "await" /\ admin[tab[t].slot].at = "idle"
  /\ Panel(t, Idle)
  /\ Quiet /\ UNCHANGED <<stepup, vouched>>

(* The cancel button and its handler ask for a session, not for step-up.   *)
HandleCancel(a, c) ==
  /\ Verify(session) /\ FreeSlot(a) /\ CancelLookup(a, c)
  /\ UNCHANGED <<browserVars, issuer, issuedBy>>

(* The rest of both handlers; the row keeps who issued it.                 *)
HandlerGoesOn(a) ==
  /\ AdminFinish(a)
  /\ issuedBy' = [c \in Cmd |-> IF kind'[c] # kind[c] THEN issuer[a] ELSE issuedBy[c]]
  /\ UNCHANGED <<browserVars, issuer>>

PanelStep(t) == AnswerPrompt(t) \/ StepUpReply(t) \/ PostCommand(t) \/ Answered(t)

HandlerStep(t) ==
  \/ StepUpHandler(t) \/ HandleRefuses(t) \/ HandleFails(t)
  \/ \E a \in Admin : HandlePost(t, a)

ConsoleNext ==
  \/ Tick \/ \E e \in Email : Login(e)
  \/ \E t \in Tab : \/ \E k \in PanelKinds : Click(t, k)
                    \/ PanelStep(t) \/ HandlerStep(t) \/ NetworkError(t)
  \/ \E a \in Admin : HandlerGoesOn(a) \/ \E c \in Cmd : HandleCancel(a, c)

(* Supervisors answer prompts, one way or another; handlers go on.         *)
ConsoleSpec ==
  /\ ConsoleInit /\ [][ConsoleNext]_consoleVars
  /\ \A t \in Tab : WF_consoleVars(PanelStep(t)) /\ WF_consoleVars(HandlerStep(t))
  /\ \A a \in Admin : WF_consoleVars(HandlerGoesOn(a))

TypeOK ==
  /\ ServerTypeOK
  /\ now \in 0..MaxTime
  /\ session \in Token \cup {None} /\ stepup \in Token \cup {None}
  /\ tab \in [Tab -> [at : {"idle", "prompt", "stepup", "granted", "post", "sent", "await"},
                      kind : Kinds \cup {"none"}, retried : BOOLEAN,
                      session : Token \cup {None}, stepup : Token \cup {None},
                      slot : Admin \cup {None}]]
  /\ signedIn \in [Email -> Never..MaxTime] /\ vouched \in [Email -> Never..MaxTime]
  /\ issuer \in [Admin -> [login : 0..(MaxTime - Never), stepup : 0..(MaxTime - Never)]]
  /\ issuedBy \in [Cmd -> [login : 0..(MaxTime - Never), stepup : 0..(MaxTime - Never)]]

-----------------------------------------------------------------------------
(* Properties.                                                             *)

(* A destructive command is in the queue only if its issuer, signed in as  *)
(* the same person, gave the password within StepUpTtl of the request:     *)
(* whatever cookies were replaced, expired or arrived late meanwhile.      *)
DestructiveIsVouched ==
  \A c \in Cmd : kind[c] \in Destructive => issuedBy[c].stepup <= StepUpTtl

(* No command at all is issued on a session older than SessionTtl.         *)
IssuerSignedIn == \A c \in Cmd : Issued(c) => issuedBy[c].login <= SessionTtl

(* A click ends: the panel does not prompt for ever.                       *)
EveryClickSettles == \A t \in Tab : tab[t].at # "idle" ~> tab[t].at = "idle"
=============================================================================
