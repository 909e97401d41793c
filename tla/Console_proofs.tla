---------------------------- MODULE Console_proofs -----------------------------
(***************************************************************************)
(* Proofs about Console, for every number of tabs, people and requests and *)
(* all lifetimes of the two cookies.                                       *)
(***************************************************************************)
EXTENDS Console, TLAPS

PanelState ==
  [at : {"idle", "prompt", "stepup", "granted", "post", "sent", "await"},
   kind : Kinds \cup {"none"}, retried : BOOLEAN,
   session : Token \cup {None}, stepup : Token \cup {None}, slot : Admin \cup {None}]

(* A cookie is no younger than what it attests: its holder did it when it  *)
(* was issued, or again since.                                             *)
Since(cookie, when) == cookie # None => cookie.iat <= when[cookie.email]

CookiesAreHonest ==
  /\ Since(session, signedIn) /\ Since(stepup, vouched)
  /\ \A t \in Tab : Since(tab[t].session, signedIn) /\ Since(tab[t].stepup, vouched)
  /\ \A e \in Email : signedIn[e] <= now /\ vouched[e] <= now

(* A request that has passed the guards keeps what they saw.               *)
InFlightVouched ==
  \A a \in Admin :
    admin[a].at \in {"check", "insert"} =>
      /\ issuer[a].login <= SessionTtl
      /\ admin[a].kind \in Destructive => issuer[a].stepup <= StepUpTtl

IInv ==
  /\ TypeOK /\ CookiesAreHonest /\ InFlightVouched /\ DestructiveIsVouched /\ IssuerSignedIn

USE ConsoleAssumption, ServerAssumption, CommandsAssumption

LEMMA Times ==
  /\ Never \in Int /\ Never < 0 /\ MaxTime \in Nat /\ SessionTtl \in Nat /\ StepUpTtl \in Nat
  /\ \A x \in Never..MaxTime : \A n \in 0..MaxTime : x <= n => n - x \in 0..(MaxTime - Never)
BY DEF Never

LEMMA Tokens == \A x \in Token : x # None /\ x.email \in Email /\ x.iat \in 0..MaxTime
BY DEF Token

LEMMA InitInv == ConsoleInit => IInv
<1> SUFFICES ASSUME ConsoleInit PROVE IInv
  OBVIOUS
<1>1. ServerTypeOK
  <2>1. /\ kind \in [Cmd -> Kinds \cup {"none"}] /\ outcome \in [Cmd -> Outcomes]
        /\ offered \in [Cmd -> {"never", "recent", "stale"}]
        /\ lapsed \subseteq Cmd /\ acks \subseteq Ack /\ beats \subseteq Beat
        /\ audit \subseteq {"command_issued", "command_canceled"} \X Cmd
    BY DEF ConsoleInit, ServerInit, Outcomes
  <2>2. paused \in BOOLEAN /\ revoked \in BOOLEAN
    BY Zenon DEF ConsoleInit, ServerInit
  <2>3. get \in [Req -> [at : {"idle", "sent", "reap", "select", "stamp", "reply"},
                         rows : SUBSET Cmd, todo : SUBSET Cmd]]
    BY DEF ConsoleInit, ServerInit, NoGet
  <2>4. admin \in [Admin -> [at : {"idle", "check", "insert", "audit", "cancel"},
                             kind : Kinds \cup {"none"}, cmd : Cmd]]
    BY DEF ConsoleInit, ServerInit, NoAdmin, Cmd
  <2>5. serverFaults \in 0..MaxServerFaults /\ losses \in 0..MaxLosses
    BY DEF ConsoleInit, ServerInit
  <2> QED BY <2>1, <2>2, <2>3, <2>4, <2>5 DEF ServerTypeOK
<1>2. Idle \in PanelState /\ Idle.session = None /\ Idle.stepup = None
  BY DEF Idle, PanelState
<1>3. TypeOK
  <2>1. NoOne \in [login : 0..(MaxTime - Never), stepup : 0..(MaxTime - Never)]
    BY Times DEF NoOne
  <2> QED BY <1>1, <1>2, <2>1, Times DEF ConsoleInit, TypeOK, PanelState
<1>4. CookiesAreHonest
  BY <1>2, Times DEF ConsoleInit, CookiesAreHonest, Since
<1>5. InFlightVouched /\ DestructiveIsVouched /\ IssuerSignedIn
  BY DEF ConsoleInit, ServerInit, NoAdmin, InFlightVouched, DestructiveIsVouched,
     IssuerSignedIn, Issued, Destructive
<1> QED BY <1>3, <1>4, <1>5 DEF IInv

-----------------------------------------------------------------------------
(* The browser.                                                            *)

(* Time passes, or somebody signs in.                                      *)
LEMMA TimeInv ==
  ASSUME IInv, Tick \/ \E e \in Email : Login(e)
  PROVE  IInv'
<1> USE DEF IInv
<1>1. UNCHANGED <<serverVars, stepup, tab, vouched, issuer, issuedBy>>
  BY DEF Tick, Login
<1>2. /\ now \in 0..MaxTime /\ now' \in 0..MaxTime /\ now <= now'
      /\ signedIn \in [Email -> Never..MaxTime] /\ signedIn' \in [Email -> Never..MaxTime]
      /\ \A e \in Email : signedIn[e] <= signedIn'[e] /\ signedIn'[e] <= now'
  BY Times DEF Tick, Login, TypeOK, CookiesAreHonest
<1>3. session' \in Token \cup {None} /\ Since(session', signedIn')
  <2>1. CASE Tick
    BY <2>1 DEF Tick, TypeOK, CookiesAreHonest
  <2>2. ASSUME NEW e \in Email, Login(e) PROVE session' \in Token /\ Since(session', signedIn')
    BY <2>2 DEF Login, TypeOK, Token, Since
  <2> QED BY <2>1, <2>2
<1>4. ServerTypeOK'
  BY <1>1 DEF TypeOK, ServerTypeOK, serverVars
<1>5. TypeOK'
  BY <1>1, <1>2, <1>3, <1>4 DEF TypeOK
<1>6. CookiesAreHonest'
  <2>1. ASSUME NEW x \in Token \cup {None}, Since(x, signedIn) PROVE Since(x, signedIn')
    BY <1>2, <2>1, Times, Tokens DEF Since
  <2>2. \A t \in Tab : tab[t].session \in Token \cup {None}
    BY DEF TypeOK
  <2>3. \A e \in Email : vouched[e] \in Int
    BY Times DEF TypeOK
  <2> QED BY <1>1, <1>2, <1>3, <2>1, <2>2, <2>3 DEF CookiesAreHonest
<1> QED BY <1>1, <1>5, <1>6 DEF InFlightVouched, DestructiveIsVouched, IssuerSignedIn, Issued,
           serverVars

(* One panel moves on; the step-up cookie and the last vouching may be     *)
(* renewed with it.                                                        *)
LEMMA PanelInv ==
  ASSUME IInv, NEW t \in Tab, NEW new \in PanelState, Panel(t, new), Quiet,
         vouched' \in [Email -> Never..MaxTime],
         \A e \in Email : vouched[e] <= vouched'[e] /\ vouched'[e] <= now,
         stepup' \in Token \cup {None}, Since(stepup', vouched'),
         Since(new.session, signedIn), Since(new.stepup, vouched')
  PROVE  IInv'
<1> USE DEF IInv
<1>1. UNCHANGED <<serverVars, now, session, signedIn, issuer, issuedBy>>
  BY DEF Quiet
<1>2. tab \in [Tab -> PanelState] /\ tab' = [tab EXCEPT ![t] = new]
  BY DEF TypeOK, PanelState, Panel
<1>3. tab' \in [Tab -> PanelState] /\ \A u \in Tab : tab'[u] = IF u = t THEN new ELSE tab[u]
  BY <1>2
<1>4. ServerTypeOK'
  BY <1>1 DEF TypeOK, ServerTypeOK, serverVars
<1>5. TypeOK'
  BY <1>1, <1>3, <1>4 DEF TypeOK, PanelState
<1>6. CookiesAreHonest'
  <2>1. vouched \in [Email -> Never..MaxTime]
    BY DEF TypeOK
  <2>2. ASSUME NEW x \in Token \cup {None}, Since(x, vouched) PROVE Since(x, vouched')
    BY <2>1, <2>2, Times, Tokens DEF Since
  <2>3. \A u \in Tab : tab[u].stepup \in Token \cup {None}
    BY <1>2 DEF PanelState
  <2> QED BY <1>1, <1>3, <2>2, <2>3 DEF CookiesAreHonest
<1> QED BY <1>1, <1>5, <1>6 DEF InFlightVouched, DestructiveIsVouched, IssuerSignedIn, Issued,
           serverVars

LEMMA QuietInv ==
  ASSUME IInv, NEW t \in Tab, NEW new \in PanelState, Panel(t, new), Quiet,
         UNCHANGED <<stepup, vouched>>,
         Since(new.session, signedIn), Since(new.stepup, vouched)
  PROVE  IInv'
<1>1. /\ vouched' \in [Email -> Never..MaxTime] /\ stepup' \in Token \cup {None}
      /\ \A e \in Email : vouched[e] <= vouched'[e] /\ vouched'[e] <= now
      /\ Since(stepup', vouched') /\ Since(new.stepup, vouched')
  BY Times DEF IInv, TypeOK, CookiesAreHonest
<1> QED BY <1>1, PanelInv

LEMMA BlankInv ==
  ASSUME IInv, NEW t \in Tab, NEW new \in PanelState, new.session = None, new.stepup = None,
         Panel(t, new), Quiet, UNCHANGED <<stepup, vouched>>
  PROVE  IInv'
BY QuietInv DEF Since

LEMMA IdleAgainInv ==
  ASSUME IInv, NEW t \in Tab, Panel(t, Idle), Quiet, UNCHANGED <<stepup, vouched>>
  PROVE  IInv'
<1>1. Idle \in PanelState /\ Idle.session = None /\ Idle.stepup = None
  BY DEF Idle, PanelState
<1> QED BY <1>1, BlankInv

(* The supervisor's clicks and answers, and what comes back to the panel.  *)
LEMMA PanelStepInv ==
  ASSUME IInv, NEW t \in Tab,
         \/ \E k \in PanelKinds : Click(t, k)
         \/ PanelStep(t) \/ NetworkError(t)
  PROVE  IInv'
<1>1. tab[t] \in PanelState /\ session \in Token \cup {None} /\ stepup \in Token \cup {None}
  BY DEF IInv, TypeOK, PanelState
<1>2. /\ Since(tab[t].session, signedIn) /\ Since(tab[t].stepup, vouched)
      /\ Since(session, signedIn) /\ Since(stepup, vouched)
  BY DEF IInv, CookiesAreHonest
<1>3. ASSUME NEW k \in PanelKinds, Click(t, k) PROVE IInv'
  <2>1. PICK at \in {"prompt", "post"} : Panel(t, [Idle EXCEPT !.at = at, !.kind = k])
    BY <1>3 DEF Click
  <2> DEFINE new == [Idle EXCEPT !.at = at, !.kind = k]
  <2>2. new \in PanelState /\ new.session = None /\ new.stepup = None
    BY DEF Idle, PanelState, PanelKinds
  <2>3. Panel(t, new)
    BY <2>1
  <2> HIDE DEF new
  <2> QED BY <1>3, <2>2, <2>3, BlankInv DEF Click
<1>4. ASSUME Quiet, UNCHANGED <<stepup, vouched>>, Panel(t, Idle) PROVE IInv'
  BY <1>4, IdleAgainInv
<1>5. CASE AnswerPrompt(t)
  <2>1. CASE Panel(t, [tab[t] EXCEPT !.at = "stepup", !.session = session])
    <3> DEFINE new == [tab[t] EXCEPT !.at = "stepup", !.session = session]
    <3>1. new \in PanelState /\ new.session = session /\ new.stepup = tab[t].stepup
      BY <1>1 DEF PanelState
    <3>2. Panel(t, new)
      BY <2>1
    <3> HIDE DEF new
    <3> QED BY <1>2, <1>5, <3>1, <3>2, QuietInv DEF AnswerPrompt
  <2> QED BY <1>4, <1>5, <2>1 DEF AnswerPrompt
<1>6. CASE StepUpReply(t)
  <2> DEFINE new == [tab[t] EXCEPT !.at = "post"]
  <2>1. new \in PanelState /\ new.session = tab[t].session /\ new.stepup = tab[t].stepup
    BY <1>1 DEF PanelState
  <2>2. Panel(t, new)
    BY <1>6 DEF StepUpReply
  <2> HIDE DEF new
  <2>3. stepup' = tab[t].stepup /\ UNCHANGED vouched /\ Quiet
    BY <1>6 DEF StepUpReply
  <2>4. stepup' \in Token \cup {None}
    BY <1>1, <2>3 DEF PanelState
  <2>5. /\ vouched' \in [Email -> Never..MaxTime]
        /\ \A e \in Email : vouched[e] <= vouched'[e] /\ vouched'[e] <= now
    BY <2>3, Times DEF IInv, TypeOK, CookiesAreHonest
  <2>6. Since(stepup', vouched') /\ Since(new.stepup, vouched') /\ Since(new.session, signedIn)
    BY <1>2, <2>1, <2>3
  <2> QED BY <2>1, <2>2, <2>3, <2>4, <2>5, <2>6, PanelInv
<1>7. CASE PostCommand(t)
  <2> DEFINE new == [tab[t] EXCEPT !.at = "sent", !.session = session, !.stepup = stepup]
  <2>1. new \in PanelState /\ new.session = session /\ new.stepup = stepup
    BY <1>1 DEF PanelState
  <2>2. Panel(t, new)
    BY <1>7 DEF PostCommand
  <2> HIDE DEF new
  <2> QED BY <1>2, <1>7, <2>1, <2>2, QuietInv DEF PostCommand
<1>8. CASE Answered(t)
  BY <1>4, <1>8 DEF Answered
<1>9. CASE NetworkError(t)
  BY <1>4, <1>9 DEF NetworkError
<1> QED BY <1>3, <1>5, <1>6, <1>7, <1>8, <1>9 DEF PanelStep

(* A correct password vouches for the email of the session it came with.   *)
LEMMA StepUpHandlerInv ==
  ASSUME IInv, NEW t \in Tab, StepUpHandler(t)
  PROVE  IInv'
<1>1. tab[t] \in PanelState
  BY DEF IInv, TypeOK, PanelState
<1>2. CASE Panel(t, Idle) /\ UNCHANGED vouched
  BY <1>2, IdleAgainInv DEF StepUpHandler
<1>3. CASE ~ (Panel(t, Idle) /\ UNCHANGED vouched)
  <2> DEFINE e == tab[t].session.email
             new == [tab[t] EXCEPT !.at = "granted", !.stepup = [email |-> e, iat |-> now]]
  <2>1. /\ Verify(tab[t].session) /\ Panel(t, new) /\ vouched' = [vouched EXCEPT ![e] = now]
        /\ Quiet /\ UNCHANGED stepup
    BY <1>3 DEF StepUpHandler
  <2>2. e \in Email /\ [email |-> e, iat |-> now] \in Token
    BY <1>1, <2>1, Tokens DEF Verify, PanelState, Token, IInv, TypeOK
  <2>3. /\ new \in PanelState /\ new.session = tab[t].session
        /\ new.stepup.email = e /\ new.stepup.iat = now
    BY <1>1, <2>2 DEF PanelState
  <2> HIDE DEF e, new
  <2>4. /\ vouched' \in [Email -> Never..MaxTime] /\ vouched'[e] = now
        /\ \A x \in Email : vouched[x] <= vouched'[x] /\ vouched'[x] <= now
    BY <2>1, <2>2, Times DEF IInv, TypeOK, CookiesAreHonest
  <2>5. Since(stepup', vouched')
    <3>1. stepup \in Token \cup {None} /\ Since(stepup, vouched)
      BY DEF IInv, TypeOK, CookiesAreHonest
    <3>2. \A x \in Email : vouched[x] \in Int /\ vouched'[x] \in Int
      BY <2>4, Times DEF IInv, TypeOK
    <3> QED BY <2>1, <2>4, <3>1, <3>2, Times, Tokens DEF Since
  <2>6. Since(new.session, signedIn) /\ Since(new.stepup, vouched')
    <3>1. now \in Int
      BY DEF IInv, TypeOK
    <3> QED BY <2>3, <2>4, <3>1 DEF Since, IInv, CookiesAreHonest
  <2>7. stepup' \in Token \cup {None}
    BY <2>1 DEF IInv, TypeOK
  <2> QED BY <2>1, <2>3, <2>4, <2>5, <2>6, <2>7, PanelInv
<1> QED BY <1>2, <1>3

LEMMA RefusalInv ==
  ASSUME IInv, NEW t \in Tab, HandleRefuses(t) \/ HandleFails(t)
  PROVE  IInv'
<1>1. CASE Panel(t, Idle)
  BY <1>1, IdleAgainInv DEF HandleRefuses, HandleFails
<1>2. CASE ~ Panel(t, Idle)
  <2> DEFINE new == [Idle EXCEPT !.at = "prompt", !.kind = tab[t].kind, !.retried = TRUE]
  <2>1. tab[t].kind \in Kinds \cup {"none"}
    BY DEF IInv, TypeOK
  <2>2. new \in PanelState /\ new.session = None /\ new.stepup = None
    BY <2>1 DEF Idle, PanelState
  <2>3. Panel(t, new) /\ Quiet /\ UNCHANGED <<stepup, vouched>>
    BY <1>2 DEF HandleRefuses, HandleFails
  <2> HIDE DEF new
  <2> QED BY <2>2, <2>3, BlankInv
<1> QED BY <1>1, <1>2

-----------------------------------------------------------------------------
(* The handlers.                                                           *)

(* What the guards see is at least as old as what they look for: an age    *)
(* that passes them bounds the time since the person signed in, or gave    *)
(* the password.                                                           *)
LEMMA HandlePostInv ==
  ASSUME IInv, NEW t \in Tab, NEW a \in Admin, HandlePost(t, a)
  PROVE  IInv'
<1> USE DEF IInv
<1> DEFINE s == tab[t].session
           u == tab[t].stepup
           i == [login |-> now - signedIn[s.email], stepup |-> now - vouched[s.email]]
           new == [tab[t] EXCEPT !.at = "await", !.slot = a]
<1>1. /\ Accepted(t) /\ IssueLookup(a, tab[t].kind) /\ Panel(t, new)
      /\ issuer' = [issuer EXCEPT ![a] = i]
      /\ UNCHANGED <<now, session, stepup, signedIn, vouched, issuedBy>>
  BY DEF HandlePost
<1>2. /\ tab[t] \in PanelState /\ s \in Token \cup {None} /\ u \in Token \cup {None}
      /\ Since(s, signedIn) /\ Since(u, vouched)
      /\ now \in 0..MaxTime
      /\ signedIn \in [Email -> Never..MaxTime] /\ vouched \in [Email -> Never..MaxTime]
      /\ \A e \in Email : signedIn[e] <= now /\ vouched[e] <= now
  BY DEF TypeOK, PanelState, CookiesAreHonest
<1>3. s \in Token /\ s.email \in Email /\ s.iat \in 0..MaxTime /\ now - s.iat <= SessionTtl
  BY <1>1, <1>2, Tokens DEF Accepted, Verify
<1>4. /\ signedIn[s.email] \in Never..MaxTime /\ vouched[s.email] \in Never..MaxTime
      /\ s.iat <= signedIn[s.email]
  BY <1>2, <1>3, Tokens DEF Since
<1>5. /\ i \in [login : 0..(MaxTime - Never), stepup : 0..(MaxTime - Never)]
      /\ i.login = now - signedIn[s.email] /\ i.stepup = now - vouched[s.email]
  <2>1. signedIn[s.email] <= now /\ vouched[s.email] <= now
    BY <1>2, <1>3
  <2> QED BY <1>2, <1>4, <2>1, Times
<1>6. i.login <= SessionTtl
  BY <1>2, <1>3, <1>4, <1>5, Times
<1>7. ASSUME tab[t].kind \in Destructive PROVE i.stepup <= StepUpTtl
  <2>1. u \in Token /\ u.email = s.email /\ now - u.iat <= StepUpTtl
    BY <1>1, <1>2, <1>7 DEF Accepted, VerifyStepUp
  <2>2. u.iat \in 0..MaxTime /\ u.iat <= vouched[s.email]
    BY <1>2, <2>1, Tokens DEF Since
  <2> QED BY <1>2, <1>4, <1>5, <2>1, <2>2, Times
<1>8. /\ new \in PanelState /\ new.session = s /\ new.stepup = u /\ tab[t].kind \in Kinds \cup {"none"}
  BY <1>2 DEF PanelState
<1> HIDE DEF i, new, s, u
<1>9. /\ admin' = [admin EXCEPT ![a] = [at |-> "check", kind |-> tab[t].kind, cmd |-> 1]]
      /\ UNCHANGED <<kind, outcome, offered, lapsed, paused, revoked, audit, get, acks, beats,
                     serverFaults, losses>>
  BY <1>1 DEF IssueLookup, AdminStep, rowVars, deviceVars
<1>10. ServerTypeOK'
  <2>1. [at |-> "check", kind |-> tab[t].kind, cmd |-> 1]
          \in [at : {"idle", "check", "insert", "audit", "cancel"},
              kind : Kinds \cup {"none"}, cmd : Cmd]
    BY <1>8 DEF Cmd
  <2> QED BY <1>9, <2>1 DEF TypeOK, ServerTypeOK
<1>11. tab \in [Tab -> PanelState] /\ tab' = [tab EXCEPT ![t] = new]
  BY <1>1 DEF TypeOK, PanelState, Panel
<1>12. TypeOK'
  <2>1. tab' \in [Tab -> PanelState]
    BY <1>8, <1>11
  <2>2. issuer' \in [Admin -> [login : 0..(MaxTime - Never), stepup : 0..(MaxTime - Never)]]
    BY <1>1, <1>5 DEF TypeOK
  <2> QED BY <1>1, <1>10, <2>1, <2>2 DEF TypeOK, PanelState
<1>13. CookiesAreHonest'
  BY <1>1, <1>2, <1>8, <1>11 DEF CookiesAreHonest
<1>14. InFlightVouched'
  <2>1. admin \in [Admin -> [at : {"idle", "check", "insert", "audit", "cancel"},
                             kind : Kinds \cup {"none"}, cmd : Cmd]]
    BY DEF TypeOK, ServerTypeOK
  <2>2. issuer \in [Admin -> [login : 0..(MaxTime - Never), stepup : 0..(MaxTime - Never)]]
    BY DEF TypeOK
  <2>3. issuer'[a] = i /\ admin'[a].kind = tab[t].kind
    BY <1>1, <1>9, <2>1, <2>2
  <2>4. \A b \in Admin : b # a => issuer'[b] = issuer[b] /\ admin'[b] = admin[b]
    BY <1>1, <1>9, <2>1, <2>2
  <2> QED BY <1>6, <1>7, <2>3, <2>4 DEF InFlightVouched
<1>15. DestructiveIsVouched' /\ IssuerSignedIn'
  BY <1>1, <1>9 DEF DestructiveIsVouched, IssuerSignedIn, Issued
<1> QED BY <1>12, <1>13, <1>14, <1>15

(* What a handler does after its guards: it keeps its action up to the     *)
(* insert, and inserts that action and nothing else.                       *)
LEMMA FinishFacts ==
  ASSUME ServerTypeOK, NEW a \in Admin, AdminFinish(a)
  PROVE  /\ ServerTypeOK'
         /\ \A b \in Admin :
              admin'[b].at \in {"check", "insert"} =>
                admin[b].at \in {"check", "insert"} /\ admin'[b].kind = admin[b].kind
         /\ \A c \in Cmd :
              \/ kind'[c] = kind[c]
              \/ admin[a].at = "insert" /\ kind'[c] = admin[a].kind
<1> DEFINE Slot == [at : {"idle", "check", "insert", "audit", "cancel"},
                    kind : Kinds \cup {"none"}, cmd : Cmd]
<1>1. admin \in [Admin -> Slot] /\ admin[a] \in Slot
  BY DEF ServerTypeOK
<1>2. UNCHANGED <<offered, lapsed, paused, revoked, get, acks, beats, losses>>
  BY DEF AdminFinish, IssueCheck, IssueInsert, IssueAudit, IssueAuditFails, CancelUpdate,
     rowVars, deviceVars
<1>3. PICK n \in Slot : /\ admin' = [admin EXCEPT ![a] = n]
                        /\ n.at \in {"check", "insert"} =>
                             admin[a].at \in {"check", "insert"} /\ n.kind = admin[a].kind
  <2>1. NoAdmin \in Slot /\ NoAdmin.at = "idle"
    BY DEF NoAdmin, Cmd
  <2>3. 1 \in Cmd /\ NextRow \subseteq Cmd /\ admin[a].kind \in Kinds \cup {"none"}
    BY <1>1 DEF Cmd, NextRow
  <2>4. CASE IssueCheck(a)
    <3>1. PICK at \in {"idle", "insert"}, k \in {"none", admin[a].kind} :
            /\ admin[a].at = "check"
            /\ at = "insert" => k = admin[a].kind
            /\ admin' = [admin EXCEPT ![a] = [at |-> at, kind |-> k, cmd |-> 1]]
      BY <2>4 DEF IssueCheck, AdminStep
    <3> DEFINE n == [at |-> at, kind |-> k, cmd |-> 1]
    <3>2. n \in Slot /\ n.at = at /\ n.kind = k
      BY <2>3
    <3> HIDE DEF n, Slot
    <3>3. admin' = [admin EXCEPT ![a] = n]
      BY <3>1 DEF n
    <3> QED BY <3>1, <3>2, <3>3
  <2>5. CASE IssueInsert(a)
    <3>1. PICK c \in NextRow :
            admin' = [admin EXCEPT ![a] = [at |-> "audit", kind |-> admin[a].kind, cmd |-> c]]
      BY <2>5 DEF IssueInsert, AdminStep
    <3> DEFINE n == [at |-> "audit", kind |-> admin[a].kind, cmd |-> c]
    <3>2. n \in Slot /\ n.at = "audit"
      BY <2>3
    <3> HIDE DEF n, Slot
    <3>3. admin' = [admin EXCEPT ![a] = n]
      BY <3>1 DEF n
    <3> QED BY <3>2, <3>3
  <2>6. CASE IssueAudit(a) \/ IssueAuditFails(a) \/ CancelUpdate(a)
    BY <2>1, <2>6 DEF IssueAudit, IssueAuditFails, CancelUpdate
  <2> QED BY <2>4, <2>5, <2>6 DEF AdminFinish
<1>4. \/ UNCHANGED kind
      \/ /\ admin[a].at = "insert"
         /\ \E c \in Cmd : kind' = [kind EXCEPT ![c] = admin[a].kind]
  BY DEF AdminFinish, IssueCheck, IssueInsert, IssueAudit, IssueAuditFails, CancelUpdate,
     rowVars, NextRow
<1>5. kind \in [Cmd -> Kinds \cup {"none"}] /\ kind' \in [Cmd -> Kinds \cup {"none"}]
  BY <1>1, <1>4 DEF ServerTypeOK
<1>6. outcome' \in [Cmd -> Outcomes]
  BY DEF ServerTypeOK, AdminFinish, IssueCheck, IssueInsert, IssueAudit, IssueAuditFails,
     CancelUpdate, rowVars, Outcomes
<1>7. audit' \subseteq {"command_issued", "command_canceled"} \X Cmd
  BY <1>1 DEF ServerTypeOK, AdminFinish, IssueCheck, IssueInsert, IssueAudit, IssueAuditFails,
     CancelUpdate
<1>8. serverFaults' \in 0..MaxServerFaults
  BY DEF ServerTypeOK, AdminFinish, IssueCheck, IssueInsert, IssueAudit, IssueAuditFails,
     CancelUpdate
<1>9. paused' \in BOOLEAN /\ revoked' \in BOOLEAN
  BY <1>2, Zenon DEF ServerTypeOK
<1>10. admin' \in [Admin -> Slot] /\ \A b \in Admin : admin'[b] = IF b = a THEN n ELSE admin[b]
  BY <1>1, <1>3
<1>11. ServerTypeOK'
  BY <1>2, <1>5, <1>6, <1>7, <1>8, <1>9, <1>10 DEF ServerTypeOK
<1> QED BY <1>3, <1>4, <1>5, <1>10, <1>11

LEMMA GoesOnInv ==
  ASSUME IInv, NEW a \in Admin, HandlerGoesOn(a)
  PROVE  IInv'
<1> USE DEF IInv
<1>1. /\ AdminFinish(a) /\ UNCHANGED <<now, session, stepup, tab, signedIn, vouched, issuer>>
      /\ issuedBy' = [c \in Cmd |-> IF kind'[c] # kind[c] THEN issuer[a] ELSE issuedBy[c]]
  BY DEF HandlerGoesOn, browserVars
<1>2. ServerTypeOK
  BY DEF TypeOK
<1>3. TypeOK'
  BY <1>1, <1>2, FinishFacts DEF TypeOK
<1>4. CookiesAreHonest'
  BY <1>1 DEF CookiesAreHonest
<1>5. InFlightVouched'
  BY <1>1, <1>2, FinishFacts DEF InFlightVouched
<1>6. DestructiveIsVouched' /\ IssuerSignedIn'
  BY <1>1, <1>2, FinishFacts DEF InFlightVouched, DestructiveIsVouched, IssuerSignedIn, Issued
<1> QED BY <1>3, <1>4, <1>5, <1>6

LEMMA CancelInv ==
  ASSUME IInv, NEW a \in Admin, NEW c \in Cmd, HandleCancel(a, c)
  PROVE  IInv'
<1> USE DEF IInv
<1> DEFINE n == [at |-> "cancel", kind |-> kind[c], cmd |-> c]
           Slot == [at : {"idle", "check", "insert", "audit", "cancel"},
                    kind : Kinds \cup {"none"}, cmd : Cmd]
<1>1. /\ admin' = [admin EXCEPT ![a] = n]
      /\ UNCHANGED <<kind, outcome, offered, lapsed, paused, revoked, audit, get, acks, beats,
                     serverFaults, losses>>
      /\ UNCHANGED <<browserVars, issuer, issuedBy>>
  BY DEF HandleCancel, CancelLookup, AdminStep, rowVars, deviceVars
<1>2. admin \in [Admin -> Slot] /\ n \in Slot /\ n.at = "cancel"
  BY DEF TypeOK, ServerTypeOK
<1> HIDE DEF n
<1>3. admin' \in [Admin -> Slot] /\ \A b \in Admin : admin'[b] = IF b = a THEN n ELSE admin[b]
  BY <1>1, <1>2
<1>4. ServerTypeOK'
  BY <1>1, <1>3 DEF TypeOK, ServerTypeOK
<1>5. TypeOK' /\ CookiesAreHonest'
  BY <1>1, <1>4 DEF TypeOK, CookiesAreHonest, browserVars
<1>6. InFlightVouched'
  BY <1>1, <1>2, <1>3 DEF InFlightVouched
<1>7. DestructiveIsVouched' /\ IssuerSignedIn'
  BY <1>1 DEF DestructiveIsVouched, IssuerSignedIn, Issued
<1> QED BY <1>5, <1>6, <1>7

LEMMA StutterInv == IInv /\ UNCHANGED consoleVars => IInv'
BY DEF IInv, TypeOK, ServerTypeOK, CookiesAreHonest, InFlightVouched, DestructiveIsVouched,
   IssuerSignedIn, Issued, consoleVars, serverVars, browserVars, Since, Destructive

LEMMA NextInv == IInv /\ [ConsoleNext]_consoleVars => IInv'
<1> SUFFICES ASSUME IInv, [ConsoleNext]_consoleVars PROVE IInv'
  OBVIOUS
<1>1. CASE Tick \/ \E e \in Email : Login(e)
  BY <1>1, TimeInv
<1>2. ASSUME NEW t \in Tab, \/ \E k \in PanelKinds : Click(t, k)
                            \/ PanelStep(t) \/ NetworkError(t)
      PROVE  IInv'
  BY <1>2, PanelStepInv
<1>3. ASSUME NEW t \in Tab, HandlerStep(t) PROVE IInv'
  BY <1>3, StepUpHandlerInv, RefusalInv, HandlePostInv DEF HandlerStep
<1>4. ASSUME NEW a \in Admin, HandlerGoesOn(a) \/ \E c \in Cmd : HandleCancel(a, c)
      PROVE  IInv'
  BY <1>4, GoesOnInv, CancelInv
<1> QED BY <1>1, <1>2, <1>3, <1>4, StutterInv DEF ConsoleNext

LEMMA Invariance == ConsoleSpec => []IInv
<1> QED BY InitInv, NextInv, PTL DEF ConsoleSpec

(* Every variable of the browser, the panels and the handlers keeps its    *)
(* type.                                                                   *)
THEOREM TypesHold == ConsoleSpec => []TypeOK
<1>1. IInv => TypeOK
  BY DEF IInv
<1> QED BY <1>1, Invariance, PTL

(* No destructive command is queued unless the person it is issued as gave *)
(* the password within the lifetime of a step-up, whoever else uses the    *)
(* browser and whatever is lost, late or repeated.                         *)
THEOREM DestructionIsVouched == ConsoleSpec => []DestructiveIsVouched
<1>1. IInv => DestructiveIsVouched
  BY DEF IInv
<1> QED BY <1>1, Invariance, PTL

(* No command is queued for somebody who signed in longer ago than a       *)
(* session lasts.                                                          *)
THEOREM IssuersAreSignedIn == ConsoleSpec => []IssuerSignedIn
<1>1. IInv => IssuerSignedIn
  BY DEF IInv
<1> QED BY <1>1, Invariance, PTL
=============================================================================
