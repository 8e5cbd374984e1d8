--------------------------- MODULE AccountsProofs ---------------------------
(***************************************************************************)
(* Proofs about Accounts, for any number of users, pages, browsers and     *)
(* forms: the identity records and the keys pages use are those of the     *)
(* accounts, a page that shows the application has a whole session, and an *)
(* account whose registration nothing came in the way of keeps its keys.   *)
(***************************************************************************)
EXTENDS Accounts, TLAPS

FormType == [at : Stage, kind : {"login", "register"}, page : Page,
             user : User \cup {NoUser}, password : Password, keys : Form \cup {NoForm}]

\* A form under way has a user and keys, its own if it is a registration.
FormsAreWhole ==
    \A f \in Form : Under(f) =>
        form[f].user \in User /\ form[f].keys \in Form
        /\ (form[f].kind = "register" => form[f].keys = f)

\* A registration that was granted is the account, until its keys are stored.
GrantsAreServed ==
    \A f \in Form : form[f].at = "granted" /\ form[f].kind = "register" =>
        accounts[form[f].user] = [keys |-> f, password |-> form[f].password]

\* The keys a form opens are those of the account.
OpenedAreServed ==
    \A f \in Form : form[f].at \in {"opening", "entering"} =>
        accounts[form[f].user] # NoRecord /\ form[f].keys = accounts[form[f].user].keys

\* The keys of an account are in some browser or on their way to one.
KeysAreOnTheWay ==
    \A u \in User : accounts[u] # NoRecord /\ accounts[u].keys \notin broken =>
        \/ \E b \in Browser : store[b][u] = accounts[u]
        \/ \E f \in Form : form[f].at = "granted" /\ form[f].kind = "register" /\ form[f].user = u

\* Of a page whose forms have not crossed: at most one form is under way, none
\* once the application is shown, and one that enters has set the session.
UnderOn(f, p) == Under(f) /\ form[f].page = p

Own(p) ==
    /\ \A f, g \in Form : UnderOn(f, p) /\ UnderOn(g, p) => f = g
    /\ view[p] = "app" => /\ \A f \in Form : ~UnderOn(f, p)
                          /\ token[p] # NoUser /\ token[p] = username[p] /\ identity[p] # NoForm
    /\ \A f \in Form : form[f].at = "entering" /\ form[f].page = p =>
           token[p] = form[f].user /\ username[p] = form[f].user /\ identity[p] = form[f].keys

SessionsAreOwn == \A p \in Page \ crossed : Own(p)

Base    == TypeOK /\ FormsAreWhole
Records == RecordsAreServed /\ GrantsAreServed /\ OpenedAreServed /\ IdentityIsOwned
Inv     == Base /\ Records /\ KeysAreOnTheWay /\ SessionsAreOwn

-----------------------------------------------------------------------------
\* What a step of form f to a stage does to the forms.
LEMMA StepMoves ==
  ASSUME form \in [Form -> FormType], NEW f \in Form, NEW s \in Stage, Step(f, s)
  PROVE  /\ form' \in [Form -> FormType]
         /\ form'[f].at = s /\ form'[f].kind = form[f].kind /\ form'[f].page = form[f].page
         /\ form'[f].user = form[f].user /\ form'[f].password = form[f].password
         /\ form'[f].keys = form[f].keys
         /\ \A g \in Form \ {f} : form'[g] = form[g]
BY DEF Step, FormType

\* The forms are records of the fields the handlers use.
LEMMA TypeOfForms == TypeOK => form \in [Form -> FormType]
BY DEF TypeOK, FormType

\* A catch clause keeps the types, and the form is done.
LEMMA CaughtTyped ==
  ASSUME TypeOK, NEW f \in Form, Caught(f)
  PROVE  /\ token' \in [Page -> User \cup {NoUser}] /\ username' \in [Page -> User \cup {NoUser}]
         /\ identity' \in [Page -> Form \cup {NoForm}] /\ Step(f, "done")
BY DEF TypeOK, Caught

\* Nothing is under way, stored or shown at first.
LEMMA InitInv == Init => Inv
<1> SUFFICES ASSUME Init PROVE Inv
  OBVIOUS
<1>1. \A f \in Form : Blank(f) \in FormType /\ Blank(f).at = "new"
  BY AccountsAssumption DEF Blank, FormType, Stage
<1>2. TypeOK
  <2>1. form \in [Form -> FormType] /\ \A f \in Form : ~Under(f)
    BY <1>1 DEF Init, Under
  <2>2. QED
    BY <2>1 DEF Init, TypeOK, FormType
<1>3. \A f \in Form : form[f].at = "new"
  BY <1>1 DEF Init
<1>4. FormsAreWhole /\ GrantsAreServed /\ OpenedAreServed /\ SessionsAreOwn
  BY <1>3 DEF Init, FormsAreWhole, GrantsAreServed, OpenedAreServed, SessionsAreOwn, Own, UnderOn, Under
<1>5. RecordsAreServed /\ IdentityIsOwned /\ KeysAreOnTheWay
  BY DEF Init, RecordsAreServed, IdentityIsOwned, KeysAreOnTheWay
<1>6. QED
  BY <1>2, <1>4, <1>5 DEF Inv, Base, Records

-----------------------------------------------------------------------------
\* The type of the variables, and forms under way that are whole.

\* A form under way that goes on keeps types and stays whole, if the rest does.
LEMMA StepKeepsBase ==
  ASSUME Base, NEW f \in Form, NEW s \in Stage, Under(f), Step(f, s),
         accounts' \in [User -> Record \cup {NoRecord}],
         store' \in [Browser -> [User -> Record \cup {NoRecord}]],
         token' \in [Page -> User \cup {NoUser}], username' \in [Page -> User \cup {NoUser}],
         identity' \in [Page -> Form \cup {NoForm}], view' \in [Page -> {"auth", "app"}],
         broken' \subseteq Form, crossed' = crossed
  PROVE  Base'
<1>1. form' \in [Form -> FormType]
  BY StepMoves, TypeOfForms DEF Base
<1>2. /\ form'[f].user = form[f].user /\ form'[f].keys = form[f].keys /\ form'[f].kind = form[f].kind
      /\ \A g \in Form \ {f} : form'[g] = form[g]
  BY StepMoves, TypeOfForms DEF Base
<1>3. FormsAreWhole'
  BY <1>2 DEF Base, FormsAreWhole, Under
<1>4. \A g \in Form : Under(g)' => form'[g].keys # NoForm
  BY <1>3, AccountsAssumption DEF FormsAreWhole
<1>5. QED
  BY <1>1, <1>3, <1>4 DEF Base, TypeOK, FormType

\* Every step keeps the types, and the forms under way whole.
LEMMA BaseStep == Base /\ Records /\ [Next]_vars => Base'
<1> SUFFICES ASSUME Base, Records, [Next]_vars PROVE Base'
  OBVIOUS
<1>0. {"asked", "granted", "denied", "opening", "entering", "done"} \subseteq Stage
  BY DEF Stage
<1>1. CASE UNCHANGED vars
  BY <1>1 DEF vars, session, history, Base, TypeOK, FormsAreWhole, Under
<1>2. ASSUME NEW f \in Form, Submit(f) PROVE Base'
  <2>1. PICK p \in Page, u \in User, w \in Password, k \in {"login", "register"} :
           /\ form' = [form EXCEPT ![f] = [at |-> "asked", kind |-> k, page |-> p,
                                           user |-> u, password |-> w, keys |-> f]]
           /\ crossed' \in {crossed, crossed \cup {p}}
    BY <1>2 DEF Submit
  <2>2. form' \in [Form -> FormType]
    BY <2>1, <1>0, TypeOfForms DEF Base, FormType
  <2>3. FormsAreWhole'
    BY <2>1, TypeOfForms DEF Base, FormsAreWhole, Under, FormType
  <2>4. \A g \in Form : Under(g)' => form'[g].keys # NoForm
    BY <2>3, AccountsAssumption DEF FormsAreWhole
  <2>5. QED
    BY <1>2, <2>1, <2>2, <2>3, <2>4 DEF Submit, Base, TypeOK, FormType, session
<1>3. ASSUME NEW f \in Form, Lost(f) PROVE Base'
  BY <1>0, <1>3, StepKeepsBase DEF Lost, Under, Base, TypeOK, session
<1>4. ASSUME NEW f \in Form, Register(f) PROVE Base'
  <2>1. Under(f) /\ form[f].user \in User /\ form[f].password \in Password
    BY <1>4 DEF Register, Under, Base, TypeOK, FormsAreWhole
  <2>2. accounts' \in [User -> Record \cup {NoRecord}]
    BY <1>4, <2>1 DEF Register, Base, TypeOK, Record
  <2>3. (Step(f, "granted") \/ Step(f, "denied")) /\ broken' \subseteq Form
    BY <1>4 DEF Register, Base, TypeOK
  <2>4. UNCHANGED <<store, session, view, crossed>>
    BY <1>4 DEF Register
  <2>5. QED
    BY <1>0, <2>1, <2>2, <2>3, <2>4, StepKeepsBase DEF Base, TypeOK, session
<1>5. ASSUME NEW f \in Form, Login(f) PROVE Base'
  <2>1. (Step(f, "granted") \/ Step(f, "denied")) /\ Under(f)
    BY <1>5 DEF Login, Under
  <2>2. UNCHANGED <<accounts, store, session, view, history>>
    BY <1>5 DEF Login
  <2>3. QED
    BY <1>0, <2>1, <2>2, StepKeepsBase DEF Base, TypeOK, session, history
<1>6. ASSUME NEW f \in Form, Denied(f) PROVE Base'
  <2>1. Under(f) /\ UNCHANGED <<accounts, store, view, history>> /\ Caught(f)
    BY <1>6 DEF Denied, Under
  <2>2. QED
    BY <1>0, <2>1, CaughtTyped, StepKeepsBase DEF Base, TypeOK, history
<1>7. ASSUME NEW f \in Form, Keep(f) PROVE Base'
  <2>1. Under(f) /\ form[f].user \in User /\ form[f].password \in Password
    BY <1>7 DEF Keep, Under, Base, TypeOK, FormsAreWhole
  <2>2. UNCHANGED <<accounts, view, crossed>>
    BY <1>7 DEF Keep
  <2>3. CASE Caught(f) /\ broken' = broken \cup {f} /\ UNCHANGED store
    BY <1>0, <2>1, <2>2, <2>3, CaughtTyped, StepKeepsBase DEF Base, TypeOK
  <2>4. CASE /\ store' = [store EXCEPT ![BrowserOf[form[f].page]][form[f].user] =
                             [keys |-> f, password |-> form[f].password]]
             /\ Step(f, "opening") /\ UNCHANGED <<session, broken>>
    <3>1. store' \in [Browser -> [User -> Record \cup {NoRecord}]]
      BY <2>1, <2>4 DEF Base, TypeOK, Record
    <3>2. QED
      BY <1>0, <2>1, <2>2, <2>4, <3>1, StepKeepsBase DEF Base, TypeOK, session
  <2>5. QED
    BY <1>7, <2>3, <2>4 DEF Keep
<1>8. ASSUME NEW f \in Form, Lookup(f) PROVE Base'
  <2>1. Under(f) /\ UNCHANGED <<accounts, store, view, history>>
    BY <1>8 DEF Lookup, Under
  <2>2. CASE Caught(f)
    BY <1>0, <2>1, <2>2, CaughtTyped, StepKeepsBase DEF Base, TypeOK, history
  <2>3. CASE /\ Local(f) # NoRecord /\ UNCHANGED session /\ form[f].kind = "login"
             /\ form' = [form EXCEPT ![f].at = "opening", ![f].keys = Local(f).keys]
    <3>1. Local(f).keys \in Form
      BY <2>1, <2>3, AccountsAssumption DEF Local, Base, TypeOK, FormsAreWhole, Record
    <3>2. form' \in [Form -> FormType]
      BY <1>0, <2>3, <3>1, TypeOfForms DEF Base, FormType
    <3>3. FormsAreWhole'
      BY <2>1, <2>3, <3>1, TypeOfForms DEF Base, FormsAreWhole, Under, FormType
    <3>4. \A g \in Form : Under(g)' => form'[g].keys # NoForm
      BY <3>3, AccountsAssumption DEF FormsAreWhole
    <3>5. QED
      BY <2>1, <2>3, <3>2, <3>3, <3>4 DEF Base, TypeOK, FormType, session, history
  <2>4. QED
    BY <1>8, <2>2, <2>3 DEF Lookup
<1>9. ASSUME NEW f \in Form, Open(f) PROVE Base'
  <2>1. Under(f) /\ form[f].user \in User /\ form[f].keys \in Form
    BY <1>9 DEF Open, Under, Base, FormsAreWhole
  <2>2. QED
    BY <1>0, <1>9, <2>1, StepKeepsBase DEF Open, Base, TypeOK, history
<1>10. ASSUME NEW f \in Form, Enter(f) PROVE Base'
  <2>1. Under(f) /\ UNCHANGED <<accounts, store, history>>
    BY <1>10 DEF Enter, Under
  <2>2. CASE Caught(f) /\ UNCHANGED view
    BY <1>0, <2>1, <2>2, CaughtTyped, StepKeepsBase DEF Base, TypeOK, history
  <2>3. CASE view' = [view EXCEPT ![form[f].page] = "app"] /\ Step(f, "done") /\ UNCHANGED session
    BY <1>0, <2>1, <2>3, StepKeepsBase DEF Base, TypeOK, session, history
  <2>4. QED
    BY <1>10, <2>2, <2>3 DEF Enter
<1>11. ASSUME NEW p \in Page, logout(p) PROVE Base'
  BY <1>11 DEF logout, Forget, Base, TypeOK, FormsAreWhole, Under, history
<1>12. ASSUME NEW p \in Page, Reload(p) PROVE Base'
  <2>1. form' \in [Form -> FormType]
        /\ \A f \in Form : form'[f] = form[f] \/ form'[f].at = "done"
    BY <1>0, <1>12, TypeOfForms DEF Reload, Base, FormType
  <2>2. FormsAreWhole'
    BY <2>1 DEF Base, FormsAreWhole, Under
  <2>3. \A g \in Form : Under(g)' => form'[g].keys # NoForm
    BY <2>2, AccountsAssumption DEF FormsAreWhole
  <2>4. QED
    BY <1>12, <2>1, <2>2, <2>3 DEF Reload, Forget, Base, TypeOK, FormType
<1>13. QED
  BY <1>1, <1>2, <1>3, <1>4, <1>5, <1>6, <1>7, <1>8, <1>9, <1>10, <1>11, <1>12 DEF Next, Handle

-----------------------------------------------------------------------------
\* The records and the keys in use are those of the accounts.

\* A catch clause leaves a page its name and keys, or takes both.
LEMMA CaughtForgets ==
  ASSUME TypeOK, NEW f \in Form, Caught(f)
  PROVE  /\ \A p \in Page : (username'[p] = username[p] /\ identity'[p] = identity[p]) \/ username'[p] = NoUser
         /\ \A g \in Form : form'[g] = form[g] \/ form'[g].at = "done"
<1>1. form'[f].at = "done" /\ \A g \in Form \ {f} : form'[g] = form[g]
  BY CaughtTyped, StepMoves, TypeOfForms DEF Stage
<1>2. \A p \in Page : (username'[p] = username[p] /\ identity'[p] = identity[p]) \/ username'[p] = NoUser
  BY DEF Caught, TypeOK
<1>3. QED
  BY <1>1, <1>2

\* A step that changes no account and no record, gives no page other keys, and
\* takes no form to where its keys count.
LEMMA QuietRecords ==
  ASSUME Base, Records, UNCHANGED <<accounts, store>>,
         \A p \in Page : (username'[p] = username[p] /\ identity'[p] = identity[p]) \/ username'[p] = NoUser,
         \A g \in Form : \/ form'[g] = form[g]
                         \/ form'[g].at \notin {"granted", "opening", "entering"}
                         \/ form'[g].at = "granted" /\ form'[g].kind = "login"
  PROVE  Records'
BY DEF Records, RecordsAreServed, GrantsAreServed, OpenedAreServed, IdentityIsOwned

\* A new account was referred to by nothing before.
LEMMA RegisterRecords ==
  ASSUME Base, Records, NEW f \in Form, Register(f)
  PROVE  Records'
<1>. DEFINE u == form[f].user  r == [keys |-> f, password |-> form[f].password]
<1>1. form[f].at = "asked" /\ u \in User /\ UNCHANGED <<store, session>>
  BY DEF Register, Under, Base, FormsAreWhole
<1>2. CASE Step(f, "denied") /\ UNCHANGED accounts
  <2>1. \A g \in Form : form'[g] = form[g] \/ form'[g].at = "denied"
    BY <1>2, StepMoves, TypeOfForms DEF Base, Stage
  <2>2. QED
    BY <1>1, <1>2, <2>1, QuietRecords DEF session
<1>3. CASE /\ accounts[u] = NoRecord /\ accounts' = [accounts EXCEPT ![u] = r]
           /\ Step(f, "granted") \/ Step(f, "denied")
  <2>1. /\ form'[f].at \in {"granted", "denied"} /\ form'[f].user = u /\ form'[f].password = form[f].password
        /\ \A g \in Form \ {f} : form'[g] = form[g]
    BY <1>3, StepMoves, TypeOfForms DEF Base, Stage
  <2>2. r # NoRecord /\ accounts'[u] = r /\ \A v \in User \ {u} : accounts'[v] = accounts[v]
    BY <1>1, <1>3, AccountsAssumption DEF Base, TypeOK
  <2>3. RecordsAreServed'
    BY <1>1, <1>3, <2>2 DEF Records, RecordsAreServed
  <2>4. GrantsAreServed'
    <3>1. \A g \in Form \ {f} : form[g].at = "granted" /\ form[g].kind = "register" =>
             form[g].user \in User /\ form[g].user # u
      <4> SUFFICES ASSUME NEW g \in Form, form[g].at = "granted", form[g].kind = "register"
          PROVE form[g].user \in User /\ form[g].user # u
        OBVIOUS
      <4>1. [keys |-> g, password |-> form[g].password] # NoRecord
        BY AccountsAssumption DEF Base, TypeOK
      <4>2. accounts[form[g].user] # NoRecord
        BY <4>1 DEF Records, GrantsAreServed
      <4>3. QED
        BY <1>3, <4>2 DEF Base, FormsAreWhole, Under
    <3>2. QED
      BY <2>1, <2>2, <3>1 DEF Records, GrantsAreServed
  <2>5. OpenedAreServed'
    <3>1. \A g \in Form \ {f} : form[g].at \in {"opening", "entering"} =>
             form[g].user \in User /\ form[g].user # u
      BY <1>3 DEF Records, OpenedAreServed, Base, FormsAreWhole, Under
    <3>2. QED
      BY <2>1, <2>2, <3>1 DEF Records, OpenedAreServed
  <2>6. IdentityIsOwned'
    <3>1. \A p \in Page : username[p] # NoUser => username[p] \in User /\ username[p] # u
      BY <1>3 DEF Records, IdentityIsOwned, Base, TypeOK
    <3>2. QED
      BY <1>1, <2>2, <3>1 DEF Records, IdentityIsOwned, session
  <2>7. QED
    BY <2>3, <2>4, <2>5, <2>6 DEF Records
<1>4. QED
  BY <1>2, <1>3 DEF Register

\* The record that is stored is the account.
LEMMA KeepRecords ==
  ASSUME Base, Records, NEW f \in Form, Keep(f)
  PROVE  Records'
<1>. DEFINE u == form[f].user  b == BrowserOf[form[f].page]
            r == [keys |-> f, password |-> form[f].password]
<1>1. /\ u \in User /\ b \in Browser /\ accounts[u] = r /\ r # NoRecord /\ form[f].keys = f
      /\ UNCHANGED accounts
  BY AccountsAssumption DEF Keep, Under, Base, TypeOK, FormsAreWhole, Records, GrantsAreServed
<1>2. CASE Caught(f) /\ UNCHANGED store
  BY <1>1, <1>2, CaughtForgets, QuietRecords DEF Base
<1>3. CASE /\ store' = [store EXCEPT ![b][u] = r] /\ Step(f, "opening") /\ UNCHANGED session
  <2>1. /\ form'[f].at = "opening" /\ form'[f].user = u /\ form'[f].keys = f
        /\ \A g \in Form \ {f} : form'[g] = form[g]
    BY <1>1, <1>3, StepMoves, TypeOfForms DEF Base, Stage
  <2>2. \A c \in Browser, v \in User : store'[c][v] = store[c][v] \/ (v = u /\ store'[c][v] = r)
    BY <1>1, <1>3 DEF Base, TypeOK
  <2>3. RecordsAreServed'
    BY <1>1, <2>2 DEF Records, RecordsAreServed
  <2>4. GrantsAreServed'
    BY <1>1, <2>1 DEF Records, GrantsAreServed
  <2>5. OpenedAreServed'
    <3>1. accounts[u].keys = f
      BY <1>1
    <3>2. QED
      BY <1>1, <2>1, <3>1 DEF Records, OpenedAreServed
  <2>6. IdentityIsOwned'
    BY <1>1, <1>3 DEF Records, IdentityIsOwned, session
  <2>7. QED
    BY <2>3, <2>4, <2>5, <2>6 DEF Records
<1>4. QED
  BY <1>2, <1>3 DEF Keep

\* The record that is opened is the account.
LEMMA LookupRecords ==
  ASSUME Base, Records, NEW f \in Form, Lookup(f)
  PROVE  Records'
<1>1. UNCHANGED <<accounts, store>> /\ form[f].user \in User /\ BrowserOf[form[f].page] \in Browser
  BY AccountsAssumption DEF Lookup, Under, Base, TypeOK, FormsAreWhole
<1>2. CASE Caught(f)
  BY <1>1, <1>2, CaughtForgets, QuietRecords DEF Base
<1>3. CASE /\ Local(f) # NoRecord /\ UNCHANGED session
           /\ form' = [form EXCEPT ![f].at = "opening", ![f].keys = Local(f).keys]
  <2>1. Local(f) = accounts[form[f].user]
    BY <1>1, <1>3 DEF Local, Records, RecordsAreServed
  <2>2. /\ form'[f].at = "opening" /\ form'[f].user = form[f].user /\ form'[f].keys = Local(f).keys
        /\ \A g \in Form \ {f} : form'[g] = form[g]
    BY <1>3, TypeOfForms DEF Base, FormType
  <2>3. OpenedAreServed'
    <3>1. form'[f].keys = accounts[form[f].user].keys /\ accounts[form[f].user] # NoRecord
      BY <1>3, <2>1, <2>2
    <3>2. QED
      BY <1>1, <2>2, <3>1 DEF Records, OpenedAreServed
  <2>4. GrantsAreServed'
    BY <1>1, <2>2 DEF Records, GrantsAreServed
  <2>5. RecordsAreServed' /\ IdentityIsOwned'
    BY <1>1, <1>3 DEF Records, RecordsAreServed, IdentityIsOwned, session
  <2>6. QED
    BY <2>3, <2>4, <2>5 DEF Records
<1>4. QED
  BY <1>2, <1>3 DEF Lookup

\* The page gets the keys of the account.
LEMMA OpenRecords ==
  ASSUME Base, Records, NEW f \in Form, Open(f)
  PROVE  Records'
<1>. DEFINE u == form[f].user  p == form[f].page
<1>1. /\ u \in User /\ p \in Page /\ accounts[u] # NoRecord /\ form[f].keys = accounts[u].keys
      /\ UNCHANGED <<accounts, store>>
  BY DEF Open, Under, Base, TypeOK, FormsAreWhole, Records, OpenedAreServed
<1>2. /\ username'[p] = u /\ identity'[p] = form[f].keys
      /\ \A q \in Page \ {p} : username'[q] = username[q] /\ identity'[q] = identity[q]
  BY <1>1 DEF Open, Base, TypeOK
<1>3. /\ form'[f].at = "entering" /\ form'[f].user = u /\ form'[f].keys = form[f].keys
      /\ \A g \in Form \ {f} : form'[g] = form[g]
  BY StepMoves, TypeOfForms DEF Open, Base, Stage
<1>4. IdentityIsOwned'
  BY <1>1, <1>2 DEF Records, IdentityIsOwned
<1>5. GrantsAreServed' /\ OpenedAreServed' /\ RecordsAreServed'
  BY <1>1, <1>3 DEF Records, GrantsAreServed, OpenedAreServed, RecordsAreServed
<1>6. QED
  BY <1>4, <1>5 DEF Records

\* Every step keeps records, grants, opened keys and identities those of the accounts.
LEMMA RecordsStep == Base /\ Records /\ [Next]_vars => Records'
<1> SUFFICES ASSUME Base, Records, [Next]_vars PROVE Records'
  OBVIOUS
<1>1. CASE UNCHANGED vars
  BY <1>1, QuietRecords DEF vars, session
<1>2. ASSUME NEW f \in Form, Submit(f) PROVE Records'
  <2>1. form'[f].at = "asked" /\ \A g \in Form \ {f} : form'[g] = form[g]
    BY <1>2, TypeOfForms DEF Submit, Base
  <2>2. QED
    BY <1>2, <2>1, QuietRecords DEF Submit, session
<1>3. ASSUME NEW f \in Form, Lost(f) PROVE Records'
  <2>1. form'[f].at = "denied" /\ \A g \in Form \ {f} : form'[g] = form[g]
    BY <1>3, StepMoves, TypeOfForms DEF Lost, Base, Stage
  <2>2. QED
    BY <1>3, <2>1, QuietRecords DEF Lost, session
<1>4. ASSUME NEW f \in Form, Login(f) PROVE Records'
  <2>1. /\ form'[f].at \in {"granted", "denied"} /\ form'[f].kind = "login"
        /\ \A g \in Form \ {f} : form'[g] = form[g]
    BY <1>4, StepMoves, TypeOfForms DEF Login, Base, Stage
  <2>2. QED
    BY <1>4, <2>1, QuietRecords DEF Login, session
<1>5. ASSUME NEW f \in Form, Denied(f) PROVE Records'
  BY <1>5, CaughtForgets, QuietRecords DEF Denied, Base
<1>6. ASSUME NEW f \in Form, Enter(f) PROVE Records'
  <2>1. UNCHANGED <<accounts, store>>
    BY <1>6 DEF Enter
  <2>2. CASE Caught(f)
    BY <2>1, <2>2, CaughtForgets, QuietRecords DEF Base
  <2>3. CASE Step(f, "done") /\ UNCHANGED session
    <3>1. form'[f].at = "done" /\ \A g \in Form \ {f} : form'[g] = form[g]
      BY <2>3, StepMoves, TypeOfForms DEF Base, Stage
    <3>2. QED
      BY <2>1, <2>3, <3>1, QuietRecords DEF session
  <2>4. QED
    BY <1>6, <2>2, <2>3 DEF Enter
<1>7. ASSUME NEW p \in Page, logout(p) \/ Reload(p) PROVE Records'
  <2>1. \A q \in Page : (username'[q] = username[q] /\ identity'[q] = identity[q]) \/ username'[q] = NoUser
    BY <1>7 DEF logout, Reload, Forget, Base, TypeOK
  <2>2. \A g \in Form : form'[g] = form[g] \/ form'[g].at = "done"
    BY <1>7, TypeOfForms DEF logout, Reload, Base, FormType
  <2>3. QED
    BY <1>7, <2>1, <2>2, QuietRecords DEF logout, Reload
<1>8. QED
  BY <1>1, <1>2, <1>3, <1>4, <1>5, <1>6, <1>7, RegisterRecords, KeepRecords, LookupRecords, OpenRecords
     DEF Next, Handle

-----------------------------------------------------------------------------
\* The keys of an account are kept.

\* A step that changes no account loses no record of one, and lets a granted
\* registration go only when its keys are stored or something came in its way.
LEMMA KeysStay ==
  ASSUME Base, Records, KeysAreOnTheWay, UNCHANGED accounts, broken \subseteq broken',
         \A b \in Browser, u \in User : store[b][u] = accounts[u] => store'[b][u] = accounts[u],
         \A f \in Form : form[f].at = "granted" /\ form[f].kind = "register" =>
            \/ form'[f] = form[f] \/ f \in broken'
            \/ \E b \in Browser : store'[b][form[f].user] = accounts[form[f].user]
  PROVE  KeysAreOnTheWay'
<1> SUFFICES ASSUME NEW u \in User, accounts[u] # NoRecord, accounts[u].keys \notin broken'
    PROVE \/ \E b \in Browser : store'[b][u] = accounts[u]
          \/ \E f \in Form : form'[f].at = "granted" /\ form'[f].kind = "register" /\ form'[f].user = u
  BY DEF KeysAreOnTheWay
<1>1. CASE \E b \in Browser : store[b][u] = accounts[u]
  BY <1>1
<1>2. ASSUME NEW f \in Form, form[f].at = "granted", form[f].kind = "register", form[f].user = u
      PROVE \/ \E b \in Browser : store'[b][u] = accounts[u]
            \/ \E g \in Form : form'[g].at = "granted" /\ form'[g].kind = "register" /\ form'[g].user = u
  <2>1. accounts[u] = [keys |-> f, password |-> form[f].password]
    BY <1>2 DEF Records, GrantsAreServed
  <2>2. f \notin broken'
    BY <2>1
  <2>3. QED
    BY <1>2, <2>2
<1>3. QED
  BY <1>1, <1>2 DEF KeysAreOnTheWay

\* A registration's keys are on their way, or something came in its way.
LEMMA RegisterKeys ==
  ASSUME Base, Records, KeysAreOnTheWay, NEW f \in Form, Register(f)
  PROVE  KeysAreOnTheWay'
<1>. DEFINE u == form[f].user  r == [keys |-> f, password |-> form[f].password]
<1>1. form[f].at = "asked" /\ form[f].kind = "register" /\ u \in User /\ UNCHANGED store
  BY DEF Register, Under, Base, FormsAreWhole
<1>2. \A g \in Form \ {f} : form'[g] = form[g]
  BY StepMoves, TypeOfForms DEF Register, Base, Stage
<1>3. CASE UNCHANGED <<accounts, broken>>
  BY <1>1, <1>2, <1>3, KeysStay
<1>4. CASE /\ accounts[u] = NoRecord /\ accounts' = [accounts EXCEPT ![u] = r]
           /\ \/ Step(f, "granted") /\ UNCHANGED broken
              \/ Step(f, "denied") /\ broken' = broken \cup {f}
  <2>1. accounts'[u] = r /\ r.keys = f /\ \A v \in User \ {u} : accounts'[v] = accounts[v]
    BY <1>1, <1>4 DEF Base, TypeOK
  <2>2. \/ form'[f].at = "granted" /\ form'[f].kind = "register" /\ form'[f].user = u
        \/ f \in broken'
    BY <1>1, <1>4, StepMoves, TypeOfForms DEF Base, Stage
  <2>3. broken \subseteq broken'
    BY <1>4
  <2>4. QED
    BY <1>1, <1>2, <2>1, <2>2, <2>3 DEF KeysAreOnTheWay
<1>5. QED
  BY <1>3, <1>4 DEF Register

\* A registration's keys are stored, or could not be.
LEMMA KeepKeys ==
  ASSUME Base, Records, KeysAreOnTheWay, NEW f \in Form, Keep(f)
  PROVE  KeysAreOnTheWay'
<1>. DEFINE u == form[f].user  b == BrowserOf[form[f].page]
            r == [keys |-> f, password |-> form[f].password]
<1>1. /\ u \in User /\ b \in Browser /\ accounts[u] = r /\ UNCHANGED accounts
  BY AccountsAssumption DEF Keep, Under, Base, TypeOK, FormsAreWhole, Records, GrantsAreServed
<1>2. CASE Caught(f) /\ broken' = broken \cup {f} /\ UNCHANGED store
  <2>1. \A g \in Form \ {f} : form'[g] = form[g]
    BY <1>2, CaughtTyped, StepMoves, TypeOfForms DEF Base, Stage
  <2>2. QED
    BY <1>1, <1>2, <2>1, KeysStay
<1>3. CASE store' = [store EXCEPT ![b][u] = r] /\ Step(f, "opening") /\ UNCHANGED broken
  <2>1. \A g \in Form \ {f} : form'[g] = form[g]
    BY <1>3, StepMoves, TypeOfForms DEF Base, Stage
  <2>2. store'[b][u] = accounts[u]
    BY <1>1, <1>3 DEF Base, TypeOK
  <2>3. \A c \in Browser, v \in User : store[c][v] = accounts[v] => store'[c][v] = accounts[v]
    BY <1>1, <1>3 DEF Base, TypeOK
  <2>4. QED
    BY <1>1, <1>3, <2>1, <2>2, <2>3, KeysStay
<1>4. QED
  BY <1>2, <1>3 DEF Keep

\* Every step keeps the keys of the accounts or has them on their way.
LEMMA KeysStep == Base /\ Records /\ KeysAreOnTheWay /\ [Next]_vars => KeysAreOnTheWay'
<1> SUFFICES ASSUME Base, Records, KeysAreOnTheWay, [Next]_vars PROVE KeysAreOnTheWay'
  OBVIOUS
<1>1. CASE UNCHANGED vars
  BY <1>1 DEF vars, history, KeysAreOnTheWay
<1>2. ASSUME NEW f \in Form,
             Submit(f) \/ Login(f) \/ Denied(f) \/ Lookup(f) \/ Open(f) \/ Enter(f)
      PROVE KeysAreOnTheWay'
  <2>1. UNCHANGED <<accounts, store, broken>>
    BY <1>2 DEF Submit, Login, Denied, Lookup, Open, Enter, history
  <2>2. \A g \in Form \ {f} : form'[g] = form[g]
    BY <1>2, TypeOfForms DEF Submit, Login, Denied, Lookup, Open, Enter, Caught, Step, Base
  <2>3. ~(form[f].at = "granted" /\ form[f].kind = "register")
    BY <1>2 DEF Submit, Login, Denied, Lookup, Open, Enter
  <2>4. QED
    BY <2>1, <2>2, <2>3, KeysStay
<1>3. ASSUME NEW f \in Form, Lost(f) PROVE KeysAreOnTheWay'
  <2>1. \A g \in Form \ {f} : form'[g] = form[g]
    BY <1>3, TypeOfForms DEF Lost, Step, Base
  <2>2. QED
    BY <1>3, <2>1, KeysStay DEF Lost
<1>4. ASSUME NEW p \in Page, logout(p) PROVE KeysAreOnTheWay'
  BY <1>4 DEF logout, history, KeysAreOnTheWay
<1>5. ASSUME NEW p \in Page, Reload(p) PROVE KeysAreOnTheWay'
  <2>1. UNCHANGED <<accounts, store>> /\ broken \subseteq broken'
    BY <1>5 DEF Reload
  <2>2. \A f \in Form : form'[f] = form[f] \/ f \in broken'
    BY <1>5, TypeOfForms DEF Reload, Base
  <2>3. QED
    BY <2>1, <2>2, KeysStay
<1>6. QED
  BY <1>1, <1>2, <1>3, <1>4, <1>5, RegisterKeys, KeepKeys DEF Next, Handle

-----------------------------------------------------------------------------
\* A page whose forms have not crossed has the session of one form.

\* A step that leaves page p its session, and starts or enters nothing on it.
LEMMA OwnKept ==
  ASSUME NEW p \in Page, Own(p),
         token'[p] = token[p], username'[p] = username[p], identity'[p] = identity[p], view'[p] = view[p],
         \A g \in Form : UnderOn(g, p)' => UnderOn(g, p),
         \A g \in Form : form'[g].at = "entering" /\ form'[g].page = p => form'[g] = form[g]
  PROVE  Own(p)'
BY DEF Own

\* The only form under way on page p is done, whatever became of the session.
LEMMA OwnEnded ==
  ASSUME NEW p \in Page, Own(p), NEW f \in Form, UnderOn(f, p), view'[p] = view[p],
         form'[f].at = "done", \A g \in Form \ {f} : form'[g] = form[g]
  PROVE  Own(p)'
BY DEF Own, UnderOn, Under

\* A form that goes on, before it sets the session.
LEMMA OwnMoved ==
  ASSUME Base, SessionsAreOwn, NEW f \in Form, Under(f),
         form'[f].at # "entering", form'[f].page = form[f].page, \A g \in Form \ {f} : form'[g] = form[g],
         UNCHANGED <<session, view, crossed>>
  PROVE  SessionsAreOwn'
<1> SUFFICES ASSUME NEW p \in Page \ crossed PROVE Own(p)'
  BY DEF SessionsAreOwn
<1>1. \A g \in Form : UnderOn(g, p)' => UnderOn(g, p)
  BY DEF UnderOn, Under
<1>2. QED
  BY <1>1, OwnKept DEF SessionsAreOwn, session

\* A form that fails ends the session it alone was working on.
LEMMA OwnCaught ==
  ASSUME Base, SessionsAreOwn, NEW f \in Form, Under(f), Caught(f), UNCHANGED <<view, crossed>>
  PROVE  SessionsAreOwn'
<1> SUFFICES ASSUME NEW p \in Page \ crossed PROVE Own(p)'
  BY DEF SessionsAreOwn
<1>1. form'[f].at = "done" /\ \A g \in Form \ {f} : form'[g] = form[g]
  BY CaughtTyped, StepMoves, TypeOfForms DEF Base, Stage
<1>2. Own(p)
  BY DEF SessionsAreOwn
<1>3. CASE form[f].page = p
  BY <1>1, <1>2, <1>3, OwnEnded DEF UnderOn
<1>4. CASE form[f].page # p
  <2>1. token'[p] = token[p] /\ username'[p] = username[p] /\ identity'[p] = identity[p]
    BY <1>4 DEF Caught, Base, TypeOK
  <2>2. \A g \in Form : UnderOn(g, p)' => UnderOn(g, p)
    BY <1>1 DEF UnderOn, Under
  <2>3. QED
    BY <1>1, <1>2, <2>1, <2>2, OwnKept
<1>5. QED
  BY <1>3, <1>4

\* A form submitted beside another crosses it; otherwise it is alone.
LEMMA OwnSubmit ==
  ASSUME Base, SessionsAreOwn, NEW f \in Form, Submit(f)
  PROVE  SessionsAreOwn'
<1>1. PICK p \in Page : /\ view[p] = "auth" /\ form'[f].at = "asked" /\ form'[f].page = p
                        /\ crossed' = IF \E g \in Form : UnderOn(g, p) THEN crossed \cup {p} ELSE crossed
  <2>1. PICK p \in Page, u \in User, w \in Password, k \in {"login", "register"} :
           /\ view[p] = "auth"
           /\ crossed' = IF \E g \in Form : UnderOn(g, p) THEN crossed \cup {p} ELSE crossed
           /\ form' = [form EXCEPT ![f] = [at |-> "asked", kind |-> k, page |-> p,
                                           user |-> u, password |-> w, keys |-> f]]
    BY Zenon DEF Submit, UnderOn
  <2>2. form'[f].at = "asked" /\ form'[f].page = p
    BY <2>1, TypeOfForms DEF Base
  <2>3. QED
    BY <2>1, <2>2
<1>2. /\ \A g \in Form \ {f} : form'[g] = form[g]
      /\ UNCHANGED <<session, view>>
  BY TypeOfForms DEF Submit, Base
<1> SUFFICES ASSUME NEW q \in Page \ crossed' PROVE Own(q)'
  BY DEF SessionsAreOwn
<1>3. Own(q)
  BY <1>1 DEF SessionsAreOwn
<1>4. CASE q # p
  <2>1. \A g \in Form : UnderOn(g, q)' => UnderOn(g, q)
    BY <1>1, <1>2, <1>4 DEF UnderOn, Under
  <2>2. QED
    BY <1>1, <1>2, <1>3, <2>1, OwnKept DEF session
<1>5. CASE q = p
  <2>1. \A g \in Form : ~UnderOn(g, p)
    BY <1>1, <1>5
  <2>2. \A g \in Form : UnderOn(g, p)' => g = f
    BY <1>2, <2>1 DEF UnderOn, Under
  <2>3. \A g \in Form : form'[g].at = "entering" => form'[g].page # p
    BY <1>1, <1>2, <2>1 DEF UnderOn, Under
  <2>4. QED
    BY <1>1, <1>2, <1>5, <2>2, <2>3 DEF Own
<1>6. QED
  BY <1>4, <1>5

\* A form sets the session of a page that it has for itself.
LEMMA OwnOpen ==
  ASSUME Base, SessionsAreOwn, NEW f \in Form, Open(f)
  PROVE  SessionsAreOwn'
<1>. DEFINE p == form[f].page
<1>1. /\ form[f].at = "opening" /\ p \in Page /\ UNCHANGED <<view, crossed>>
      /\ token'[p] = form[f].user /\ username'[p] = form[f].user /\ identity'[p] = form[f].keys
      /\ \A q \in Page \ {p} : token'[q] = token[q] /\ username'[q] = username[q] /\ identity'[q] = identity[q]
  BY DEF Open, Base, TypeOK, history
<1>2. /\ form'[f].at = "entering" /\ form'[f].page = p
      /\ form'[f].user = form[f].user /\ form'[f].keys = form[f].keys
      /\ \A g \in Form \ {f} : form'[g] = form[g]
  BY StepMoves, TypeOfForms DEF Open, Base, Stage
<1> SUFFICES ASSUME NEW q \in Page \ crossed PROVE Own(q)'
  BY <1>1 DEF SessionsAreOwn
<1>3. Own(q)
  BY DEF SessionsAreOwn
<1>4. \A g \in Form : UnderOn(g, q)' => UnderOn(g, q)
  BY <1>1, <1>2 DEF UnderOn, Under
<1>5. CASE q # p
  BY <1>1, <1>2, <1>3, <1>4, <1>5, OwnKept
<1>6. CASE q = p
  <2>1. UnderOn(f, p)
    BY <1>1 DEF UnderOn, Under
  <2>2. \A g \in Form \ {f} : ~UnderOn(g, p)
    BY <1>3, <1>6, <2>1 DEF Own
  <2>3. view[p] # "app"
    BY <1>3, <1>6, <2>1 DEF Own
  <2>4. \A g \in Form : form'[g].at = "entering" /\ form'[g].page = p => g = f
    BY <1>2, <2>2 DEF UnderOn, Under
  <2>5. QED
    BY <1>1, <1>2, <1>3, <1>4, <1>6, <2>3, <2>4 DEF Own
<1>7. QED
  BY <1>5, <1>6

\* A page shows the application with the session of the form that entered.
LEMMA OwnEnter ==
  ASSUME Base, SessionsAreOwn, NEW f \in Form, Enter(f)
  PROVE  SessionsAreOwn'
<1>. DEFINE p == form[f].page
<1>1. form[f].at = "entering" /\ Under(f) /\ p \in Page /\ UNCHANGED crossed
  BY DEF Enter, Under, Base, TypeOK, history
<1>2. CASE Caught(f) /\ UNCHANGED view
  BY <1>1, <1>2, OwnCaught
<1>3. CASE view' = [view EXCEPT ![p] = "app"] /\ Step(f, "done") /\ UNCHANGED session
  <2>1. form'[f].at = "done" /\ \A g \in Form \ {f} : form'[g] = form[g]
    BY <1>3, StepMoves, TypeOfForms DEF Base, Stage
  <2> SUFFICES ASSUME NEW q \in Page \ crossed PROVE Own(q)'
    BY <1>1 DEF SessionsAreOwn
  <2>2. Own(q)
    BY DEF SessionsAreOwn
  <2>3. \A g \in Form : UnderOn(g, q)' => UnderOn(g, q)
    BY <2>1 DEF UnderOn, Under
  <2>4. CASE q # p
    <3>1. view'[q] = view[q]
      BY <1>3, <2>4 DEF Base, TypeOK
    <3>2. QED
      BY <1>3, <2>1, <2>2, <2>3, <3>1, OwnKept DEF session
  <2>5. CASE q = p
    <3>1. \A g \in Form : ~UnderOn(g, q)'
      <4>1. UnderOn(f, q)
        BY <1>1, <2>5 DEF UnderOn
      <4>2. \A g \in Form \ {f} : ~UnderOn(g, q)
        BY <2>2, <2>5, <4>1 DEF Own
      <4>3. QED
        BY <2>1, <4>2 DEF UnderOn, Under
    <3>2. token[q] = form[f].user /\ username[q] = form[f].user /\ identity[q] = form[f].keys
      BY <1>1, <2>2, <2>5 DEF Own
    <3>3. form[f].user \in User /\ form[f].keys \in Form
      BY <1>1 DEF Base, FormsAreWhole
    <3>4. \A g \in Form : form'[g].at = "entering" => form'[g].page # q
      BY <3>1 DEF UnderOn, Under
    <3>5. token[q] # NoUser /\ token[q] = username[q] /\ identity[q] # NoForm
      BY <3>2, <3>3, AccountsAssumption
    <3>6. QED
      BY <1>3, <2>5, <3>1, <3>4, <3>5 DEF Own, session
  <2>6. QED
    BY <2>4, <2>5
<1>4. QED
  BY <1>2, <1>3 DEF Enter

\* Logout and reload leave no form under way on a page that has not crossed.
LEMMA OwnForgotten ==
  ASSUME Base, SessionsAreOwn, NEW p \in Page, logout(p) \/ Reload(p)
  PROVE  SessionsAreOwn'
<1>1. /\ UNCHANGED crossed /\ view'[p] = "auth"
      /\ \A q \in Page \ {p} : /\ token'[q] = token[q] /\ username'[q] = username[q]
                               /\ identity'[q] = identity[q] /\ view'[q] = view[q]
  BY DEF logout, Reload, Forget, Base, TypeOK, history
<1>2. \A g \in Form : form'[g] = form[g] \/ (form'[g].at = "done" /\ form[g].page = p)
  BY TypeOfForms DEF logout, Reload, Base, FormType
<1> SUFFICES ASSUME NEW q \in Page \ crossed PROVE Own(q)'
  BY <1>1 DEF SessionsAreOwn
<1>3. Own(q)
  BY DEF SessionsAreOwn
<1>4. \A g \in Form : UnderOn(g, q)' => UnderOn(g, q)
  BY <1>2 DEF UnderOn, Under
<1>5. CASE q # p
  BY <1>1, <1>2, <1>3, <1>4, <1>5, OwnKept
<1>6. CASE q = p
  <2>1. \A g \in Form : ~UnderOn(g, p)'
    <3>1. CASE logout(p)
      BY <1>3, <1>4, <1>6, <3>1 DEF logout, Own
    <3>2. CASE Reload(p)
      BY <3>2, TypeOfForms DEF Reload, Base, UnderOn, Under, FormType
    <3>3. QED
      BY <3>1, <3>2
  <2>2. \A g \in Form : form'[g].at = "entering" => form'[g].page # p
    BY <2>1 DEF UnderOn, Under
  <2>3. QED
    BY <1>1, <1>6, <2>1, <2>2 DEF Own
<1>7. QED
  BY <1>5, <1>6

\* Every step keeps the sessions of pages whose forms have not crossed.
LEMMA SessionsStep == Base /\ SessionsAreOwn /\ [Next]_vars => SessionsAreOwn'
<1> SUFFICES ASSUME Base, SessionsAreOwn, [Next]_vars PROVE SessionsAreOwn'
  OBVIOUS
<1>1. CASE UNCHANGED vars
  BY <1>1 DEF vars, session, history, SessionsAreOwn, Own, UnderOn, Under
<1>2. ASSUME NEW f \in Form, NEW s \in Stage, Under(f), s # "entering", Step(f, s),
             UNCHANGED <<session, view, crossed>>
      PROVE SessionsAreOwn'
  BY <1>2, StepMoves, TypeOfForms, OwnMoved DEF Base
<1>3. ASSUME NEW f \in Form, Lost(f) \/ Register(f) \/ Login(f) PROVE SessionsAreOwn'
  BY <1>2, <1>3 DEF Lost, Register, Login, Under, Stage, history
<1>4. ASSUME NEW f \in Form, Denied(f) PROVE SessionsAreOwn'
  BY <1>4, OwnCaught DEF Denied, Under, history
<1>5. ASSUME NEW f \in Form, Keep(f) PROVE SessionsAreOwn'
  BY <1>2, <1>5, OwnCaught DEF Keep, Under, Stage
<1>6. ASSUME NEW f \in Form, Lookup(f) PROVE SessionsAreOwn'
  <2>1. Under(f) /\ UNCHANGED <<view, crossed>>
    BY <1>6 DEF Lookup, Under, history
  <2>2. CASE form' = [form EXCEPT ![f].at = "opening", ![f].keys = Local(f).keys] /\ UNCHANGED session
    <3>1. /\ form'[f].at = "opening" /\ form'[f].page = form[f].page
          /\ \A g \in Form \ {f} : form'[g] = form[g]
      BY <2>2, TypeOfForms DEF Base, FormType
    <3>2. QED
      BY <2>1, <2>2, <3>1, OwnMoved
  <2>3. QED
    BY <1>6, <2>1, <2>2, OwnCaught DEF Lookup
<1>7. ASSUME NEW f \in Form, Submit(f) \/ Open(f) \/ Enter(f) PROVE SessionsAreOwn'
  BY <1>7, OwnSubmit, OwnOpen, OwnEnter
<1>8. ASSUME NEW p \in Page, logout(p) \/ Reload(p) PROVE SessionsAreOwn'
  BY <1>8, OwnForgotten
<1>9. QED
  BY <1>1, <1>3, <1>4, <1>5, <1>6, <1>7, <1>8 DEF Next, Handle

-----------------------------------------------------------------------------
\* The invariant holds in every reachable state.
LEMMA Invariance == Spec => []Inv
<1>1. Init => Inv
  BY InitInv
<1>2. Inv /\ [Next]_vars => Inv'
  BY BaseStep, RecordsStep, KeysStep, SessionsStep DEF Inv
<1>3. QED
  BY <1>1, <1>2, PTL DEF Spec

\* Every variable of Accounts keeps its type.
THEOREM AccountsTypeOK == Spec => []TypeOK
<1>1. Inv => TypeOK
  BY DEF Inv, Base
<1>2. QED
  BY <1>1, Invariance, PTL

\* An identity record in any browser belongs to the account the server has, and
\* a page acts with the keys the server hands out for the user it acts as,
\* whatever forms overlap and fail (app.js 632-634, 676-684, main.py 379-391).
THEOREM KeysAreOfAccounts == Spec => []KeysAreServed
<1>1. Inv => KeysAreServed
  BY DEF Inv, Records, KeysAreServed
<1>2. QED
  BY <1>1, Invariance, PTL

\* Unless a login and a registration crossed on it, a page that shows the
\* application has a token, a name and keys that go together (app.js 637, 689-704).
THEOREM SessionsAreWhole == Spec => []SessionIsConsistent
<1>1. Inv => SessionIsConsistent
  BY DEF Inv, SessionsAreOwn, Own, SessionIsConsistent
<1>2. QED
  BY <1>1, Invariance, PTL

\* An account whose registration nothing came in the way of has its keys in some
\* browser once no form is under way (main.py 379, app.js 676).
THEOREM KeysAreKept == Spec => []AccountsKeepTheirKeys
<1>1. Inv => AccountsKeepTheirKeys
  BY DEF Inv, KeysAreOnTheWay, AccountsKeepTheirKeys, Under
<1>2. QED
  BY <1>1, Invariance, PTL
=============================================================================
