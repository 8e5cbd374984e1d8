------------------------------ MODULE Accounts ------------------------------
(***************************************************************************)
(* Registration and login: handleRegister, handleLogin, enterApp, logout   *)
(* and the identity store of frontend/app.js, and the register and login   *)
(* handlers and the users table of the server.                             *)
(*                                                                         *)
(* A form is submitted once; the pair of keys it generates, if it is a     *)
(* registration, has its name.  The tabs of one browser share IndexedDB.   *)
(* The limiter of logins is in LoginLimiter, the WebSocket that enterApp   *)
(* opens in ClientSocket.                                                  *)
(***************************************************************************)
EXTENDS FiniteSets

CONSTANTS
    User, Password,
    Page,       \* pages, one per tab
    Browser,    \* browser profiles
    BrowserOf,  \* the browser of each page
    Form,       \* forms that are submitted
    Mishaps,    \* what may go wrong
    NoUser, NoForm, NoRecord

ASSUME AccountsAssumption ==
    /\ BrowserOf \in [Page -> Browser]
    /\ Page # {} /\ Password # {}
    /\ Mishaps \subseteq {"audit", "network", "storage", "reload"}
    /\ NoUser \notin User /\ NoForm \notin Form
    /\ NoRecord \notin [keys : Form, password : Password]

VARIABLES
    accounts,   \* the users table: keys and password of each user
    store,      \* the identity records of each browser
    token, username, identity,  \* of each page's state
    view,       \* whether the page shows the application
    form,       \* how far each submitted form has got
    crossed,    \* history: pages that submitted a form before the last was done
    broken      \* history: forms in whose way something came

session == <<token, username, identity>>
history == <<crossed, broken>>
vars    == <<accounts, store, session, view, form, history>>

Record == [keys : Form, password : Password]

\* "asked": the request is under way; "granted", "denied": the answer is;
\* "opening": the record is being decrypted; "entering": GET /api/me is under way.
Stage == {"new", "asked", "granted", "denied", "opening", "entering", "done"}

Blank(f) == [at |-> "new", kind |-> "login", page |-> CHOOSE p \in Page : TRUE,
             user |-> NoUser, password |-> CHOOSE w \in Password : TRUE, keys |-> NoForm]

Init ==
    /\ accounts = [u \in User |-> NoRecord]
    /\ store = [b \in Browser |-> [u \in User |-> NoRecord]]
    /\ token = [p \in Page |-> NoUser]
    /\ username = [p \in Page |-> NoUser]
    /\ identity = [p \in Page |-> NoForm]
    /\ view = [p \in Page |-> "auth"]
    /\ form = [f \in Form |-> Blank(f)]
    /\ crossed = {} /\ broken = {}

Under(f)  == form[f].at \notin {"new", "done"}
Step(f, stage) == form' = [form EXCEPT ![f].at = stage]

\* The record of a form's user in the browser of its page.
Local(f) == store[BrowserOf[form[f].page]][form[f].user]

-----------------------------------------------------------------------------
\* The form's button is disabled until its handler is done (1165).
Submit(f) ==
    /\ form[f].at = "new"
    /\ \E p \in Page, u \in User, w \in Password, k \in {"login", "register"} :
          /\ view[p] = "auth"
          /\ \A g \in Form : Under(g) /\ form[g].page = p => form[g].kind # k
          /\ crossed' = IF \E g \in Form : Under(g) /\ form[g].page = p
                        THEN crossed \cup {p} ELSE crossed
          /\ form' = [form EXCEPT ![f] = [at |-> "asked", kind |-> k, page |-> p,
                                          user |-> u, password |-> w, keys |-> f]]
    /\ UNCHANGED <<accounts, store, session, view, broken>>

\* A request or an answer that is lost, or a server that cannot process it.
Lost(f) ==
    /\ "network" \in Mishaps /\ form[f].at \in {"asked", "granted"}
    /\ Step(f, "denied")
    /\ broken' = broken \cup {f}
    /\ UNCHANGED <<accounts, store, session, view, crossed>>

\* Mutant: INSERT OR REPLACE.
RegisterReplacing(f) ==
    /\ form[f].at = "asked" /\ form[f].kind = "register"
    /\ accounts' = [accounts EXCEPT ![form[f].user] = [keys |-> f, password |-> form[f].password]]
    /\ Step(f, "granted")
    /\ UNCHANGED <<store, session, view, history>>

\* Lines 379-391 of app/main.py: the account is committed before the audit row.
Register(f) ==
    /\ form[f].at = "asked" /\ form[f].kind = "register"
    /\ \/ /\ accounts[form[f].user] = NoRecord
          /\ accounts' = [accounts EXCEPT ![form[f].user] =
                             [keys |-> f, password |-> form[f].password]]
          /\ \/ Step(f, "granted") /\ UNCHANGED broken
             \/ "audit" \in Mishaps /\ Step(f, "denied") /\ broken' = broken \cup {f}
       \/ /\ accounts[form[f].user] # NoRecord
          /\ Step(f, "denied")
          /\ UNCHANGED <<accounts, broken>>
    /\ UNCHANGED <<store, session, view, crossed>>

\* Lines 410-422 of app/main.py.
Login(f) ==
    /\ form[f].at = "asked" /\ form[f].kind = "login"
    /\ LET right == accounts[form[f].user] # NoRecord
                        /\ accounts[form[f].user].password = form[f].password
       IN  \/ right /\ Step(f, "granted")
           \/ (~right \/ "audit" \in Mishaps) /\ Step(f, "denied")
    /\ UNCHANGED <<accounts, store, session, view, history>>

-----------------------------------------------------------------------------
\* The catch clauses: handleLogin forgets the token (637), handleRegister the
\* whole session (689-691), of the page and not only its own.
Caught(f) ==
    LET p == form[f].page
    IN  /\ Step(f, "done")
        /\ token' = [token EXCEPT ![p] = NoUser]
        /\ IF form[f].kind = "login" THEN UNCHANGED <<username, identity>>
           ELSE /\ username' = [username EXCEPT ![p] = NoUser]
                /\ identity' = [identity EXCEPT ![p] = NoForm]

Denied(f) ==
    /\ form[f].at = "denied"
    /\ Caught(f)
    /\ UNCHANGED <<accounts, store, view, history>>

\* Mutant: the record is not stored.
KeepNothing(f) ==
    /\ form[f].at = "granted" /\ form[f].kind = "register"
    /\ Step(f, "opening")
    /\ UNCHANGED <<accounts, store, session, view, history>>

\* Lines 676-680: the encrypted keys are stored, or cannot be.
Keep(f) ==
    /\ form[f].at = "granted" /\ form[f].kind = "register"
    /\ \/ /\ store' = [store EXCEPT ![BrowserOf[form[f].page]][form[f].user] =
                          [keys |-> f, password |-> form[f].password]]
          /\ Step(f, "opening")
          /\ UNCHANGED <<session, broken>>
       \/ /\ "storage" \in Mishaps
          /\ Caught(f) /\ broken' = broken \cup {f} /\ UNCHANGED store
    /\ UNCHANGED <<accounts, view, crossed>>

\* Mutant: goes on without a record.
LookupAnything(f) ==
    /\ form[f].at = "granted" /\ form[f].kind = "login"
    /\ form' = [form EXCEPT ![f].at = "opening",
                            ![f].keys = IF Local(f) = NoRecord THEN NoForm ELSE Local(f).keys]
    /\ UNCHANGED <<accounts, store, session, view, history>>

\* Lines 629-631: the record of this browser, if there is one, is decrypted
\* with the password.
Lookup(f) ==
    /\ form[f].at = "granted" /\ form[f].kind = "login"
    /\ IF Local(f) # NoRecord /\ Local(f).password = form[f].password
       THEN /\ form' = [form EXCEPT ![f].at = "opening", ![f].keys = Local(f).keys]
            /\ UNCHANGED session
       ELSE Caught(f)
    /\ UNCHANGED <<accounts, store, view, history>>

\* Mutants of Open: the application is shown at once; the keys of an earlier
\* session are kept.
OpenShowing(f) ==
    /\ form[f].at = "opening"
    /\ token' = [token EXCEPT ![form[f].page] = form[f].user]
    /\ username' = [username EXCEPT ![form[f].page] = form[f].user]
    /\ identity' = [identity EXCEPT ![form[f].page] = form[f].keys]
    /\ view' = [view EXCEPT ![form[f].page] = "app"]
    /\ Step(f, "entering")
    /\ UNCHANGED <<accounts, store, history>>

OpenKeeping(f) ==
    /\ form[f].at = "opening"
    /\ token' = [token EXCEPT ![form[f].page] = form[f].user]
    /\ username' = [username EXCEPT ![form[f].page] = form[f].user]
    /\ identity' = [identity EXCEPT ![form[f].page] = IF @ = NoForm THEN form[f].keys ELSE @]
    /\ Step(f, "entering")
    /\ UNCHANGED <<accounts, store, view, history>>

\* Lines 632-634 and 682-684: the session is set, and /api/me asked (698).
Open(f) ==
    /\ form[f].at = "opening"
    /\ token' = [token EXCEPT ![form[f].page] = form[f].user]
    /\ username' = [username EXCEPT ![form[f].page] = form[f].user]
    /\ identity' = [identity EXCEPT ![form[f].page] = form[f].keys]
    /\ Step(f, "entering")
    /\ UNCHANGED <<accounts, store, view, history>>

\* Lines 699-704: the answer names the user of the token it was asked with.
Enter(f) ==
    LET p == form[f].page
    IN  /\ form[f].at = "entering"
        /\ \/ /\ username[p] = form[f].user
              /\ view' = [view EXCEPT ![p] = "app"]
              /\ Step(f, "done")
              /\ UNCHANGED session
           \/ /\ username[p] # form[f].user \/ "network" \in Mishaps
              /\ Caught(f) /\ UNCHANGED view
        /\ UNCHANGED <<accounts, store, history>>

\* The session of page p, and what it shows, is gone.
Forget(p) ==
    /\ token' = [token EXCEPT ![p] = NoUser]
    /\ username' = [username EXCEPT ![p] = NoUser]
    /\ identity' = [identity EXCEPT ![p] = NoForm]
    /\ view' = [view EXCEPT ![p] = "auth"]

logout(p) ==
    /\ view[p] = "app"
    /\ Forget(p)
    /\ UNCHANGED <<accounts, store, form, history>>

\* The tab is reloaded, closed or crashes; requests under way may have been
\* processed before.
Reload(p) ==
    /\ "reload" \in Mishaps
    /\ Forget(p)
    /\ form' = [f \in Form |-> IF Under(f) /\ form[f].page = p
                               THEN [form[f] EXCEPT !.at = "done"] ELSE form[f]]
    /\ broken' = broken \cup {f \in Form : Under(f) /\ form[f].page = p}
    /\ UNCHANGED <<accounts, store, crossed>>

Handle(f) ==
    \/ Submit(f) \/ Lost(f) \/ Register(f) \/ Login(f) \/ Denied(f)
    \/ Keep(f) \/ Lookup(f) \/ Open(f) \/ Enter(f)

Next == (\E f \in Form : Handle(f)) \/ (\E p \in Page : logout(p) \/ Reload(p))

Spec == Init /\ [][Next]_vars

-----------------------------------------------------------------------------
\* Every variable keeps its type; no form opens keys that do not exist.
TypeOK ==
    /\ accounts \in [User -> Record \cup {NoRecord}]
    /\ store \in [Browser -> [User -> Record \cup {NoRecord}]]
    /\ token \in [Page -> User \cup {NoUser}] /\ username \in [Page -> User \cup {NoUser}]
    /\ identity \in [Page -> Form \cup {NoForm}]
    /\ view \in [Page -> {"auth", "app"}]
    /\ form \in [Form -> [at : Stage, kind : {"login", "register"}, page : Page,
                          user : User \cup {NoUser}, password : Password, keys : Form \cup {NoForm}]]
    /\ crossed \subseteq Page /\ broken \subseteq Form
    /\ \A f \in Form : Under(f) => form[f].keys # NoForm

\* Whoever registers a name at the same time in other tabs and browsers, an
\* identity record belongs to the account that the server has under that name,
\* and opens with its password.
RecordsAreServed ==
    \A b \in Browser, u \in User : store[b][u] # NoRecord => store[b][u] = accounts[u]

\* The keys a page signs and decrypts with are those the server hands out for
\* the user it acts as, whatever forms overlap and fail.
IdentityIsOwned ==
    \A p \in Page : username[p] # NoUser =>
        accounts[username[p]] # NoRecord /\ identity[p] = accounts[username[p]].keys

\* Keys, wherever they are, are those of the account.
KeysAreServed == RecordsAreServed /\ IdentityIsOwned

\* A page that shows the application has a token, a name and the keys to it
\* (INFORME 157: the composer needs a valid local identity), unless its login
\* and its registration form were under way at once: what the catch clause of
\* one forgets is then what the other has set (637, 689-691).
SessionIsConsistent ==
    \A p \in Page \ crossed : view[p] = "app" =>
        token[p] # NoUser /\ token[p] = username[p] /\ identity[p] # NoForm

\* Steps 3 and 4 of INFORME 5.1: once the server has an account, and no form is
\* under way, some browser has stored its keys.  The exception is a registration
\* that something came in the way of after the account was committed (379): its
\* keys are thrown away, and nobody can log in under the name any more.
AccountsKeepTheirKeys ==
    (\A f \in Form : ~Under(f)) =>
        \A u \in User : accounts[u] # NoRecord /\ accounts[u].keys \notin broken
            => \E b \in Browser : store[b][u] = accounts[u]
=============================================================================
