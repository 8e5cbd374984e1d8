------------------------------- MODULE Tokens -------------------------------
(***************************************************************************)
(* Session tokens: create_token and verify_token of app/auth.py, the HTTP  *)
(* dependency current_user and the handshake of the WebSocket in           *)
(* app/main.py, and what operation does to them (docs/OPERATIONS.md):      *)
(* restarts, rotations of SESSION_SECRET, backups and restores.            *)
(*                                                                         *)
(* A Person holds passwords and tokens; a User is a name.  Only the person *)
(* who registered a name knows its password (Accounts has the forms).  A   *)
(* secret is a number, drawn anew in order.  Tokens are kept for ever by   *)
(* those they were given to: logging out revokes none (THREAT_MODEL 86).   *)
(*                                                                         *)
(* The names are chosen so that LoginProofs can extend this module and     *)
(* LoginLimiter together.                                                  *)
(***************************************************************************)
EXTENDS Integers, FiniteSets

CONSTANTS
    User, Person, Nobody,
    SESSION_TTL_SECONDS,  \* of the environment, or the default if it is malformed
    MinTTL, MaxTTL,       \* 300 s and 7 days (43)
    MaxLife, Leeway,      \* 31 days and 60 s (127)
    Configured,           \* whether SESSION_SECRET is set
    Horizon, Secrets, Issues, Open  \* bounds: of the clock, the secrets drawn,
                          \* the tokens issued and the sockets open

ASSUME TokensAssumption ==
    /\ SESSION_TTL_SECONDS \in Int
    /\ MinTTL \in Nat \ {0} /\ MaxTTL \in Nat /\ MaxLife \in Nat /\ Leeway \in Nat
    /\ MinTTL <= MaxTTL /\ MaxTTL <= MaxLife
    /\ Configured \in BOOLEAN
    /\ Horizon \in Nat /\ Secrets \in Nat /\ Issues \in Nat /\ Open \in Nat
    /\ Nobody \notin Person

VARIABLES
    now,        \* time.time() of the server
    secret,     \* what _secret answers
    accounts,   \* who registered each user of the database
    backup,     \* the accounts of the last backup
    tokens,     \* every token issued
    sockets,    \* the WebSockets that are open
    stepped,    \* history: the clock was set back
    restored    \* history: when a backup was last restored, or -1

clock == <<now, stepped>>
data  == <<accounts, backup, restored>>
tokenVars  == <<clock, secret, data, tokens, sockets>>

\* Mutant: values that are too large are let through.
ClampBelow(value, minimum, maximum) == IF value < minimum THEN minimum ELSE value

\* _bounded_int (23-28), and line 43.
Clamp(value, minimum, maximum) ==
    IF value < minimum THEN minimum ELSE IF value > maximum THEN maximum ELSE value

TTL == Clamp(SESSION_TTL_SECONDS, MinTTL, MaxTTL)

Token  == [sub : User, to : Person, iat : Nat, exp : Nat, key : Nat]
Socket == [user : User, by : Person, since : Nat]

TokensInit ==
    /\ now = 0 /\ stepped = FALSE
    /\ secret = 1
    /\ accounts = [u \in User |-> Nobody] /\ backup = [u \in User |-> Nobody]
    /\ restored = -1
    /\ tokens = {} /\ sockets = {}

-----------------------------------------------------------------------------
\* create_token, 87-102.
Issue(u, p) ==
    /\ Cardinality(tokens) < Issues
    /\ tokens' = tokens \cup {[sub |-> u, to |-> p, iat |-> now, exp |-> now + TTL, key |-> secret]}

\* Mutant: the expiry is not tested.
ValidForever(t) == t.key = secret /\ ~(t.iat > now + Leeway) /\ ~(t.exp - t.iat > MaxLife)

\* verify_token, 105-138.
Valid(t) ==
    /\ t.key = secret
    /\ ~(t.exp <= now) /\ ~(t.iat > now + Leeway) /\ ~(t.exp - t.iat > MaxLife)

\* current_user: the name is looked up, and is all a token says of its holder.
Accepted(t) == Valid(t) /\ accounts[t.sub] # Nobody

\* Lines 367-391 and 395-422 of app/main.py.
Register(u, p) ==
    /\ accounts[u] = Nobody
    /\ accounts' = [accounts EXCEPT ![u] = p]
    /\ Issue(u, p)
    /\ UNCHANGED <<clock, secret, backup, restored, sockets>>

Login(u, p) ==
    /\ accounts[u] = p
    /\ Issue(u, p)
    /\ UNCHANGED <<clock, secret, data, sockets>>

\* The handshake of the WebSocket, lines 476-498 of app/main.py.  The token is
\* not looked at again while the socket is open.
Connect(t) ==
    /\ Accepted(t) /\ Cardinality(sockets) < Open
    /\ sockets' = sockets \cup {[user |-> t.sub, by |-> t.to, since |-> now]}
    /\ UNCHANGED <<clock, secret, data, tokens>>

Disconnect(s) ==
    /\ sockets' = sockets \ {s}
    /\ UNCHANGED <<clock, secret, data, tokens>>

-----------------------------------------------------------------------------
\* The server's machine.

Advance ==
    /\ now < Horizon
    /\ now' = now + 1
    /\ UNCHANGED <<stepped, secret, data, tokens, sockets>>

SetBack ==
    /\ now > 0
    /\ now' = now - 1 /\ stepped' = TRUE
    /\ UNCHANGED <<secret, data, tokens, sockets>>

\* The process is started again, with the secret of its environment or one of
\* its own (44).
Start(s) ==
    /\ secret' = s
    /\ sockets' = {}

Fresh == IF secret < Secrets THEN {secret + 1} ELSE {}

Restart ==
    /\ \E s \in IF Configured THEN {secret} ELSE Fresh : Start(s)
    /\ UNCHANGED <<clock, data, tokens>>

\* OPERATIONS 104: SESSION_SECRET is replaced and the service restarted.
Rotate ==
    /\ \E s \in Fresh : Start(s)
    /\ UNCHANGED <<clock, data, tokens>>

Backup ==
    /\ backup' = accounts
    /\ UNCHANGED <<clock, secret, accounts, restored, tokens, sockets>>

\* OPERATIONS 7: the service is stopped, the database replaced.
Restore ==
    /\ \E s \in IF Configured THEN {secret} ELSE Fresh : Start(s)
    /\ accounts' = backup
    /\ restored' = now
    /\ UNCHANGED <<clock, backup, tokens>>

TokensNext ==
    \/ \E u \in User, p \in Person : Register(u, p) \/ Login(u, p)
    \/ \E t \in tokens : Connect(t)
    \/ \E s \in sockets : Disconnect(s)
    \/ Advance \/ SetBack \/ Restart \/ Rotate \/ Backup \/ Restore

TokensSpec == TokensInit /\ [][TokensNext]_tokenVars

-----------------------------------------------------------------------------
\* Every variable keeps its type, and no token is issued for longer than MaxTTL.
TokensOK ==
    /\ now \in Nat /\ secret \in Nat /\ restored \in Nat \cup {-1}
    /\ stepped \in BOOLEAN
    /\ accounts \in [User -> Person \cup {Nobody}] /\ backup \in [User -> Person \cup {Nobody}]
    /\ tokens \subseteq Token /\ sockets \subseteq Socket
    /\ \A t \in tokens : t.exp - t.iat \in MinTTL .. MaxTTL

\* A token that was issued is accepted until it expires, whatever TTL the
\* environment asks for, unless the secret is another, the account gone or the
\* clock set back: no setting makes a server issue what it then refuses (43, 127).
IssuedAreAccepted ==
    \A t \in tokens : t.key = secret /\ now < t.exp /\ ~stepped /\ accounts[t.sub] # Nobody => Accepted(t)

\* A token names its holder and no account: whoever else registers the name
\* after an older backup was restored is acted for by the old holder's tokens.
\* They expire within the TTL of the restore, and sockets are not opened later.
StrangersExpire ==
    ~stepped =>
        /\ \A t \in tokens : Accepted(t) /\ accounts[t.sub] # t.to =>
               restored >= 0 /\ now < restored + TTL
        /\ \A s \in sockets : accounts[s.user] # s.by =>
               restored >= 0 /\ s.since < restored + TTL
=============================================================================
