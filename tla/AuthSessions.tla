----------------------------- MODULE AuthSessions -----------------------------
(***************************************************************************)
(* The administrator's sessions: api/auth.py, get_auth_context in          *)
(* api/deps.py, the two tables of models/admin.py.  There is one           *)
(* administrator; the same person may sign in from several browsers.       *)
(*                                                                         *)
(* A handler reads at its beginning and writes in one transaction at its   *)
(* end, with an Argon2 computation between: sessions autoflush nothing,    *)
(* and the identity map keeps what was read.  The transaction may fail     *)
(* (an apply holds the write lock beyond busy_timeout), and the API may be *)
(* restarted at any moment.                                                *)
(***************************************************************************)
EXTENDS Integers, FiniteSets

CONSTANTS
  Client,     \* browsers
  Password,   \* what may be typed or chosen as a password
  Initial,    \* the password `myproxy init' has generated
  Outdated,   \* its hash was made with other Argon2 parameters
  Slots,      \* _login_verification_slots
  Ttl,        \* session_ttl_seconds
  MaxLogins,  \* bound on the sessions opened
  MaxTime     \* bound on the clock

ASSUME ClientAssumption == IsFiniteSet(Client)
ASSUME SlotsAssumption == Slots \in Nat
ASSUME SessionAssumption == Initial \in Password /\ Outdated \in BOOLEAN /\ Ttl \in Nat

VARIABLES
  admin,    \* the row of admins: the password of password_hash, whether it needs a rehash
  mustChange, \* admins.must_change_password
  rows,     \* auth_sessions: row number -> [token, expires, revoked]
  next,     \* the number of the next session token
  now,      \* the clock
  free,     \* free login verification slots
  cookie,   \* cookie[c]: the token in c's cookie
  at,       \* at[c]: where c's request is
  read,     \* read[c]: the row of admins that it has loaded
  typed,    \* typed[c]: the password sent
  checked,  \* checked[c]: when the password of c's login was found right
  own,      \* own[c]: the number of the session row that it has loaded
  era,      \* history: the token that was next at the last password change
  keeper    \* history: the row which that change has spared

tables == <<admin, mustChange, rows, next>>
requests == <<at, read, typed, checked, own>>
vars == <<tables, now, free, cookie, requests, era, keeper>>

NoToken == 0
NothingRead == [password |-> Initial, outdated |-> FALSE]
Phase == {"idle", "verify", "open", "logout", "change"}
\* More rows than are ever opened.
RowId == 1..MaxLogins
Unrevoked(t) == {i \in DOMAIN rows : rows[i].token = t /\ ~rows[i].revoked}
Usable(t) == \E i \in Unrevoked(t) : rows[i].expires > now

TypeOK ==
  /\ admin \in [password : Password, outdated : BOOLEAN] /\ mustChange \in BOOLEAN
  /\ DOMAIN rows \subseteq Nat
  /\ \A i \in DOMAIN rows :
       rows[i] \in [token : 1..(next - 1), expires : Nat, revoked : BOOLEAN]
  /\ next \in Nat \ {0} /\ now \in Nat /\ free \in Nat
  /\ cookie \in [Client -> 0..(next - 1)]
  /\ at \in [Client -> Phase]
  /\ read \in [Client -> [password : Password, outdated : BOOLEAN]]
  /\ typed \in [Client -> Password] /\ checked \in [Client -> Nat]
  /\ own \in [Client -> Nat]
  /\ era \in 1..next /\ keeper \in Nat

Init ==
  /\ admin = [password |-> Initial, outdated |-> Outdated] /\ mustChange = TRUE
  /\ rows = [i \in {} |-> 0]
  /\ next = 1 /\ now = 0 /\ free = Slots
  /\ cookie = [c \in Client |-> NoToken]
  /\ at = [c \in Client |-> "idle"]
  /\ read = [c \in Client |-> NothingRead] /\ typed = [c \in Client |-> Initial]
  /\ checked = [c \in Client |-> 0] /\ own = [c \in Client |-> 0]
  /\ era = 1 /\ keeper = 0

Goto(c, phase) == at' = [at EXCEPT ![c] = phase]
\* The request is over: its variables are gone.
Ends(c) ==
  /\ Goto(c, "idle")
  /\ read' = [read EXCEPT ![c] = NothingRead]
  /\ typed' = [typed EXCEPT ![c] = Initial]
  /\ checked' = [checked EXCEPT ![c] = 0]
  /\ own' = [own EXCEPT ![c] = 0]

------------------------------------------------------------------------------
(* Signing in.                                                             *)

\* (mutant) off by one.
SlotOrNone == free >= 0
SlotLeft == free > 0

\* The row is read, then a slot is taken; without one the answer is 429.
Login(c, p) ==
  /\ at[c] = "idle" /\ SlotLeft
  /\ free' = free - 1
  /\ read' = [read EXCEPT ![c] = admin]
  /\ typed' = [typed EXCEPT ![c] = p]
  /\ Goto(c, "verify")
  /\ UNCHANGED <<tables, now, cookie, checked, own, era, keeper>>

\* The slot is given back whether the password is right or not, 401.
\* (mutant) only if it is right.
ReleasesIfVerified(c) == free' = IF typed[c] = read[c].password THEN free + 1 ELSE free
Releases(c) == free' = free + 1
Verify(c) ==
  /\ at[c] = "verify" /\ Releases(c)
  /\ \/ /\ typed[c] = read[c].password /\ Goto(c, "open")
        /\ checked' = [checked EXCEPT ![c] = now]
        /\ UNCHANGED <<read, typed, own>>
     \/ typed[c] # read[c].password /\ Ends(c)
  /\ UNCHANGED <<tables, now, cookie, era, keeper>>

\* (mutant) every session of the administrator is cleared away.
NoRows(t) == {}
\* What the transaction deletes: the sessions that had expired at t.
Kept(t) == {i \in DOMAIN rows : rows[i].expires > t}

\* SQLite numbers a row from the largest number present: that of a deleted one comes back.
IsNextRow(i, t) == i - 1 \in Kept(t) \cup {0} /\ \A j \in Kept(t) : j < i

\* utcnow() is called once, between the end of Argon2 and the DELETE, which may wait for the
\* write lock: t is that moment.
OpenSession(c) ==
  /\ at[c] = "open" /\ next <= MaxLogins
  /\ \E t \in checked[c]..now, i \in RowId :
       /\ IsNextRow(i, t)
       /\ rows' = [j \in Kept(t) \cup {i} |->
                     IF j = i THEN [token |-> next, expires |-> t + Ttl, revoked |-> FALSE]
                     ELSE rows[j]]
  /\ next' = next + 1
  /\ cookie' = [cookie EXCEPT ![c] = next]
  /\ admin' = IF read[c].outdated THEN [password |-> typed[c], outdated |-> FALSE] ELSE admin
  /\ Ends(c)
  /\ UNCHANGED <<mustChange, now, free, era, keeper>>

------------------------------------------------------------------------------
(* Signed in.                                                              *)

\* get_auth_context loads the session and the administrator with one query.
Authenticated(c, i) == i \in Unrevoked(cookie[c]) /\ rows[i].expires > now
Request(c, phase, p) ==
  /\ at[c] = "idle" /\ cookie[c] # NoToken
  /\ \E i \in DOMAIN rows : Authenticated(c, i) /\ own' = [own EXCEPT ![c] = i]
  /\ read' = [read EXCEPT ![c] = admin]
  /\ typed' = [typed EXCEPT ![c] = p]
  /\ Goto(c, phase)
  /\ UNCHANGED <<tables, now, free, cookie, checked, era, keeper>>

\* The UPDATE addresses the row by its number; that it is gone is an error, 500.
Logout(c) ==
  /\ at[c] = "logout" /\ own[c] \in DOMAIN rows
  /\ rows' = [rows EXCEPT ![own[c]].revoked = TRUE]
  /\ cookie' = [cookie EXCEPT ![c] = NoToken]
  /\ Ends(c)
  /\ UNCHANGED <<admin, mustChange, next, now, free, era, keeper>>

\* (mutant) only the sessions opened earlier are revoked.
RevokedOlder(i, mine) == rows[i].revoked \/ i < mine
\* (mutant) the session that it has loaded is written back as it was.
RevokedButMine(i, mine) == i # mine
Revoked(i, mine) == rows[i].revoked \/ i # mine

\* The current password is compared with the hash that was read; all sessions but the
\* row of the one that asks are revoked.
ChangePassword(c, new) ==
  /\ at[c] = "change" /\ typed[c] = read[c].password /\ new # typed[c]
  /\ admin' = [password |-> new, outdated |-> FALSE] /\ mustChange' = FALSE
  /\ rows' = [i \in DOMAIN rows |-> [rows[i] EXCEPT !.revoked = Revoked(i, own[c])]]
  /\ era' = next /\ keeper' = own[c]
  /\ Ends(c)
  /\ UNCHANGED <<next, now, free, cookie>>

\* Refused (400, 500), or the transaction fails: nothing is written.
Fails(c) ==
  /\ at[c] \in {"open", "logout", "change"}
  /\ Ends(c)
  /\ UNCHANGED <<tables, now, free, cookie, era, keeper>>

------------------------------------------------------------------------------
\* The API is restarted: requests are gone, the slots are made anew.
Restart ==
  /\ at' = [c \in Client |-> "idle"] /\ free' = Slots
  /\ read' = [c \in Client |-> NothingRead] /\ typed' = [c \in Client |-> Initial]
  /\ checked' = [c \in Client |-> 0] /\ own' = [c \in Client |-> 0]
  /\ UNCHANGED <<tables, now, cookie, era, keeper>>

Tick ==
  /\ now < MaxTime /\ now' = now + 1
  /\ UNCHANGED <<tables, free, cookie, requests, era, keeper>>

Next ==
  \/ \E c \in Client :
       \/ \E p \in Password : Login(c, p) \/ Request(c, "change", p) \/ ChangePassword(c, p)
       \/ Verify(c) \/ OpenSession(c)
       \/ Request(c, "logout", Initial) \/ Logout(c)
       \/ Fails(c)
  \/ Restart
  \/ Tick

Spec == Init /\ [][Next]_vars

------------------------------------------------------------------------------
(* Properties.                                                             *)

\* After a password change no session from before it is left, but in the row of the one that
\* has asked, however logins, logouts and other changes fell between its reads and its
\* writes.  (The row need not hold the session that has asked any more: see IsNextRow.)
OldSessionsRevoked ==
  \A i \in DOMAIN rows : rows[i].token < era /\ ~rows[i].revoked => i = keeper

\* A session that has ended stays ended: no request that still works with what it has read
\* of it brings it back, neither does a restart.
EndedStaysEnded ==
  [][\A t \in 1..(next - 1) : ~Usable(t) => ~Usable(t)']_vars

\* A session ends by the clock, by a logout that holds its row, or by a password change that
\* spares another row: logins, failed requests and restarts end none, whatever row numbers
\* they reuse.
EndsForAReason ==
  [][\A t \in 1..(next - 1) : Usable(t) /\ ~Usable(t)' =>
       \/ now' > now
       \/ \E c \in Client :
            /\ at'[c] = "idle"
            /\ \/ at[c] = "logout" /\ own[c] \in Unrevoked(t)
               \/ at[c] = "change" /\ Unrevoked(t) # {own[c]}]_vars

\* A slot is taken exactly while a login verifies: none leaks, and the limit holds.
SlotsBalance == free = Slots - Cardinality({c \in Client : at[c] = "verify"})
==============================================================================
