-------------------------- MODULE AuthSessionsProofs --------------------------
(***************************************************************************)
(* Proofs about AuthSessions for any number of browsers, passwords, slots  *)
(* and sessions.  The inductive invariant is the conjunction of the types  *)
(* (no session has a token that was not issued), of OldSessionsRevoked and *)
(* of SlotsBalance.                                                        *)
(***************************************************************************)
EXTENDS AuthSessions, FiniteSetTheorems, TLAPS

Verifying == {c \in Client : at[c] = "verify"}

\* What every action but those of its own keeps.
LEMMA Requests ==
  ASSUME TypeOK, NEW c \in Client, NEW phase \in Phase, Goto(c, phase)
  PROVE  at' \in [Client -> Phase]
  BY DEF TypeOK, Goto

LEMMA RequestEnds ==
  ASSUME TypeOK, NEW c \in Client, Ends(c)
  PROVE  /\ at' \in [Client -> Phase] /\ typed' \in [Client -> Password]
         /\ read' \in [Client -> [password : Password, outdated : BOOLEAN]]
         /\ checked' \in [Client -> Nat] /\ own' \in [Client -> Nat]
<1>1. NothingRead \in [password : Password, outdated : BOOLEAN]
  BY SessionAssumption DEF NothingRead
<1> QED BY <1>1, SessionAssumption DEF TypeOK, Ends, Goto, Phase

------------------------------------------------------------------------------
(* Types.                                                                  *)

LEMMA InitTypes == Init => TypeOK
  BY SlotsAssumption, SessionAssumption DEF Init, TypeOK, NothingRead, NoToken, Phase

LEMMA OpenSessionTypes == ASSUME TypeOK, NEW c \in Client, OpenSession(c) PROVE TypeOK'
<1>1. PICK t \in checked[c]..now, i \in RowId :
        rows' = [j \in Kept(t) \cup {i} |->
                   IF j = i THEN [token |-> next, expires |-> t + Ttl, revoked |-> FALSE]
                   ELSE rows[j]]
  BY DEF OpenSession
<1>2. DOMAIN rows' = Kept(t) \cup {i} /\ Kept(t) \subseteq DOMAIN rows /\ i \in Nat /\ t \in Nat
  BY <1>1 DEF Kept, RowId, TypeOK
<1>3. next' = next + 1 /\ next' \in Nat \ {0} /\ next \in 1..(next' - 1)
  BY DEF OpenSession, TypeOK
<1>4. \A j \in DOMAIN rows' :
        rows'[j] \in [token : 1..(next' - 1), expires : Nat, revoked : BOOLEAN]
  <2> SUFFICES ASSUME NEW j \in DOMAIN rows'
               PROVE  rows'[j] \in [token : 1..(next' - 1), expires : Nat, revoked : BOOLEAN]
    OBVIOUS
  <2>1. CASE j = i
    BY <1>1, <1>2, <1>3, <2>1, SessionAssumption DEF TypeOK
  <2>2. CASE j # i
    <3>1. j \in DOMAIN rows /\ rows'[j] = rows[j]
      BY <1>1, <1>2, <2>2
    <3>2. 1..(next - 1) \subseteq 1..(next' - 1)
      BY <1>3 DEF TypeOK
    <3> QED BY <3>1, <3>2 DEF TypeOK
  <2> QED BY <2>1, <2>2
<1>5. admin' \in [password : Password, outdated : BOOLEAN]
  BY DEF OpenSession, TypeOK
<1>6. cookie' \in [Client -> 0..(next' - 1)]
  BY <1>3 DEF OpenSession, TypeOK
<1>7. era' \in 1..next' /\ keeper' \in Nat /\ now' \in Nat /\ free' \in Nat /\ mustChange' \in BOOLEAN
  BY <1>3 DEF OpenSession, TypeOK
<1> QED
  BY <1>2, <1>3, <1>4, <1>5, <1>6, <1>7, RequestEnds DEF OpenSession, TypeOK

LEMMA LogoutTypes == ASSUME TypeOK, NEW c \in Client, Logout(c) PROVE TypeOK'
<1>1. /\ DOMAIN rows' = DOMAIN rows /\ next' = next
      /\ \A i \in DOMAIN rows :
           rows'[i] \in [token : 1..(next - 1), expires : Nat, revoked : BOOLEAN]
  BY DEF Logout, TypeOK
<1>2. cookie' \in [Client -> 0..(next' - 1)]
  BY <1>1 DEF Logout, TypeOK, NoToken
<1> QED BY <1>1, <1>2, RequestEnds DEF Logout, TypeOK

LEMMA ChangePasswordTypes ==
  ASSUME TypeOK, NEW c \in Client, NEW p \in Password, ChangePassword(c, p) PROVE TypeOK'
<1>1. /\ DOMAIN rows' = DOMAIN rows /\ next' = next
      /\ \A i \in DOMAIN rows :
           rows'[i] \in [token : 1..(next - 1), expires : Nat, revoked : BOOLEAN]
  BY DEF ChangePassword, TypeOK, Revoked
<1>2. admin' \in [password : Password, outdated : BOOLEAN] /\ mustChange' \in BOOLEAN
  BY DEF ChangePassword
<1>3. era' \in 1..next' /\ keeper' \in Nat
  BY DEF ChangePassword, TypeOK
<1> QED BY <1>1, <1>2, <1>3, RequestEnds DEF ChangePassword, TypeOK

LEMMA StepTypes == ASSUME TypeOK, Next PROVE TypeOK'
<1>1. ASSUME NEW c \in Client, NEW p \in Password, Login(c, p) PROVE TypeOK'
  <2>1. at' \in [Client -> Phase] /\ free' \in Nat
    BY <1>1, Requests DEF Login, Phase, SlotLeft, TypeOK
  <2> QED BY <1>1, <2>1 DEF Login, TypeOK, tables
<1>2. ASSUME NEW c \in Client, Verify(c) PROVE TypeOK'
  <2>1. free' \in Nat
    BY <1>2 DEF Verify, Releases, TypeOK
  <2>2. /\ at' \in [Client -> Phase] /\ typed' \in [Client -> Password]
        /\ read' \in [Client -> [password : Password, outdated : BOOLEAN]]
        /\ checked' \in [Client -> Nat] /\ own' \in [Client -> Nat]
    BY <1>2, Requests, RequestEnds DEF Verify, Phase, TypeOK
  <2> QED BY <1>2, <2>1, <2>2 DEF Verify, TypeOK, tables
<1>3. ASSUME NEW c \in Client, NEW phase \in {"logout", "change"}, NEW p \in Password,
             Request(c, phase, p)
      PROVE  TypeOK'
  <2>1. at' \in [Client -> Phase]
    BY <1>3, Requests DEF Request, Phase
  <2>2. own' \in [Client -> Nat]
    BY <1>3 DEF Request, TypeOK
  <2> QED BY <1>3, <2>1, <2>2 DEF Request, TypeOK, tables
<1>4. ASSUME NEW c \in Client, Fails(c) PROVE TypeOK'
  BY <1>4, RequestEnds DEF Fails, TypeOK, tables
<1>5. CASE Restart
  BY <1>5, SlotsAssumption, SessionAssumption DEF Restart, TypeOK, tables, NothingRead, Phase
<1>6. CASE Tick
  BY <1>6 DEF Tick, TypeOK, tables, requests
<1> QED
  BY <1>1, <1>2, <1>3, <1>4, <1>5, <1>6, OpenSessionTypes, LogoutTypes, ChangePasswordTypes,
     SessionAssumption DEF Next

------------------------------------------------------------------------------
(* Slots.                                                                  *)

LEMMA VerifyingIsFinite == IsFiniteSet(Verifying) /\ Cardinality(Verifying) \in Nat
<1>1. Verifying \subseteq Client
  BY DEF Verifying
<1> QED BY <1>1, ClientAssumption, FS_Subset, FS_CardinalityType

\* A step that brings no request to or from `verify' changes no slot.
LEMMA StepSlots == ASSUME TypeOK, SlotsBalance, Next PROVE SlotsBalance'
<1> SUFFICES free' = Slots - Cardinality(Verifying')
  BY DEF SlotsBalance, Verifying
<1>0. free = Slots - Cardinality(Verifying)
  BY DEF SlotsBalance, Verifying
<1>1. ASSUME NEW c \in Client, NEW p \in Password, Login(c, p)
      PROVE  free' = Slots - Cardinality(Verifying')
  <2>1. Verifying' = Verifying \cup {c} /\ c \notin Verifying
    BY <1>1 DEF Login, Goto, TypeOK, Verifying
  <2>2. Cardinality(Verifying') = Cardinality(Verifying) + 1
    BY <2>1, VerifyingIsFinite, FS_AddElement
  <2> QED BY <1>0, <1>1, <2>2, VerifyingIsFinite, SlotsAssumption DEF Login
<1>2. ASSUME NEW c \in Client, Verify(c) PROVE free' = Slots - Cardinality(Verifying')
  <2>1. Verifying' = Verifying \ {c} /\ c \in Verifying
    BY <1>2 DEF Verify, Ends, Goto, TypeOK, Verifying
  <2>2. Cardinality(Verifying') = Cardinality(Verifying) - 1
    BY <2>1, VerifyingIsFinite, FS_RemoveElement
  <2> QED BY <1>0, <1>2, <2>2, VerifyingIsFinite, SlotsAssumption DEF Verify, Releases
<1>3. ASSUME NEW c \in Client, NEW phase \in Phase \ {"verify"}, at[c] # "verify",
             Goto(c, phase), free' = free
      PROVE  free' = Slots - Cardinality(Verifying')
  <2>1. Verifying' = Verifying
    BY <1>3 DEF Goto, TypeOK, Verifying
  <2> QED BY <1>0, <1>3, <2>1
<1>4. CASE Restart
  <2>1. Verifying' = {}
    BY <1>4 DEF Restart, Verifying
  <2> QED BY <1>4, <2>1, FS_EmptySet, SlotsAssumption DEF Restart
<1>5. CASE Tick
  <2>1. Verifying' = Verifying /\ free' = free
    BY <1>5 DEF Tick, requests, Verifying
  <2> QED BY <1>0, <2>1
<1>6. ASSUME NEW c \in Client,
             \/ OpenSession(c) \/ Logout(c) \/ Fails(c)
             \/ \E p \in Password : ChangePassword(c, p)
             \/ \E p \in Password : Request(c, "logout", p) \/ Request(c, "change", p)
      PROVE  free' = Slots - Cardinality(Verifying')
  BY <1>3, <1>6 DEF OpenSession, Logout, Fails, ChangePassword, Request, Ends, Phase
<1> QED BY <1>1, <1>2, <1>4, <1>5, <1>6, SessionAssumption DEF Next

------------------------------------------------------------------------------
(* Old sessions.                                                           *)

\* The steps that write no session.
LEMMA OtherRows ==
  ASSUME TypeOK, Next,
         \A c \in Client : ~OpenSession(c) /\ ~Logout(c) /\ \A p \in Password : ~ChangePassword(c, p)
  PROVE  UNCHANGED <<rows, next, era, keeper>> /\ now' >= now
<1>1. now \in Nat
  BY DEF TypeOK
<1> QED BY <1>1, SessionAssumption DEF Next, Login, Verify, Request, Fails, Restart, Tick, tables

\* The rows after a login: a new one, and of the others those that had not expired at a
\* moment before; so all that are alive now.
LEMMA OpenedRows ==
  ASSUME TypeOK, NEW c \in Client, OpenSession(c)
  PROVE  \E t \in Nat : \E i \in Nat \ Kept(t) :
           /\ DOMAIN rows' = Kept(t) \cup {i} /\ rows'[i].token = next
           /\ \A j \in Kept(t) : j \in DOMAIN rows /\ rows'[j] = rows[j]
           /\ \A j \in DOMAIN rows : rows[j].expires > now => j \in Kept(t)
<1>1. PICK t \in checked[c]..now, i \in RowId :
        /\ IsNextRow(i, t)
        /\ rows' = [j \in Kept(t) \cup {i} |->
                     IF j = i THEN [token |-> next, expires |-> t + Ttl, revoked |-> FALSE]
                     ELSE rows[j]]
  BY DEF OpenSession
<1>2. i \in Nat /\ i \notin Kept(t)
  BY <1>1 DEF IsNextRow, RowId
<1>3. t \in Nat /\ now \in Nat /\ t <= now
  BY DEF TypeOK
<1>4. \A j \in DOMAIN rows : rows[j].expires > now => j \in Kept(t)
  BY <1>3 DEF TypeOK, Kept
<1> QED BY <1>1, <1>2, <1>3, <1>4 DEF Kept

LEMMA StepOldSessions == ASSUME TypeOK, OldSessionsRevoked, Next PROVE OldSessionsRevoked'
<1> SUFFICES ASSUME NEW i \in DOMAIN rows', rows'[i].token < era', ~rows'[i].revoked
             PROVE  i = keeper'
  BY DEF OldSessionsRevoked
<1>1. ASSUME NEW c \in Client, OpenSession(c) PROVE i = keeper'
  <2>1. era' = era /\ keeper' = keeper /\ era <= next /\ era \in Nat /\ next \in Nat
    BY <1>1 DEF OpenSession, TypeOK
  <2>2. rows'[i].token # next
    BY <2>1
  <2>3. i \in DOMAIN rows /\ rows'[i] = rows[i]
    BY <1>1, <2>2, OpenedRows
  <2> QED BY <2>1, <2>3 DEF OldSessionsRevoked
<1>2. ASSUME NEW c \in Client, Logout(c) PROVE i = keeper'
  <2>1. i \in DOMAIN rows /\ rows'[i].token = rows[i].token /\ (rows[i].revoked => rows'[i].revoked)
    BY <1>2 DEF Logout, TypeOK
  <2> QED BY <1>2, <2>1 DEF Logout, OldSessionsRevoked
<1>3. ASSUME NEW c \in Client, NEW p \in Password, ChangePassword(c, p) PROVE i = keeper'
  BY <1>3 DEF ChangePassword, Revoked, TypeOK
<1>4. CASE \A c \in Client : /\ ~OpenSession(c) /\ ~Logout(c)
                             /\ \A p \in Password : ~ChangePassword(c, p)
  BY <1>4, OtherRows DEF OldSessionsRevoked
<1> QED BY <1>1, <1>2, <1>3, <1>4

------------------------------------------------------------------------------
(* The invariant.                                                          *)

Inv == TypeOK /\ SlotsBalance /\ OldSessionsRevoked

LEMMA Invariance == Spec => []Inv
<1>1. Init => Inv
  <2> SUFFICES ASSUME Init PROVE Inv
    OBVIOUS
  <2>1. {c \in Client : at[c] = "verify"} = {}
    BY DEF Init
  <2>2. SlotsBalance
    <3>1. Cardinality({c \in Client : at[c] = "verify"}) = 0
      BY <2>1, FS_EmptySet
    <3>2. free = Slots /\ Slots = Slots - 0
      BY SlotsAssumption DEF Init
    <3> QED BY <3>1, <3>2 DEF SlotsBalance
  <2> QED BY <2>2, InitTypes DEF Inv, Init, OldSessionsRevoked
<1>2. Inv /\ [Next]_vars => Inv'
  <2>1. Inv /\ UNCHANGED vars => Inv'
    BY DEF Inv, vars, tables, requests, TypeOK, SlotsBalance, OldSessionsRevoked
  <2> QED BY <2>1, StepTypes, StepSlots, StepOldSessions DEF Inv
<1> QED BY <1>1, <1>2, PTL DEF Spec

\* Types.
THEOREM Types == Spec => []TypeOK
  BY Invariance, PTL DEF Inv

\* However many browsers sign in at once, no login verification slot leaks.
THEOREM SlotsNeverLeak == Spec => []SlotsBalance
  BY Invariance, PTL DEF Inv

\* A password change leaves no older session but the row it spares, in every interleaving
\* of any number of logins, logouts and changes.
THEOREM ChangesRevoke == Spec => []OldSessionsRevoked
  BY Invariance, PTL DEF Inv

\* What Usable says of the next state.
LEMMA UsableNext ==
  ASSUME NEW t, Usable(t)'
  PROVE  \E i \in DOMAIN rows' : rows'[i].token = t /\ ~rows'[i].revoked /\ rows'[i].expires > now'
  BY DEF Usable, Unrevoked

LEMMA NoneRevived ==
  ASSUME TypeOK, Next, NEW t \in 1..(next - 1), Usable(t)' PROVE Usable(t)
<1>1. PICK i \in DOMAIN rows' : rows'[i].token = t /\ ~rows'[i].revoked /\ rows'[i].expires > now'
  BY UsableNext
<1> SUFFICES i \in DOMAIN rows /\ rows[i].token = t /\ ~rows[i].revoked /\ rows[i].expires > now
  BY DEF Usable, Unrevoked
<1>2. ASSUME NEW c \in Client, OpenSession(c)
      PROVE  i \in DOMAIN rows /\ rows[i].token = t /\ ~rows[i].revoked /\ rows[i].expires > now
  <2>1. t # next
    BY DEF TypeOK
  <2>2. i \in DOMAIN rows /\ rows'[i] = rows[i] /\ now' = now
    BY <1>1, <1>2, <2>1, OpenedRows DEF OpenSession
  <2> QED BY <1>1, <2>2
<1>3. ASSUME NEW c \in Client, Logout(c)
      PROVE  i \in DOMAIN rows /\ rows[i].token = t /\ ~rows[i].revoked /\ rows[i].expires > now
  BY <1>1, <1>3 DEF Logout, TypeOK
<1>4. ASSUME NEW c \in Client, NEW p \in Password, ChangePassword(c, p)
      PROVE  i \in DOMAIN rows /\ rows[i].token = t /\ ~rows[i].revoked /\ rows[i].expires > now
  BY <1>1, <1>4 DEF ChangePassword, Revoked, TypeOK
<1>5. CASE \A c \in Client : /\ ~OpenSession(c) /\ ~Logout(c)
                             /\ \A p \in Password : ~ChangePassword(c, p)
  <2>1. rows' = rows /\ now' >= now
    BY <1>5, OtherRows
  <2>2. now \in Nat /\ now' \in Nat /\ rows[i].expires \in Nat
    BY <1>1, <2>1, StepTypes DEF TypeOK
  <2> QED BY <1>1, <2>1, <2>2
<1> QED BY <1>2, <1>3, <1>4, <1>5

\* No session that has ended is ever usable again.
THEOREM NoRevival == Spec => EndedStaysEnded
<1>1. Inv /\ [Next]_vars => [\A t \in 1..(next - 1) : ~Usable(t) => ~Usable(t)']_vars
  BY NoneRevived DEF Inv
<1> QED BY <1>1, Invariance, PTL DEF Spec, EndedStaysEnded

\* A session that stops being usable while the clock stands was in the row of a logout, or in
\* one that a password change does not spare.
LEMMA NoneLost ==
  ASSUME TypeOK, Next, NEW t \in 1..(next - 1), Usable(t), ~Usable(t)', now' <= now
  PROVE  \E c \in Client :
           /\ at'[c] = "idle"
           /\ \/ at[c] = "logout" /\ own[c] \in Unrevoked(t)
              \/ at[c] = "change" /\ Unrevoked(t) # {own[c]}
<1>1. PICK i \in DOMAIN rows : rows[i].token = t /\ ~rows[i].revoked /\ rows[i].expires > now
  BY DEF Usable, Unrevoked
<1>2. now' = now
  <2>1. CASE Tick
    BY <2>1 DEF Tick, TypeOK
  <2>2. ASSUME NEW c \in Client,
               \/ OpenSession(c) \/ Logout(c) \/ Fails(c) \/ Verify(c)
               \/ \E p \in Password : ChangePassword(c, p) \/ Login(c, p)
               \/ \E p \in Password : Request(c, "logout", p) \/ Request(c, "change", p)
        PROVE  now' = now
    BY <2>2 DEF OpenSession, Logout, Fails, Verify, ChangePassword, Login, Request
  <2>3. CASE Restart
    BY <2>3 DEF Restart
  <2> QED BY <2>1, <2>2, <2>3, SessionAssumption DEF Next
<1>3. ~(i \in DOMAIN rows' /\ rows'[i] = rows[i])
  BY <1>1, <1>2 DEF Usable, Unrevoked
<1>4. ASSUME NEW c \in Client, OpenSession(c) PROVE FALSE
  BY <1>1, <1>3, <1>4, OpenedRows
<1>5. ASSUME NEW c \in Client, Logout(c)
      PROVE  at[c] = "logout" /\ at'[c] = "idle" /\ own[c] \in Unrevoked(t)
  <2>1. own[c] = i
    BY <1>3, <1>5 DEF Logout, TypeOK
  <2> QED BY <1>1, <1>5, <2>1 DEF Logout, Ends, Goto, TypeOK, Unrevoked
<1>6. ASSUME NEW c \in Client, NEW p \in Password, ChangePassword(c, p)
      PROVE  at[c] = "change" /\ at'[c] = "idle" /\ Unrevoked(t) # {own[c]}
  <2>1. i \in Unrevoked(t)
    BY <1>1 DEF Unrevoked
  <2>2. i # own[c]
    <3>1. rows[i] \in [token : 1..(next - 1), expires : Nat, revoked : BOOLEAN]
      BY DEF TypeOK
    <3> QED BY <1>3, <1>6, <3>1 DEF ChangePassword, Revoked
  <2> QED BY <1>6, <2>1, <2>2 DEF ChangePassword, Ends, Goto, TypeOK
<1>7. CASE \A c \in Client : /\ ~OpenSession(c) /\ ~Logout(c)
                             /\ \A p \in Password : ~ChangePassword(c, p)
  BY <1>1, <1>3, <1>7, OtherRows
<1> QED BY <1>4, <1>5, <1>6, <1>7

\* Sessions end by the clock, by a logout of their row or by a password change that spares
\* another; a login, a failed request or a restart of the API ends none.
THEOREM OnlyForAReason == Spec => EndsForAReason
<1>1. Inv /\ [Next]_vars =>
        [\A t \in 1..(next - 1) : Usable(t) /\ ~Usable(t)' =>
           \/ now' > now
           \/ \E c \in Client :
                /\ at'[c] = "idle"
                /\ \/ at[c] = "logout" /\ own[c] \in Unrevoked(t)
                   \/ at[c] = "change" /\ Unrevoked(t) # {own[c]}]_vars
  <2> SUFFICES ASSUME Inv, Next, NEW t \in 1..(next - 1), Usable(t), ~Usable(t)', ~(now' > now)
               PROVE  \E c \in Client :
                        /\ at'[c] = "idle"
                        /\ \/ at[c] = "logout" /\ own[c] \in Unrevoked(t)
                           \/ at[c] = "change" /\ Unrevoked(t) # {own[c]}
    OBVIOUS
  <2>1. now' <= now
    <3>1. now \in Nat /\ now' \in Nat
      BY StepTypes DEF Inv, TypeOK
    <3> QED BY <3>1
  <2> QED BY <2>1, NoneLost DEF Inv
<1> QED BY <1>1, Invariance, PTL DEF Spec, EndsForAReason
==============================================================================
