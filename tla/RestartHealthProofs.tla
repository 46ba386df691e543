------------------------- MODULE RestartHealthProofs -------------------------
(***************************************************************************)
(* Proofs about RestartHealth for every timeout, window, poll interval and *)
(* delay.  Everything follows from where the clock may stand relative to   *)
(* the present or next poll (Clock), and from what is known since the last *)
(* poll of a process that has exited (Broken) or of one that is up with    *)
(* every listener (Good).                                                  *)
(***************************************************************************)
EXTENDS RestartHealth, TLAPS

Clock ==
  /\ check = "asleep" => now <= wake /\ wake <= now + Poll /\ wake <= Timeout
  /\ check = "reading" => wake <= now /\ now <= wake + Delay /\ wake <= Timeout
  /\ Checking /\ since # Never => since <= wake

\* A process that has exited since the last healthy poll is still gone: it went down at
\* most one poll before `wake', and comes back no earlier than RestartSec later.
Broken ==
  Checking /\ since # Never /\ broken => unit = "down" /\ downAt >= wake - Poll

\* A unit up with every listener since `good' is noticed by a poll that begins at the
\* latest Poll + Delay later, unless the present poll began too early to see it.
Good ==
  Checking /\ good # Never =>
    /\ unit = "up" /\ open /\ good <= now
    /\ since = Never => wake <= good + Poll + Delay
    /\ since # Never => since <= good + Poll + Delay
    /\ check = "reading" /\ ~seen => wake <= good

Inv == RestartTypeOK /\ Clock /\ Broken /\ Good

\* The provers need the sums of constants to be numbers.
LEMMA Numbers == /\ Timeout \in Nat /\ Stability \in Nat /\ Poll \in Nat /\ Poll > 0
                 /\ Delay \in Nat /\ RestartSec \in Nat /\ RestartSec > Poll + Delay
  BY TimeAssumption, PollAssumption

LEMMA InitInv == RestartInit => Inv
<1> SUFFICES ASSUME RestartInit PROVE Inv
  OBVIOUS
<1>1. RestartTypeOK
  BY DEF RestartInit, RestartTypeOK, Phase, Never
<1>2. Clock /\ Broken /\ Good
  BY DEF RestartInit, Clock, Broken, Good, Checking, Never
<1> QED BY <1>1, <1>2 DEF Inv

\* The steps outside a health check.
LEMMA OutsideInv == Inv /\ (Restarts \/ RestartRefused \/ Returns) => Inv'
<1> SUFFICES ASSUME Inv, Restarts \/ RestartRefused \/ Returns PROVE Inv'
  OBVIOUS
<1>1. CASE Restarts
  <2>1. RestartTypeOK'
    BY <1>1 DEF Restarts, ResetsLocals, RestartTypeOK, Phase, Never
  <2>2. (Clock /\ Broken /\ Good)'
    BY <1>1, Numbers DEF Restarts, ResetsLocals, Clock, Broken, Good, Checking, Never
  <2> QED BY <2>1, <2>2 DEF Inv
<1>2. CASE RestartRefused
  BY <1>2, Numbers DEF RestartRefused, ResetsLocals, Inv, RestartTypeOK, Clock, Broken, Good,
                       Checking, Phase, Never
<1>3. CASE Returns
  BY <1>3, Numbers DEF Returns, ResetsLocals, Inv, RestartTypeOK, Clock, Broken, Good, Checking,
                       Phase, Never
<1> QED BY <1>1, <1>2, <1>3

\* The body of the loop after status() has answered.
LEMMA ReadStatusInv == Inv /\ ReadStatus => Inv'
<1> SUFFICES ASSUME Inv, ReadStatus PROVE Inv'
  OBVIOUS
<1> USE Numbers
<1>1. RestartTypeOK'
  <2>1. wake' \in Nat /\ check' \in Phase
    BY DEF ReadStatus, NextPoll, Late, Inv, RestartTypeOK, Phase
  <2>2. since' \in Nat \cup {Never}
    BY DEF ReadStatus, ActiveSince, Inv, RestartTypeOK
  <2>3. broken' \in BOOLEAN
    BY DEF ReadStatus, Inv, RestartTypeOK
  <2> QED
    BY <2>1, <2>2, <2>3 DEF ReadStatus, Inv, RestartTypeOK
<1>2. Clock'
  BY DEF ReadStatus, ActiveSince, Healthy, NextPoll, Late, Inv, RestartTypeOK, Clock, Checking,
         Phase, Never
<1>3. Broken'
  BY DEF ReadStatus, ActiveSince, Healthy, Inv, RestartTypeOK, Broken, Checking, Never
<1>4. Good'
  <2> SUFFICES ASSUME Checking', good' # Never PROVE Good'
    BY DEF Good
  <2>1. /\ check = "reading" /\ check' = "asleep" /\ good' = good /\ now' = now /\ ~Late
        /\ unit' = unit /\ open' = open /\ wake' = NextPoll /\ since' = ActiveSince
    BY DEF ReadStatus, Checking
  <2>2. wake' <= now + Poll /\ now <= wake + Delay
    BY <2>1 DEF NextPoll, Late, Inv, Clock, RestartTypeOK
  <2>3. CASE seen
    BY <2>1, <2>3 DEF ActiveSince, Healthy, Inv, RestartTypeOK, Clock, Good, Checking, Never
  <2>4. CASE ~seen
    BY <2>1, <2>2, <2>4 DEF ActiveSince, Healthy, NextPoll, Late, Inv, RestartTypeOK, Good, Checking, Never
  <2> QED BY <2>3, <2>4
<1> QED BY <1>1, <1>2, <1>3, <1>4 DEF Inv

\* The other steps of the thread and of the clock.
LEMMA PollInv == Inv /\ (ReadListeners \/ Tick \/ StatusFails) => Inv'
<1> SUFFICES ASSUME Inv, ReadListeners \/ Tick \/ StatusFails PROVE Inv'
  OBVIOUS
<1>1. CASE ReadListeners
  BY <1>1, Numbers DEF ReadListeners, Inv, RestartTypeOK, Clock, Broken, Good, Checking, Phase, Never
<1>2. CASE Tick
  BY <1>2, Numbers DEF Tick, Inv, RestartTypeOK, Clock, Broken, Good, Checking, Phase, Never
<1>3. CASE StatusFails
  BY <1>3, Numbers DEF StatusFails, Inv, RestartTypeOK, Clock, Broken, Good, Checking, Phase, Never
<1> QED BY <1>1, <1>2, <1>3

\* sing-box and systemd.  A process that has exited since a healthy poll cannot come back
\* before the next poll is over.
LEMMA HostInv == Inv /\ (ListenersChange \/ Exits \/ ComesBack) => Inv'
<1> SUFFICES ASSUME Inv, ListenersChange \/ Exits \/ ComesBack PROVE Inv'
  OBVIOUS
<1> USE Numbers
<1>1. CASE ListenersChange
  BY <1>1 DEF ListenersChange, Notes, checkVars, Inv, RestartTypeOK, Clock, Broken, Good,
              Checking, Phase, Never
<1>2. CASE Exits
  <2>1. open' \in BOOLEAN /\ good' = Never
    BY <1>2 DEF Exits, Notes, Inv, RestartTypeOK
  <2>2. RestartTypeOK' /\ Clock'
    BY <1>2, <2>1 DEF Exits, checkVars, Inv, RestartTypeOK, Clock, Checking
  <2>3. Broken' /\ Good'
    BY <1>2, <2>1 DEF Exits, checkVars, Inv, RestartTypeOK, Clock, Broken, Good, Checking
  <2> QED BY <2>2, <2>3 DEF Inv
<1>3. CASE ComesBack
  <2>1. ~(since # Never /\ broken)
    BY <1>3 DEF ComesBack, Inv, RestartTypeOK, Clock, Broken, Checking
  <2> QED
    BY <1>3, <2>1 DEF ComesBack, Notes, checkVars, Inv, RestartTypeOK, Clock, Broken, Good,
                      Checking, Phase, Never
<1> QED BY <1>1, <1>2, <1>3

LEMMA StepInv == Inv /\ [RestartNext]_restartVars => Inv'
<1>1. Inv /\ UNCHANGED restartVars => Inv'
  BY DEF restartVars, checkVars, Inv, RestartTypeOK, Clock, Broken, Good, Checking
<1> QED
  BY <1>1, OutsideInv, ReadStatusInv, PollInv, HostInv DEF RestartNext, Polls, Troubles

LEMMA Invariance == RestartSpec => []Inv
  BY InitInv, StepInv, PTL DEF RestartSpec

\* Types.
THEOREM RestartTypes == RestartSpec => []RestartTypeOK
<1>1. Inv => RestartTypeOK
  BY DEF Inv
<1> QED BY <1>1, Invariance, PTL

\* A health check never outlasts its deadline by more than one answer of systemctl.
THEOREM ChecksEndInTime == RestartSpec => []EndsInTime
<1>1. Inv => EndsInTime
  BY Numbers DEF Inv, RestartTypeOK, Clock, EndsInTime, Checking
<1> QED BY <1>1, Invariance, PTL

\* No crash within the window of a restart that succeeds, as long as systemd waits longer
\* than a poll takes.
THEOREM CrashesAreSeen == RestartSpec => NoCrashMissed
<1>1. Inv /\ [RestartNext]_restartVars => [check # "ok" /\ check' = "ok" => ~broken']_restartVars
  <2> SUFFICES ASSUME Inv, RestartNext, check # "ok", check' = "ok" PROVE ~broken'
    BY DEF restartVars
  <2>1. ReadStatus /\ Stable
    BY DEF RestartNext, Polls, Troubles, Restarts, RestartRefused, Returns, ReadListeners, ReadStatus,
           StatusFails, Tick, ListenersChange, Exits, ComesBack, checkVars
  <2> QED
    BY <2>1 DEF ReadStatus, Stable, Healthy, Inv, RestartTypeOK, Broken, Checking
<1> QED BY <1>1, Invariance, PTL DEF RestartSpec, NoCrashMissed

\* A sing-box that is up with all its listeners by Timeout - Stability - Poll - 2 * Delay,
\* and stays so, is accepted.
THEOREM GoodIsAccepted == RestartSpec => GoodNotRefused
<1> DEFINE Early == good # Never /\ good + Stability + Poll + 2 * Delay <= Timeout
<1>1. Inv /\ ReadStatus /\ ~Stable /\ Late => ~Early
  <2> SUFFICES ASSUME Inv, ReadStatus, ~Stable, Late, good # Never
               PROVE  good + Stability + Poll + 2 * Delay > Timeout
    BY Numbers DEF Inv, RestartTypeOK
  <2> USE Numbers
  <2>1. check = "reading" /\ Checking /\ good \in Nat /\ wake \in Nat /\ now \in Nat
    BY DEF ReadStatus, Checking, Inv, RestartTypeOK, Never
  <2>2. Timeout <= wake + Delay
    BY <2>1 DEF Late, Inv, Clock
  <2>3. CASE ~seen
    BY <2>1, <2>2, <2>3 DEF Inv, Good
  <2>4. CASE seen
    <3>1. Healthy /\ wake - ActiveSince < Stability
      BY <2>1, <2>4 DEF Inv, Good, Healthy, Stable, ActiveSince, RestartTypeOK, Never
    <3>2. ActiveSince \in Nat /\ ActiveSince <= good + Poll + Delay
      BY <2>1, <3>1 DEF Inv, Good, ActiveSince, RestartTypeOK, Never
    <3> QED BY <2>1, <2>2, <3>1, <3>2
  <2> QED BY <2>3, <2>4
<1>2. Inv /\ [RestartNext]_restartVars =>
        [check # "failed" /\ check' = "failed" =>
           good = Never \/ good + Stability + Poll + 2 * Delay > Timeout]_restartVars
  <2> SUFFICES ASSUME Inv, RestartNext, check # "failed", check' = "failed", good # Never
               PROVE  good + Stability + Poll + 2 * Delay > Timeout
    BY DEF restartVars
  <2>1. ReadStatus /\ ~Stable /\ Late
    BY DEF RestartNext, Polls, Troubles, Restarts, RestartRefused, Returns, ReadListeners, ReadStatus,
           StatusFails, Tick, ListenersChange, Exits, ComesBack, checkVars
  <2> QED BY <1>1, <2>1, Numbers DEF Inv, RestartTypeOK, Never
<1> QED BY <1>2, Invariance, PTL DEF RestartSpec, GoodNotRefused
==============================================================================
