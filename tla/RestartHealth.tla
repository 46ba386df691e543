---------------------------- MODULE RestartHealth ----------------------------
(***************************************************************************)
(* SingBoxService._restart_locked (services/singbox_service.py): restart   *)
(* the unit, then poll systemd and /proc/net until sing-box has been seen  *)
(* running with every IPv4 listener for a stability window, or until the   *)
(* deadline.  The unit is Restart=on-failure: a process that exits comes   *)
(* back on its own after RestartSec, so a poll may miss that it was gone.  *)
(*                                                                         *)
(* Time is counted in ticks since `systemctl restart' returned.  One poll  *)
(* reads the listeners when it begins and the unit's state up to Delay     *)
(* later; `now - active_since' uses the time at which the poll began.      *)
(***************************************************************************)
EXTENDS Integers

CONSTANTS
  Timeout,     \* restart_health_timeout_seconds
  Stability,   \* restart_stability_seconds
  Poll,        \* restart_poll_interval_seconds
  Delay,       \* bound on the time `systemctl is-active' takes to answer
  RestartSec   \* RestartSec of the unit

ASSUME TimeAssumption == /\ Timeout \in Nat
                         /\ Stability \in Nat
                         /\ Poll \in Nat \ {0}
                         /\ Delay \in Nat
                         /\ RestartSec \in Nat
\* Two polls follow each other faster than systemd brings a dead process back.  With the
\* values of config.py and of the unit, 0.25 s and 3 s: while systemctl answers in less
\* than 2.75 s.  It is given 3 s (_command_timeout).
ASSUME PollAssumption == RestartSec > Poll + Delay

VARIABLES
  check,      \* the health check: a Phase
  now,        \* the clock
  wake,       \* when the next poll begins, or when the present one began
  since,      \* active_since
  seen,       \* the present poll has found no listener missing
  unit,       \* "up", "down"
  downAt,     \* when the unit went down
  open,       \* /proc/net shows every listener of config/sing-box.json
  broken,     \* history: the process has exited since the stability window began
  good        \* history: since when the unit is up with every listener

checkVars == <<check, now, wake, since, seen>>
restartVars == <<checkVars, unit, downAt, open, broken, good>>

Never == 0 - 1
Phase == {"idle", "asleep", "reading", "ok", "failed", "error"}
Checking == check \in {"asleep", "reading"}

RestartTypeOK ==
  /\ check \in Phase
  /\ now \in Nat /\ wake \in Nat /\ downAt \in Nat
  /\ since \in Nat \cup {Never} /\ good \in Nat \cup {Never}
  /\ seen \in BOOLEAN /\ open \in BOOLEAN /\ broken \in BOOLEAN
  /\ unit \in {"up", "down"}

\* A run starts with sing-box up and listening; a restart does not read that.
RestartInit ==
  /\ check = "idle"
  /\ now = 0 /\ wake = 0 /\ downAt = 0
  /\ since = Never /\ seen = FALSE /\ broken = FALSE
  /\ unit = "up" /\ open = TRUE
  /\ good = Never

\* History: `good' starts when the unit is up with every listener, and ends when it is not.
Notes == good' = IF unit' = "down" \/ ~open' THEN Never
                 ELSE IF good = Never THEN now' ELSE good

------------------------------------------------------------------------------
(* The restart.                                                            *)

ResetsLocals ==
  /\ now' = 0 /\ wake' = 0 /\ downAt' = 0
  /\ since' = Never /\ seen' = FALSE /\ broken' = FALSE

\* `systemctl restart' has returned 0 and the loop begins.  Another program may hold the
\* ports already; /proc/net may not be readable at all.
Restarts ==
  /\ check = "idle"
  /\ check' = "asleep" /\ ResetsLocals
  /\ unit' = "up" /\ open' \in BOOLEAN
  /\ good' = IF open' THEN 0 ELSE Never

\* It has returned another code (ExecStartPre refuses the file), or timed out.
RestartRefused ==
  /\ check = "idle"
  /\ check' = "error" /\ ResetsLocals
  /\ unit' = "down" /\ good' = Never
  /\ UNCHANGED open

\* _restart_locked has returned or raised: its local variables are gone.
Returns ==
  /\ check \in {"ok", "failed", "error"}
  /\ check' = "idle" /\ ResetsLocals
  /\ good' = Never
  /\ UNCHANGED <<unit, open>>

\* _missing_active_listeners at the beginning of a poll; the same
\* to the loop whether one is missing or /proc/net cannot be read.
ReadListeners ==
  /\ check = "asleep" /\ now = wake
  /\ check' = "reading"
  /\ seen' = open
  /\ UNCHANGED <<now, wake, since, unit, downAt, open, broken, good>>

\* The loop's body after status() has answered.
Healthy == unit = "up" /\ seen
\* (mutant) an unhealthy poll does not end the window.
ActiveSinceKept == IF since # Never THEN since ELSE IF Healthy THEN wake ELSE Never
ActiveSince == IF ~Healthy THEN Never ELSE IF since = Never THEN wake ELSE since
\* (mutant) off by one poll.
StableStrict == Healthy /\ wake - ActiveSince > Stability
Stable == Healthy /\ wake - ActiveSince >= Stability
\* (mutant) a healthy sing-box is waited for beyond the deadline.
LateUnhealthy == now >= Timeout /\ ~Healthy
Late == now >= Timeout
\* (mutant) the last sleep is not cut.
NextPollUncut == now + Poll
NextPoll == IF Poll <= Timeout - now THEN now + Poll ELSE Timeout

ReadStatus ==
  /\ check = "reading"
  /\ since' = ActiveSince
  /\ broken' = IF Healthy /\ since = Never THEN FALSE ELSE broken
  /\ \/ /\ Stable /\ check' = "ok" /\ UNCHANGED wake
     \/ /\ ~Stable /\ Late /\ check' = "failed" /\ UNCHANGED wake
     \/ /\ ~Stable /\ ~Late /\ check' = "asleep" /\ wake' = NextPoll
  /\ UNCHANGED <<now, seen, unit, downAt, open, good>>

\* `systemctl is-active' does not answer within its three seconds: SingBoxUnavailable.
StatusFails ==
  /\ check = "reading" /\ now = wake + Delay
  /\ check' = "error"
  /\ UNCHANGED <<now, wake, since, seen, unit, downAt, open, broken, good>>

------------------------------------------------------------------------------
(* sing-box, systemd and the clock while the check runs.                   *)

\* Listeners open and close, those of sing-box or of another program.
ListenersChange ==
  /\ Checking
  /\ open' = ~open
  /\ UNCHANGED <<checkVars, unit, downAt, broken>>
  /\ Notes

\* The process exits.  Its ports may stay open: another program holds them too.
Exits ==
  /\ Checking /\ unit = "up"
  /\ unit' = "down" /\ downAt' = now
  /\ open' \in {FALSE, open}
  /\ broken' = TRUE
  /\ UNCHANGED checkVars
  /\ Notes

\* systemd starts it again.
ComesBack ==
  /\ Checking /\ unit = "down" /\ now >= downAt + RestartSec
  /\ unit' = "up" /\ downAt' = 0
  /\ UNCHANGED <<checkVars, open, broken>>
  /\ Notes

Tick ==
  /\ \/ check = "asleep" /\ now < wake
     \/ check = "reading" /\ now < wake + Delay
  /\ now' = now + 1
  /\ UNCHANGED <<check, wake, since, seen, unit, downAt, open, broken, good>>

Polls == ReadListeners \/ ReadStatus \/ Tick
Troubles == StatusFails \/ ListenersChange \/ Exits

RestartNext ==
  \/ Restarts \/ RestartRefused \/ Returns
  \/ Polls \/ ComesBack \/ Troubles

RestartSpec == RestartInit /\ [][RestartNext]_restartVars

------------------------------------------------------------------------------
(* What a restart that reports success or failure is worth.                *)

\* A restart that succeeds has been served by one process through its whole stability
\* window: a crash between two polls, after which systemd brings sing-box back, is seen.
NoCrashMissed == [][check # "ok" /\ check' = "ok" => ~broken']_restartVars

\* A sing-box that is up with every listener early enough, and stays so, is never given
\* up: a good configuration is not rolled back because it needed a moment to start.
GoodNotRefused ==
  [][check # "failed" /\ check' = "failed" =>
       good = Never \/ good + Stability + Poll + 2 * Delay > Timeout]_restartVars

\* The operation lock, and with a change the request's transaction, are held through the
\* check: it ends at the latest one slow answer of systemctl after its deadline ...
EndsInTime == Checking => now <= Timeout + Delay

\* ... and it does end: no flapping of sing-box keeps the lock held.
CheckEnds == Checking ~> ~Checking
==============================================================================
