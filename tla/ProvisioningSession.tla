-------------------------- MODULE ProvisioningSession --------------------------
(***************************************************************************)
(* Who may open a Bluetooth provisioning session: the windows, the         *)
(* SPAKE2+ exchange, the durable lockout, and the verifier of the          *)
(* administrator password that is made in the background.                  *)
(*                                                                         *)
(* The engine handles one input at a time, to the end, and settles: the    *)
(* step of an input is its handler and Settle.  The bus calls of apid      *)
(* (PasswordSet, LoggedIn) and the tasks that make verifiers run beside    *)
(* the engine and share the store's files with it.  The timers (10 minutes *)
(* of boot, the manual window, 2 minutes offline, the lockout) elapse at   *)
(* any moment and in any order.                                            *)
(***************************************************************************)
EXTENDS Naturals

CONSTANTS MaxFailures,       \* MAX_FAILURES
          MaxLevel,          \* bound: lockouts in a behaviour
          LastPassword,      \* bound: administrator passwords ever set
          MaxCodes,          \* bound: manual windows opened
          MaxReboots,        \* bound: restarts of micad
          MaxLogins,         \* bound: console logins
          AutoWhenOffline    \* the setting bluetooth.provisioning.autoWhenOffline

ASSUME SesConstants == /\ MaxFailures \in Nat \ {0} /\ MaxLevel \in Nat
                       /\ LastPassword \in Nat \ {0} /\ MaxCodes \in Nat
                       /\ MaxReboots \in Nat /\ MaxLogins \in Nat /\ AutoWhenOffline \in BOOLEAN

VARIABLES sesPassword, \* number of the stored administrator password, 0 unclaimed
          engine,      \* the Engine: facts, windows, code, connection
          lockout,     \* ble-lockout.json
          verifier,    \* ble-verifier.json: a password's number, 0 for none
          sesGeneration,  \* Provisioning.generation
          makers,      \* make_verifier tasks at work
          calls,       \* what apid and the claim have sent and micad not handled; "unheard"
                       \* marks a password that was stored and of which nothing was sent
          used,        \* how much of each bound is used
          past         \* history the properties speak of

sesVars == <<sesPassword, engine, lockout, verifier, sesGeneration, makers, calls, used, past>>

NoConn == [phase |-> "none", auth |-> "none", record |-> <<"none", 0>>, level |-> 0]

NewEngine(claimed, bootOver) ==
  [claimed |-> claimed, atBoot |-> claimed, bootClosed |-> FALSE, bootOver |-> bootOver,
   route |-> "never", manual |-> FALSE, code |-> 0, conn |-> NoConn]

NoLockout == [failures |-> 0, level |-> 0, locked |-> FALSE]

SesInit ==
  /\ sesPassword \in {0, 1}
  /\ engine = NewEngine(sesPassword # 0, FALSE)
  /\ lockout = NoLockout
  /\ verifier \in {0, sesPassword}
  /\ sesGeneration = 0
  /\ makers = {}
  /\ calls = {}
  /\ used = [codes |-> 0, reboots |-> 0, logins |-> 0]
  /\ past = [guesses |-> 0, told |-> sesPassword, stale |-> FALSE, abandoned |-> FALSE]

(***************************************************************************)
(* Windows.                                                                *)
(***************************************************************************)
Window(e) ==
  LET boot == ~e.bootClosed /\ ~e.bootOver
  IN CASE ~e.claimed -> IF boot /\ ~e.atBoot THEN "unclaimed" ELSE "closed"
       [] e.claimed /\ e.manual -> "manual"
       [] e.claimed /\ ~e.manual /\ boot /\ e.atBoot -> "boot"
       [] OTHER -> IF AutoWhenOffline /\ e.claimed /\ e.route = "due" THEN "offline"
                   ELSE "closed"

AuthOf(window) ==
  CASE window = "unclaimed" -> "none"
    [] window = "manual"    -> "temp-code"
    [] OTHER                -> "password"

\* After every input but a read or a write the facts are read again; the code
\* goes when its window is not the open one.
Settle(e, refresh) ==
  LET f == IF refresh THEN [e EXCEPT !.claimed = (sesPassword # 0)] ELSE e
  IN [f EXCEPT !.code = IF Window(f) = "manual" THEN @ ELSE 0]

Tick(e) == engine' = Settle(e, TRUE)

(***************************************************************************)
(* Lockout.  An exchange is charged before the device answers it.          *)
(***************************************************************************)
Charge(l) ==
  IF l.failures + 1 >= MaxFailures
  THEN [failures |-> 0, level |-> l.level + 1, locked |-> TRUE]
  ELSE [l EXCEPT !.failures = @ + 1]

Succeed(level) == [failures |-> 0, level |-> level, locked |-> FALSE]

(***************************************************************************)
(* The phone.                                                              *)
(***************************************************************************)
\* A read or a write of a phone when none is connected takes the open window.
Admit ==
  /\ engine.conn.phase = "none"
  /\ Window(engine) # "closed"
  /\ engine' = Settle([engine EXCEPT !.conn = [NoConn EXCEPT !.phase = "idle",
                                                 !.auth = AuthOf(Window(engine))]], FALSE)
  /\ UNCHANGED <<sesPassword, lockout, verifier, sesGeneration, makers, calls, used, past>>

\* The record an exchange would use in the open window, none when there is none.
RecordFor(window) ==
  CASE AuthOf(window) = "password" -> <<"password", verifier>>
    [] window = "manual" -> <<"code", engine.code>>
    [] OTHER -> <<"none", 0>>

Abandoned(phase) == [past EXCEPT !.abandoned = @ \/ phase = "confirm"]

\* `start`: an exchange left at its confirmation is a failed one.
StartPake ==
  LET window == Window(engine)
      idle == [engine EXCEPT !.conn.phase = IF @ = "confirm" THEN "idle" ELSE @]
      record == RecordFor(window)
  IN /\ engine.conn.phase # "none"
     /\ past' = Abandoned(engine.conn.phase)
     /\ engine' = Settle(
          CASE window = "closed" -> idle
            [] window = "unclaimed" -> [idle EXCEPT !.conn.phase = "ready"]
            [] window \notin {"closed", "unclaimed"} /\ (record[2] = 0 \/ lockout.locked) -> idle
            [] OTHER -> [idle EXCEPT !.conn = [phase |-> "params", auth |-> AuthOf(window),
                                               record |-> record, level |-> 0]], FALSE)
     /\ UNCHANGED <<sesPassword, lockout, verifier, sesGeneration, makers, calls, used>>

\* `share`: the attempt is on disk before the answer leaves.
Share ==
  /\ engine.conn.phase = "params"
  /\ Charge(lockout).level <= MaxLevel
  /\ lockout' = Charge(lockout)
  /\ engine' = Settle([engine EXCEPT !.conn.phase = "confirm",
                                     !.conn.level = lockout.level], FALSE)
  /\ past' = [past EXCEPT !.guesses = @ + 1, !.abandoned = FALSE]
  /\ UNCHANGED <<sesPassword, verifier, sesGeneration, makers, calls, used>>

\* A malformed share, or a lockout file that cannot be written, answers nothing.
ShareRefused ==
  /\ engine.conn.phase = "params"
  /\ engine' = Settle([engine EXCEPT !.conn.phase = "idle"], FALSE)
  /\ UNCHANGED <<sesPassword, lockout, verifier, sesGeneration, makers, calls, used, past>>

ConfirmValid ==
  /\ engine.conn.phase = "confirm"
  /\ lockout' = Succeed(engine.conn.level)
  /\ engine' = Settle([engine EXCEPT !.conn.phase = "ready", !.conn.level = 0], FALSE)
  /\ past' = [past EXCEPT !.guesses = 0]
  /\ UNCHANGED <<sesPassword, verifier, sesGeneration, makers, calls, used>>

\* The failure that locks also closes a manual window and voids its code.
ConfirmInvalid ==
  LET idle == [engine EXCEPT !.conn.phase = "idle", !.conn.level = 0]
  IN /\ engine.conn.phase = "confirm"
     /\ engine' = Settle(IF lockout.locked THEN [idle EXCEPT !.manual = FALSE, !.code = 0]
                         ELSE idle, FALSE)
     /\ UNCHANGED <<sesPassword, lockout, verifier, sesGeneration, makers, calls, used, past>>

\* The link drops, or nothing was written for IDLE_SECONDS.
Disconnected ==
  /\ engine.conn.phase # "none"
  /\ past' = Abandoned(engine.conn.phase)
  /\ Tick([engine EXCEPT !.conn = NoConn])
  /\ UNCHANGED <<sesPassword, lockout, verifier, sesGeneration, makers, calls, used>>

\* `finish` closes the boot and the manual window and starts the offline delay
\* over; a session without authentication is refused once the device is claimed.
FinishSetup ==
  /\ engine.conn.phase = "ready"
  /\ engine.conn.auth # "none" \/ sesPassword = 0
  /\ Tick([engine EXCEPT !.bootClosed = TRUE, !.manual = FALSE, !.code = 0, !.conn = NoConn,
                         !.route = IF @ = "due" THEN "lost" ELSE @])
  /\ UNCHANGED <<sesPassword, lockout, verifier, sesGeneration, makers, calls, used, past>>

(***************************************************************************)
(* Inputs of the device.                                                   *)
(***************************************************************************)
OpenManual ==
  /\ used.codes < MaxCodes
  /\ used' = [used EXCEPT !.codes = @ + 1]
  /\ Tick(IF engine.claimed /\ ~lockout.locked
          THEN [engine EXCEPT !.manual = TRUE, !.code = used.codes + 1] ELSE engine)
  /\ UNCHANGED <<sesPassword, lockout, verifier, sesGeneration, makers, calls, past>>

CloseManual ==
  /\ engine.manual
  /\ Tick([engine EXCEPT !.manual = FALSE, !.code = 0])
  /\ UNCHANGED <<sesPassword, lockout, verifier, sesGeneration, makers, calls, used, past>>

Route ==
  /\ \E route \in {"up", "lost", "due"} :
       /\ route # engine.route
       /\ route = "lost" => engine.route = "up"
       /\ route = "due" => engine.route = "lost"
       /\ Tick([engine EXCEPT !.route = route])
  /\ UNCHANGED <<sesPassword, lockout, verifier, sesGeneration, makers, calls, used, past>>

BootPasses ==
  /\ ~engine.bootOver
  /\ Tick([engine EXCEPT !.bootOver = TRUE])
  /\ UNCHANGED <<sesPassword, lockout, verifier, sesGeneration, makers, calls, used, past>>

ManualExpires ==
  /\ engine.manual
  /\ Tick([engine EXCEPT !.manual = FALSE])
  /\ UNCHANGED <<sesPassword, lockout, verifier, sesGeneration, makers, calls, used, past>>

LockExpires ==
  /\ lockout.locked
  /\ lockout' = [lockout EXCEPT !.locked = FALSE]
  /\ Tick(engine)
  /\ past' = [past EXCEPT !.guesses = 0, !.abandoned = FALSE]
  /\ UNCHANGED <<sesPassword, verifier, sesGeneration, makers, calls, used>>

\* The device was claimed on the console: a session that needed no
\* authentication ends.
ClaimedElsewhere ==
  LET known == [engine EXCEPT !.claimed = (sesPassword # 0)]
  IN /\ <<"claimed", 0>> \in calls
     /\ calls' = calls \ {<<"claimed", 0>>}
     /\ Tick(IF engine.conn.phase # "none" /\ engine.conn.auth = "none"
             THEN [known EXCEPT !.conn = NoConn] ELSE known)
     /\ UNCHANGED <<sesPassword, lockout, verifier, sesGeneration, makers, used, past>>

(***************************************************************************)
(* Passwords: the claim and apid's changes store one, then tell micad; a   *)
(* login is verified against the stored one, then micad is told.                *)
(***************************************************************************)
\* A SettingsChanged that cannot be emitted ends the call over the stored
\* password, before anyone is told.
StorePassword ==
  /\ sesPassword < LastPassword
  /\ sesPassword' = sesPassword + 1
  /\ \/ calls' = calls \cup {<<"set", sesPassword + 1>>}
                       \cup (IF sesPassword = 0 THEN {<<"claimed", 0>>} ELSE {})
     \/ calls' = calls \cup {<<"unheard", 0>>}
  /\ UNCHANGED <<engine, lockout, verifier, sesGeneration, makers, used, past>>

Login ==
  /\ sesPassword # 0
  /\ used.logins < MaxLogins
  /\ used' = [used EXCEPT !.logins = @ + 1]
  /\ calls' = calls \cup {<<"login", sesPassword>>}
  /\ UNCHANGED <<sesPassword, engine, lockout, verifier, sesGeneration, makers, past>>

\* The old verifier goes at once, the new one is made under the new generation.
PasswordSet ==
  \E p \in 1..LastPassword :
    /\ <<"set", p>> \in calls
    /\ calls' = calls \ {<<"set", p>>}
    /\ verifier' = 0
    /\ sesGeneration' = sesGeneration + 1
    /\ makers' = makers \cup {[password |-> p, sesGeneration |-> sesGeneration + 1]}
    /\ past' = [past EXCEPT !.told = p, !.stale = FALSE]
    /\ UNCHANGED <<sesPassword, engine, lockout, used>>

\* The lockout is over, and a missing verifier is made.
LoggedIn ==
  \E p \in 1..LastPassword :
    /\ <<"login", p>> \in calls
    /\ calls' = calls \ {<<"login", p>>}
    /\ lockout' = NoLockout
    /\ makers' = IF verifier = 0
                 THEN makers \cup {[password |-> p, sesGeneration |-> sesGeneration]} ELSE makers
    /\ past' = [past EXCEPT !.guesses = 0, !.abandoned = FALSE, !.stale = @ \/ p # past.told]
    /\ UNCHANGED <<sesPassword, engine, verifier, sesGeneration, used>>

\* Mutant: a maker writes its record whatever happened meanwhile.
VerifierMadeLate ==
  \E m \in makers :
    /\ makers' = makers \ {m}
    /\ verifier' = m.password
    /\ UNCHANGED <<sesPassword, engine, lockout, sesGeneration, calls, used, past>>

\* A maker writes its record unless the generation moved on.
VerifierMade ==
  \E m \in makers :
    /\ makers' = makers \ {m}
    /\ verifier' = IF m.sesGeneration = sesGeneration THEN m.password ELSE verifier
    /\ UNCHANGED <<sesPassword, engine, lockout, sesGeneration, calls, used, past>>

\* micad restarts, or the device reboots and its boot window opens again.
Reboot ==
  /\ used.reboots < MaxReboots
  /\ used' = [used EXCEPT !.reboots = @ + 1]
  /\ \E over \in {FALSE, engine.bootOver} : engine' = NewEngine(sesPassword # 0, over)
  /\ sesGeneration' = 0
  /\ makers' = {}
  /\ calls' = {}
  /\ past' = Abandoned(engine.conn.phase)
  /\ UNCHANGED <<sesPassword, lockout, verifier>>

\* What reaches the engine (Input), and what happens beside it.
SesNext ==
  \/ Admit \/ StartPake \/ Share \/ ShareRefused \/ ConfirmValid \/ ConfirmInvalid
  \/ Disconnected \/ FinishSetup \/ OpenManual \/ CloseManual \/ Route \/ BootPasses
  \/ ManualExpires \/ LockExpires \/ ClaimedElsewhere \/ StorePassword \/ Login
  \/ PasswordSet \/ LoggedIn \/ VerifierMade \/ Reboot

SesSpec == SesInit /\ [][SesNext]_sesVars

--------------------------------------------------------------------------------
\* The files and the engine hold what their types allow, and a code exists only
\* beside the manual window it opens.
SesTypeOK ==
  /\ sesPassword \in 0..LastPassword
  /\ lockout \in [failures : 0..MaxFailures - 1, level : 0..MaxLevel, locked : BOOLEAN]
  /\ verifier \in 0..LastPassword
  /\ \A m \in makers : m.sesGeneration <= sesGeneration
  /\ engine.conn.phase \in {"none", "idle", "params", "confirm", "ready"}
  /\ engine.code # 0 => Window(engine) = "manual"

\* Between two lockouts, logins or successes at most MaxFailures exchanges are
\* answered, however connections are cut and micad restarted in between.
GuessesBounded == past.guesses <= MaxFailures

\* The verifier on disk is of the password micad was last told, unless a login
\* verified against another one was reported since.
VerifierIsOfPassword == verifier # 0 /\ ~past.stale => verifier = past.told

\* A session that needed no authentication outlives the claim only until the
\* engine has handled it, unless the claim's signal failed and it never will
\* (bus/interface.rs:170-176).
UnclaimedSessionEnds ==
  sesPassword # 0 /\ engine.conn.phase = "ready" /\ engine.conn.auth = "none"
    => <<"claimed", 0>> \in calls \/ <<"unheard", 0>> \in calls

\* A lockout closes the manual window and voids its code, once the exchange that
\* caused it has been answered, unless that exchange was left unconfirmed.
LockoutVoidsCode ==
  lockout.locked /\ engine.conn.phase # "confirm" /\ ~past.abandoned => engine.code = 0

\* Each change of the administrator password replaces the verifier, so the old
\* password opens no session once micad has nothing of the change left to do.
OldPasswordStopsWorking ==
  makers = {} /\ (\A p \in 1..LastPassword : <<"set", p>> \notin calls)
    => verifier \in {0, sesPassword}

\* A BLE session through reboots, lockouts, claims and verifiers made late:
\* guesses are bounded, a lockout voids the code on show, an unclaimed session
\* ends with the claim, and a verifier is of the password it was made for.
SessionSafe ==
    SesTypeOK /\ GuessesBounded /\ VerifierIsOfPassword /\ UnclaimedSessionEnds /\ LockoutVoidsCode

=============================================================================
