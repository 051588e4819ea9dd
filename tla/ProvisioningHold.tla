---------------------------- MODULE ProvisioningHold ----------------------------
(***************************************************************************)
(* What a provisioning session changes, and how it is undone.  A setWifi   *)
(* or a setNetwork runs as a task beside the engine: it writes settings,   *)
(* reports what it saved, waits for the link and reports how it ended.     *)
(* The engine keeps a hold with what to put back, ends it when the session *)
(* is finished, claimed over, away too long or out of its window, and      *)
(* spawns the tasks that put it back.  While it has a session or a hold    *)
(* the console may not write Wi-Fi settings.                               *)
(*                                                                         *)
(* The pair {client.enabled, ap.mode} is one value, `mode`; who may open a *)
(* session is the subject of ProvisioningSession.                          *)
(***************************************************************************)
EXTENDS Naturals, FiniteSets

CONSTANTS Ssids,       \* networks a phone may send
          MaxSerial,   \* bound: sessions opened
          MaxOps       \* bound: commands sent

ASSUME HoldConstants == MaxSerial \in Nat /\ MaxOps \in Nat

VARIABLES stores,     \* settings: [mode, nets, wired, claimed]
          conn,       \* the ready connection: [serial, auth, op], serial 0 for none
          hold,       \* Engine.hold: a set of at most one record
          opTasks,    \* set of running commands
          undoTasks,  \* restore_wifi and restore_network tasks at work
          openWindow, \* a provisioning window is open
          wifiLocked, \* the flag the console's Wi-Fi routes read
          claimSent,  \* ClaimedElsewhere waits in the engine's channel
          holdUsed,   \* sessions and commands so far
          holdPast    \* history the properties speak of

holdVars == <<stores, conn, hold, opTasks, undoTasks, openWindow, wifiLocked, claimSent,
              holdUsed, holdPast>>

NoSession == [serial |-> 0, auth |-> "none", op |-> FALSE]

AsFound == [mode |-> "found", nets |-> {}, wired |-> "found", claimed |-> FALSE]

HoldInit ==
  /\ stores \in {AsFound, [AsFound EXCEPT !.claimed = TRUE]}
  /\ conn = NoSession
  /\ hold = {} /\ opTasks = {} /\ undoTasks = {}
  /\ openWindow = TRUE
  /\ wifiLocked = FALSE
  /\ claimSent = FALSE
  /\ holdUsed = [serial |-> 0, ops |-> 0]
  /\ holdPast = [wifiUp |-> FALSE, kept |-> FALSE, late |-> FALSE]

(***************************************************************************)
(* Ending a hold spawns what puts the settings back; the last thing any    *)
(* input does is to settle, which sets the lock.                           *)
(***************************************************************************)
EmptyHold == [snapshot |-> {}, added |-> {}, replaced |-> {},
              unclaimed |-> conn.auth = "none", away |-> FALSE]

\* The hold, made when there is none yet.
Held == IF hold = {} THEN EmptyHold ELSE CHOOSE h \in hold : TRUE

Undo(h, finished) ==
  LET dropped == h.unclaimed /\ ~finished
  IN {[kind |-> "wifi", mode |-> m, remove |-> IF dropped THEN h.added ELSE {},
       entry |-> "", read |-> {}, pc |-> "read"] : m \in h.snapshot}
     \cup {[kind |-> "wired", mode |-> "", remove |-> {}, entry |-> e, read |-> {},
            pc |-> "write"] : e \in IF dropped THEN h.replaced ELSE {}}

\* `c` is the connection after the input and `h` the hold.
Settled(c, h) ==
  /\ conn' = c
  /\ hold' = h
  /\ wifiLocked' = (c.serial # 0 \/ h # {})

EndHold(finished) ==
  undoTasks' = undoTasks \cup UNION {Undo(h, finished) : h \in hold}

Away(h) == {[x EXCEPT !.away = TRUE] : x \in h}

\* A hold whose phone is away ends as soon as no window is open.
SettledGone(h) ==
  IF openWindow
  THEN Settled(NoSession, Away(h)) /\ UNCHANGED undoTasks
  ELSE Settled(NoSession, {}) /\ undoTasks' = undoTasks \cup UNION {Undo(x, FALSE) : x \in h}

(***************************************************************************)
(* The phone.                                                              *)
(***************************************************************************)
SessionReady ==
  /\ conn.serial = 0 /\ openWindow
  /\ holdUsed.serial < MaxSerial
  /\ holdUsed' = [holdUsed EXCEPT !.serial = @ + 1]
  /\ Settled([serial |-> holdUsed.serial + 1, op |-> FALSE,
              auth |-> IF stores.claimed THEN "password" ELSE "none"],
             {[h EXCEPT !.away = FALSE] : h \in hold})
  /\ UNCHANGED <<stores, opTasks, undoTasks, openWindow, claimSent, holdPast>>

\* A command of an unauthenticated session is refused once the device is claimed.
StillUnclaimed == conn.auth = "none" => ~stores.claimed

SpawnOp(task, h) ==
  /\ conn.serial # 0 /\ ~conn.op /\ StillUnclaimed
  /\ holdUsed.ops < MaxOps
  /\ holdUsed' = [holdUsed EXCEPT !.ops = @ + 1]
  /\ opTasks' = opTasks \cup {task}
  /\ Settled([conn EXCEPT !.op = TRUE], h)
  /\ holdPast' = [holdPast EXCEPT !.late = @ \/ undoTasks # {}]
  /\ UNCHANGED <<stores, undoTasks, openWindow, claimSent>>

NewTask(kind, ssid) == [serial |-> conn.serial, auth |-> conn.auth, kind |-> kind,
                        ssid |-> ssid, read |-> {}, added |-> FALSE, pc |-> "begin"]

\* setWifi notes the mode before the first change that may have to be undone.
SetWifi ==
  \E ssid \in Ssids :
    SpawnOp(NewTask("setWifi", ssid),
            {IF Held.snapshot = {} THEN [Held EXCEPT !.snapshot = {stores.mode}] ELSE Held})

SetNetwork == SpawnOp(NewTask("setNetwork", "none"), {Held})

FinishSent == SpawnOp(NewTask("finish", "none"), hold)

LinkDrops ==
  /\ conn.serial # 0
  /\ SettledGone(hold)
  /\ UNCHANGED <<stores, opTasks, openWindow, claimSent, holdUsed, holdPast>>

\* Nothing was written for IDLE_SECONDS and no command runs.
IdleEnds ==
  /\ conn.serial # 0 /\ ~conn.op
  /\ SettledGone(hold)
  /\ UNCHANGED <<stores, opTasks, openWindow, claimSent, holdUsed, holdPast>>

(***************************************************************************)
(* The tasks of the commands.  join_wifi reads the networks, then writes   *)
(* the list, the client and the access point in one settings write.        *)
(***************************************************************************)
Advance(t, u) == opTasks' = (opTasks \ {t}) \cup {u}

JoinReads(t) ==
  /\ t.kind = "setWifi" /\ t.pc = "begin"
  /\ Advance(t, [t EXCEPT !.pc = "write", !.read = stores.nets])
  /\ UNCHANGED <<stores, conn, hold, undoTasks, openWindow, wifiLocked, claimSent,
                 holdUsed, holdPast>>

JoinWrites(t) ==
  /\ t.kind = "setWifi" /\ t.pc = "write"
  /\ stores' = [stores EXCEPT !.mode = "joined", !.nets = t.read \cup {t.ssid}]
  /\ Advance(t, [t EXCEPT !.pc = "saved", !.added = t.ssid \notin t.read, !.read = {}])
  /\ UNCHANGED <<conn, hold, undoTasks, openWindow, wifiLocked, claimSent, holdUsed, holdPast>>

\* set_network keeps what the entry was; the previous value travels in `read`.
NetworkWrites(t) ==
  /\ t.kind = "setNetwork" /\ t.pc = "begin"
  /\ stores' = [stores EXCEPT !.wired = "set"]
  /\ Advance(t, [t EXCEPT !.pc = "saved", !.read = {stores.wired}])
  /\ UNCHANGED <<conn, hold, undoTasks, openWindow, wifiLocked, claimSent, holdUsed, holdPast>>

\* A write that micad refuses ends its command.
WriteRefused(t) ==
  /\ t.kind \in {"setWifi", "setNetwork"} /\ t.pc \in {"begin", "write"}
  /\ Advance(t, [t EXCEPT !.pc = "failed", !.read = {}])
  /\ UNCHANGED <<stores, conn, hold, undoTasks, openWindow, wifiLocked, claimSent,
                 holdUsed, holdPast>>

\* WifiSaved and NetworkSaved reach the hold only from the connection of now.
Saved(t) ==
  LET current == t.serial = conn.serial /\ hold # {}
      h == Held
  IN /\ t.pc = "saved"
     /\ Settled(conn,
          IF ~current THEN hold
          ELSE IF t.kind = "setWifi"
          THEN {[h EXCEPT !.added = IF t.added THEN @ \cup {t.ssid} ELSE @]}
          ELSE {[h EXCEPT !.replaced = IF @ = {} THEN t.read ELSE @]})
     /\ Advance(t, [t EXCEPT !.pc = "await", !.read = {}])
     /\ holdPast' = [holdPast EXCEPT !.late = @ \/ ~current]
     /\ UNCHANGED <<stores, undoTasks, openWindow, claimSent, holdUsed>>

Comes(t, up) ==
  /\ \/ t.pc = "await"
     \/ t.kind = "finish" /\ t.pc = "begin" /\ up
  /\ Advance(t, [t EXCEPT !.pc = IF up THEN "up" ELSE "failed"])
  /\ UNCHANGED <<stores, conn, hold, undoTasks, openWindow, wifiLocked, claimSent,
                 holdUsed, holdPast>>

\* What came up stays: the hold forgets it, whichever connection it came from.
Forgets(t, h) ==
  CASE t.pc = "up" /\ t.kind = "setWifi" -> [h EXCEPT !.snapshot = {}, !.added = {}]
    [] t.pc = "up" /\ t.kind = "setNetwork" -> [h EXCEPT !.replaced = {}]
    [] OTHER -> h

Done(t) ==
  LET held == {Forgets(t, h) : h \in hold}
      current == t.serial = conn.serial
      finished == t.kind = "finish" /\ current
  IN /\ t.pc \in {"up", "failed"}
     /\ opTasks' = opTasks \ {t}
     /\ holdPast' = [holdPast EXCEPT
          !.wifiUp = @ \/ (t.pc = "up" /\ t.kind = "setWifi"),
          !.kept = @ \/ (t.pc = "up" /\ t.kind # "finish") \/ finished \/ t.auth = "password"]
     /\ IF finished
        THEN /\ Settled(NoSession, {})
             /\ undoTasks' = undoTasks \cup UNION {Undo(h, TRUE) : h \in held}
        ELSE /\ Settled(IF current THEN [conn EXCEPT !.op = FALSE] ELSE conn, held)
             /\ UNCHANGED undoTasks
     /\ UNCHANGED <<stores, openWindow, claimSent, holdUsed>>

(***************************************************************************)
(* What ends a hold.                                                       *)
(***************************************************************************)
AwayTooLong ==
  /\ \E h \in hold : h.away
  /\ EndHold(FALSE)
  /\ Settled(conn, {})
  /\ UNCHANGED <<stores, opTasks, openWindow, claimSent, holdUsed, holdPast>>

WindowChanges ==
  /\ openWindow' = ~openWindow
  /\ IF openWindow /\ \E h \in hold : h.away
     THEN EndHold(FALSE) /\ Settled(conn, {})
     ELSE UNCHANGED undoTasks /\ Settled(conn, hold)
  /\ UNCHANGED <<stores, opTasks, claimSent, holdUsed, holdPast>>

\* The claim writes `access` on the console and tells the engine.
Claims ==
  /\ ~stores.claimed
  /\ stores' = [stores EXCEPT !.claimed = TRUE]
  /\ claimSent' = TRUE
  /\ UNCHANGED <<conn, hold, opTasks, undoTasks, openWindow, wifiLocked, holdUsed, holdPast>>

ClaimedOver ==
  LET dropped == conn.serial # 0 /\ conn.auth = "none"
      ended == \E h \in hold : h.unclaimed
  IN /\ claimSent
     /\ claimSent' = FALSE
     /\ Settled(IF dropped THEN NoSession ELSE conn,
                IF ended THEN {} ELSE IF dropped THEN Away(hold) ELSE hold)
     /\ IF ended THEN EndHold(FALSE) ELSE UNCHANGED undoTasks
     /\ UNCHANGED <<stores, opTasks, openWindow, holdUsed, holdPast>>

(***************************************************************************)
(* Putting back: restore_wifi reads the networks, then writes; a refused   *)
(* or failed write is only logged, and what it would have undone stays.    *)
(***************************************************************************)
UndoReads(u) ==
  /\ u.pc = "read"
  /\ undoTasks' = (undoTasks \ {u}) \cup {[u EXCEPT !.pc = "write", !.read = stores.nets]}
  /\ UNCHANGED <<stores, conn, hold, opTasks, openWindow, wifiLocked, claimSent,
                 holdUsed, holdPast>>

UndoWrites(u) ==
  /\ u.pc = "write"
  /\ undoTasks' = undoTasks \ {u}
  /\ stores' = IF u.kind = "wifi"
               THEN [stores EXCEPT !.mode = u.mode, !.nets = u.read \ u.remove]
               ELSE [stores EXCEPT !.wired = u.entry]
  /\ UNCHANGED <<conn, hold, opTasks, openWindow, wifiLocked, claimSent, holdUsed, holdPast>>

UndoRefused(u) ==
  /\ u.pc = "write"
  /\ undoTasks' = undoTasks \ {u}
  /\ holdPast' = [holdPast EXCEPT !.late = TRUE]
  /\ UNCHANGED <<stores, conn, hold, opTasks, openWindow, wifiLocked, claimSent, holdUsed>>

\* micad restarts: what it meant to put back is forgotten.
EngineLost ==
  /\ Settled(NoSession, {})
  /\ opTasks' = {} /\ undoTasks' = {} /\ claimSent' = FALSE
  /\ holdPast' = [holdPast EXCEPT !.late = TRUE]
  /\ hold # {} \/ undoTasks # {} \/ opTasks # {}
  /\ UNCHANGED <<stores, openWindow, holdUsed>>

TaskStep ==
  \/ \E t \in opTasks : JoinReads(t) \/ JoinWrites(t) \/ NetworkWrites(t) \/ Saved(t)
                        \/ Done(t) \/ WriteRefused(t) \/ \E up \in BOOLEAN : Comes(t, up)
  \/ \E u \in undoTasks : UndoReads(u) \/ UndoWrites(u) \/ UndoRefused(u)

HoldNext ==
  \/ SessionReady \/ SetWifi \/ SetNetwork \/ FinishSent \/ LinkDrops \/ IdleEnds
  \/ TaskStep \/ AwayTooLong \/ WindowChanges \/ Claims \/ ClaimedOver \/ EngineLost

\* The runtime runs every task, a call that waits has a timeout, and the engine
\* ticks every second: a silent phone is dropped, one that stays away is given up.
HoldFair == WF_holdVars(TaskStep) /\ WF_holdVars(IdleEnds) /\ WF_holdVars(AwayTooLong)

HoldSpec == HoldInit /\ [][HoldNext]_holdVars /\ HoldFair

--------------------------------------------------------------------------------
Quiet == conn.serial = 0 /\ hold = {} /\ opTasks = {} /\ undoTasks = {}

\* There is at most one hold, its phone is away exactly when it has no
\* connection, and the console is locked out exactly while there is a session
\* or a hold.
HoldTypeOK ==
  /\ Cardinality(hold) <= 1
  /\ \A h \in hold : /\ Cardinality(h.snapshot) <= 1 /\ h.added \subseteq Ssids
                     /\ h.away = (conn.serial = 0)
  /\ wifiLocked = (conn.serial # 0 \/ hold # {})
  /\ conn.op => \E t \in opTasks : t.serial = conn.serial

\* Once everything is over, a Wi-Fi mode no setWifi came up with is as it was
\* found; and after sessions of an unclaimed device that came up with nothing and
\* did not finish, so are the networks and the wired entry.  Excepted are saves
\* reported after their connection or hold was gone, a command sent before an
\* earlier session was put back, a putting back whose write failed, which is only
\* logged, and a restart of micad.
AbandonedIsUndone ==
  Quiet /\ ~holdPast.late
    => /\ ~holdPast.wifiUp => stores.mode = "found"
       /\ ~holdPast.kept => stores.nets = {} /\ stores.wired = "found"

\* The console is not locked out for ever: commands end, a silent phone is
\* dropped and a phone that went away is given up.
WifiUnlocks == []<>~wifiLocked

\* An unclaimed device whose session ends without finish removes the networks
\* such a setWifi added (docs/ble-provisioning.md).
AbandonedNetworksRemoved == Quiet /\ ~holdPast.kept /\ ~stores.claimed => stores.nets = {}

\* The hold through dropped links, refused and late writes and restarts: its
\* lock and its record agree, and what a session abandons is undone.
HoldSafe == HoldTypeOK /\ AbandonedIsUndone
================================================================================
