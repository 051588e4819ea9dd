---- MODULE BluetoothPairing ----
(***************************************************************************)
(* Bluetooth pairing in micad: the pairing window and the requests that    *)
(* wait in it (crates/micad/src/bluetooth/agent.rs), the members of the bus*)
(* that open and close it, pair, answer and remove (bus/interface.rs,      *)
(* bus/operations.rs), and the reconciler that makes the adapter's paired  *)
(* devices the declared ones (reconciler/bluetooth.rs).  The calls of the  *)
(* bus run concurrently: a step of the model is what a call does between   *)
(* two awaits that another call can come between.  BlueZ keeps the adapter *)
(* and its pairings; it is external, and answers every call here.          *)
(***************************************************************************)
EXTENDS Integers, FiniteSets

CONSTANTS
    Peers,        \* the devices that can be paired
    BtCalls,      \* the concurrent calls of the bus (and timers of windows)
    MaxOpenings,  \* bound: windows opened
    MaxPairings   \* bound: pairings and removals asked for

\* None of the calls is called what stands for nobody holding the lock.
ASSUME BluetoothAssumption ==
    MaxOpenings \in Nat /\ IsFiniteSet(BtCalls) /\ "free" \notin BtCalls

VARIABLES
    window,       \* the open window's opening, 0 when there is none
    openings,     \* how many windows were opened
    timers,       \* the openings whose timer has not run out
    adapter,      \* the adapter is discoverable and pairable
    pendingPairs, \* the requests that wait for the console
    asked,        \* per peer, where its request to the agent is
    answers,      \* per peer, the answer sent to its request
    declared,     \* the trust list of the settings
    paired,       \* the devices BlueZ has paired
    btLock,       \* the call that holds the apply lock, or "free"
    btCalls,      \* per call: what it does and how far it is
    pairings      \* how many pairings and removals were asked for

btVars == <<window, openings, timers, adapter, pendingPairs, asked, answers, declared,
            paired, btLock, btCalls, pairings>>

btAgent == <<window, openings, timers, adapter, pendingPairs, asked, answers>>
btDevices == <<declared, paired, btLock, pairings>>

IdleCall == [at |-> "idle", peer |-> "none", opening |-> 0, trust |-> {}]
CallGoes(c, at) == btCalls' = [btCalls EXCEPT ![c].at = at]
CallEnds(c) == btCalls' = [btCalls EXCEPT ![c] = IdleCall]
CallIdle(c) == btCalls[c].at = "idle"
CallIs(c, at) == btCalls[c].at = at

----------------------------------------------------------------------------
(* The pairing window.                                                     *)

\* open_bluetooth_pair_window: the adapter is opened first, the window then, and
\* its timer started.
OpenAdapter(c) ==
    /\ CallIdle(c)
    /\ openings + Cardinality({d \in BtCalls : CallIs(d, "opening")}) < MaxOpenings
    /\ adapter' = TRUE
    /\ CallGoes(c, "opening")
    /\ UNCHANGED <<window, openings, timers, pendingPairs, asked, answers, btDevices>>

OpenWindow(c) ==
    /\ CallIs(c, "opening")
    /\ openings' = openings + 1
    /\ window' = openings'
    /\ timers' = timers \union {window'}
    /\ CallEnds(c)
    /\ UNCHANGED <<adapter, pendingPairs, asked, answers, btDevices>>

\* close_bluetooth_pair_window, and what a timer does once it found its window
\* open: the window, then the waiting requests, then the adapter.
CloseBegins(c) ==
    /\ CallIdle(c) /\ (window # 0 \/ adapter)
    /\ CallGoes(c, "closing")
    /\ UNCHANGED <<btAgent, btDevices>>

CloseWindow(c) ==
    /\ CallIs(c, "closing")
    /\ window' = 0
    /\ CallGoes(c, "draining")
    /\ UNCHANGED <<openings, timers, adapter, pendingPairs, asked, answers, btDevices>>

DrainPending(c) ==
    /\ CallIs(c, "draining")
    /\ answers' = [p \in Peers |-> IF p \in pendingPairs THEN "no" ELSE answers[p]]
    /\ pendingPairs' = {}
    /\ CallGoes(c, "shutting")
    /\ UNCHANGED <<window, openings, timers, adapter, asked, btDevices>>

CloseAdapter(c) ==
    /\ CallIs(c, "shutting")
    /\ adapter' = FALSE
    /\ CallEnds(c)
    /\ UNCHANGED <<window, openings, timers, pendingPairs, asked, answers, btDevices>>

\* A timer runs out: it closes its window if that is still the open one.  The
\* lock of the window is let go between the look and the closing.
ExpireLook(c) ==
    \E t \in timers :
        /\ CallIdle(c)
        /\ timers' = timers \ {t}
        /\ IF window = t THEN btCalls' = [btCalls EXCEPT ![c] =
                                 [IdleCall EXCEPT !.at = "closing", !.opening = t]]
                         ELSE UNCHANGED btCalls
        /\ UNCHANGED <<window, openings, adapter, pendingPairs, asked, answers, btDevices>>

\* BlueZ comes back: the agent is registered again, and the adapter, open or
\* not, is closed when no window is.
Register(c) ==
    /\ CallIdle(c) /\ window = 0
    /\ CallGoes(c, "shutting")
    /\ UNCHANGED <<btAgent, btDevices>>

----------------------------------------------------------------------------
(* The requests BlueZ brings to the agent.                                 *)

\* confirm: refused at once without a window.
ConfirmLook(p) ==
    /\ asked[p] = "no" /\ adapter /\ p \notin paired
    /\ asked' = [asked EXCEPT ![p] = IF window # 0 THEN "looked" ELSE "no"]
    /\ UNCHANGED <<window, openings, timers, adapter, pendingPairs, answers, btDevices,
                   btCalls>>

\* A device waits once.
ConfirmWaits(p) ==
    /\ asked[p] = "looked"
    /\ asked' = [asked EXCEPT ![p] = "waits"]
    /\ pendingPairs' = pendingPairs \union {p}
    /\ answers' = [answers EXCEPT ![p] = "none"]
    /\ UNCHANGED <<window, openings, timers, adapter, btDevices, btCalls>>

\* The answer comes, or does not in 45 seconds.  A yes lets BlueZ pair.
ConfirmEnds(p) ==
    /\ asked[p] = "waits"
    /\ asked' = [asked EXCEPT ![p] = "no"]
    /\ pendingPairs' = pendingPairs \ {p}
    /\ paired' = IF answers[p] = "yes" THEN paired \union {p} ELSE paired
    /\ UNCHANGED <<window, openings, timers, adapter, answers, declared, btLock, pairings,
                   btCalls>>

\* confirm_bluetooth_pairing: the console's answer; a yes is declared.
AnswerPairing(c, p) ==
    /\ CallIdle(c) /\ p \in pendingPairs /\ pairings < MaxPairings
    /\ pairings' = pairings + 1
    /\ pendingPairs' = pendingPairs \ {p}
    /\ \/ answers' = [answers EXCEPT ![p] = "no"] /\ UNCHANGED btCalls
       \/ /\ answers' = [answers EXCEPT ![p] = "yes"]
          /\ btCalls' = [btCalls EXCEPT ![c] = [IdleCall EXCEPT !.at = "declare", !.peer = p]]
    /\ UNCHANGED <<window, openings, timers, adapter, asked, declared, paired, btLock>>

----------------------------------------------------------------------------
(* Pairing, removing and the reconciler.                                   *)

\* pair_bluetooth_device: BlueZ pairs, and no lock is held.
Pair(c, p) ==
    /\ CallIdle(c) /\ pairings < MaxPairings /\ p \notin paired
    /\ pairings' = pairings + 1
    /\ paired' = paired \union {p}
    /\ btCalls' = [btCalls EXCEPT ![c] = [IdleCall EXCEPT !.at = "declare", !.peer = p]]
    /\ UNCHANGED <<btAgent, declared, btLock>>

\* The trust list is what the settings held when the pairing began.
DeclareStale(c) ==
    /\ CallIs(c, "declare") /\ btLock = "free"
    /\ declared' = {btCalls[c].peer}
    /\ CallGoes(c, "apply")
    /\ UNCHANGED <<btAgent, paired, btLock, pairings>>

\* declare_paired_device: under the apply lock the device is added to what the
\* settings hold; the lock is let go before the reconciler runs.
Declare(c) ==
    /\ CallIs(c, "declare") /\ btLock = "free"
    /\ declared' = declared \union {btCalls[c].peer}
    /\ CallGoes(c, "apply")
    /\ UNCHANGED <<btAgent, paired, btLock, pairings>>

\* remove_bluetooth_device.
Undeclare(c, p) ==
    /\ CallIdle(c) /\ pairings < MaxPairings
    /\ btLock = "free" /\ p \in declared
    /\ pairings' = pairings + 1
    /\ declared' = declared \ {p}
    /\ btCalls' = [btCalls EXCEPT ![c] = [IdleCall EXCEPT !.at = "unpair", !.peer = p]]
    /\ UNCHANGED <<btAgent, paired, btLock>>

Unpair(c) ==
    /\ CallIs(c, "unpair")
    /\ paired' = paired \ {btCalls[c].peer}
    /\ CallGoes(c, "apply")
    /\ UNCHANGED <<btAgent, declared, btLock, pairings>>

\* apply_subtree("bluetooth"), without the lock: the settings are copied, and
\* then every paired device they do not name is removed.
ApplyCopies(c) ==
    /\ CallIs(c, "apply")
    /\ btCalls' = [btCalls EXCEPT ![c].at = "sweep", ![c].trust = declared]
    /\ UNCHANGED <<btAgent, btDevices>>

\* The queue's worker and the startup apply do the same under the lock.
WorkerCopies(c) ==
    /\ CallIdle(c) /\ btLock = "free"
    /\ btLock' = c
    /\ btCalls' = [btCalls EXCEPT ![c].at = "sweep", ![c].trust = declared]
    /\ UNCHANGED <<btAgent, declared, paired, pairings>>

ReconcileDevices(c) ==
    /\ CallIs(c, "sweep")
    /\ paired' = paired \intersect btCalls[c].trust
    /\ btLock' = IF btLock = c THEN "free" ELSE btLock
    /\ CallEnds(c)
    /\ UNCHANGED <<btAgent, declared, pairings>>

BtInit ==
    /\ window = 0 /\ openings = 0 /\ timers = {}
    /\ adapter = FALSE
    /\ pendingPairs = {}
    /\ asked = [p \in Peers |-> "no"] /\ answers = [p \in Peers |-> "none"]
    /\ declared = {} /\ paired = {}
    /\ btLock = "free"
    /\ btCalls = [c \in BtCalls |-> IdleCall]
    /\ pairings = 0

BtNext ==
    \/ \E c \in BtCalls :
          \/ OpenAdapter(c) \/ OpenWindow(c) \/ CloseBegins(c) \/ CloseWindow(c)
          \/ DrainPending(c) \/ CloseAdapter(c) \/ ExpireLook(c) \/ Register(c)
          \/ Declare(c) \/ Unpair(c) \/ ApplyCopies(c) \/ WorkerCopies(c)
          \/ ReconcileDevices(c)
          \/ \E p \in Peers : AnswerPairing(c, p) \/ Pair(c, p) \/ Undeclare(c, p)
    \/ \E p \in Peers : ConfirmLook(p) \/ ConfirmWaits(p) \/ ConfirmEnds(p)

----------------------------------------------------------------------------
(* Properties.                                                             *)

BtTypeOK ==
    /\ window \in 0..MaxOpenings /\ openings \in 0..MaxOpenings
    /\ timers \subseteq 1..MaxOpenings
    /\ adapter \in BOOLEAN
    /\ pendingPairs \subseteq {p \in Peers : asked[p] = "waits"}
    /\ declared \subseteq Peers /\ paired \subseteq Peers
    /\ btLock \in BtCalls \union {"free"}

\* No call is opening or closing the window.
WindowSettled ==
    \A c \in BtCalls : btCalls[c].at \notin {"opening", "closing", "draining", "shutting"}

\* However openings, closings, timers and BlueZ's returns interleave, the adapter
\* is not left discoverable without a window: the adapter is opened before the
\* window and closed after it.  BlueZ takes the calls here; a closing it refuses
\* is logged and not tried again (bus/interface.rs:755-758).
NoWindowNotDiscoverable == WindowSettled /\ adapter => window # 0

\* A device leaves the trust list only by its own removal: a pairing that ends
\* while another one is declared does not take that one out of the settings.
TrustListKept == [][
    \A p \in declared \ declared' :
        \E c \in BtCalls : CallIs(c, "idle") /\ btCalls'[c].at = "unpair" /\ btCalls'[c].peer = p
    ]_btVars

BtRest == (\A c \in BtCalls : CallIdle(c)) /\ (\A p \in Peers : asked[p] = "no")

\* What the code says of declare_paired_device: a pair landing during a
\* reconcile must not be lost.  At rest every declared device is paired.
PairingNotLost == BtRest => declared \subseteq paired

\* What the code says of a window's opening: the timer of an earlier window
\* cannot close a later one.
EarlierTimerSparesWindow == [][
    \A c \in BtCalls :
        CallIs(c, "closing") /\ btCalls[c].opening # 0 /\ window # 0 /\ window' = 0
            => window = btCalls[c].opening]_btVars
====
