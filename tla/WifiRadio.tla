---- MODULE WifiRadio ----
(***************************************************************************)
(* The Wi-Fi radios of the device, each used by the supplicant (a station) *)
(* or by hostapd (an access point), and what of micad decides which:       *)
(* reconciler/wifi_client.rs and reconciler/wifi_ap.rs, which run one after*)
(* the other under the apply lock, and the scan beside the access point    *)
(* (reconciler/wifi_ap/pause.rs), which stops hostapd for its length.      *)
(***************************************************************************)
EXTENDS Integers, Sequences

CONSTANTS
    Radios,       \* the wireless interfaces
    WifWrites,    \* bound: how often the settings are written
    WifFaults,    \* bound: failed calls, deaths of micad, power cuts
    WifScans      \* bound: scans asked for

\* There is a radio, and none is called what stands for no pause.
ASSUME RadioAssumption == Radios # {} /\ "none" \notin Radios

VARIABLES
    wifi,         \* the settings: client and ap, each [on, at]
    station,      \* the radios a supplicant runs on
    hostapd,      \* the radios hostapd runs on
    boots,        \* the units the next boot starts: <<role, radio>>
    wifJob,       \* the apply under way
    wifWaiting,   \* a written setting has not been applied yet
    wifRetrying,  \* the startup applies left: "station" before the access point's,
                  \* "both" until they succeed, "no"
    bootScan,     \* the scan before the startup apply starts the access point
    pause,        \* the scan beside the access point
    acsFailed,    \* hostapd could not choose a channel since micad started
    wifOutcome,   \* what the last apply reported
    moved,        \* an interface was renamed, and its old unit left as it was
    clashed,      \* a tree put both roles on one radio since hostapd last stopped
    shaken,       \* a call failed, or micad or the device went down, since the
                  \* last apply that succeeded
    wifUsed       \* how much of the bounds is used

wifVars == <<wifi, station, hostapd, boots, wifJob, wifWaiting, wifRetrying, bootScan,
             pause, acsFailed, wifOutcome, moved, clashed, shaken, wifUsed>>

wifUnits == <<station, hostapd, boots>>
Role == [on : BOOLEAN, at : Radios]
NoWifJob == [steps |-> << >>, client |-> [on |-> FALSE, at |-> CHOOSE r \in Radios : TRUE],
             ap |-> [on |-> FALSE, at |-> CHOOSE r \in Radios : TRUE], failed |-> FALSE,
             full |-> FALSE, startup |-> FALSE]

\* Both roles on one radio: the access point's reconciler reports a conflict.
Conflicts(w) == w.client.on /\ w.ap.on /\ w.client.at = w.ap.at

\* The apply lock is held by an apply or by the scan beside the access point.
Unlocked == wifJob = NoWifJob /\ pause = "none"

----------------------------------------------------------------------------
(* The settings and the applies.                                           *)

WriteWifi ==
    \E c \in Role, a \in Role :
        /\ wifUsed.writes < WifWrites
        /\ wifi' = [client |-> c, ap |-> a]
        /\ wifi' # wifi
        /\ wifWaiting' = TRUE
        /\ moved' = (moved \/ c.at # wifi.client.at \/ a.at # wifi.ap.at)
        /\ clashed' = (clashed \/ Conflicts(wifi'))
        /\ wifUsed' = [wifUsed EXCEPT !.writes = @ + 1]
        /\ UNCHANGED <<wifUnits, wifJob, wifRetrying, bootScan, pause, acsFailed,
                       wifOutcome, shaken>>

\* The apply: the station's reconciler and then the access point's, both on one
\* copy of the settings.  With a boot scan the startup applies the station
\* first, waits for the scan, and then applies both.
BeginWifi(steps, startup) ==
    /\ Unlocked
    /\ wifJob' = [steps |-> steps, client |-> wifi.client, ap |-> wifi.ap, failed |-> FALSE,
                  full |-> Len(steps) > 2, startup |-> startup]
    /\ UNCHANGED <<wifi, wifUnits, bootScan, pause, acsFailed, wifOutcome, moved, clashed,
                   shaken, wifUsed>>

ApplyWritten ==
    /\ wifWaiting /\ wifWaiting' = FALSE
    /\ BeginWifi(<<"stopAp", "station", "ap", "acs">>, FALSE)
    /\ UNCHANGED wifRetrying

ApplyDeferred ==
    /\ \/ /\ wifRetrying = "station" /\ wifRetrying' = "both"
          /\ BeginWifi(<<"stopAp", "station">>, TRUE)
       \/ /\ wifRetrying = "both" /\ bootScan # "runs" /\ UNCHANGED wifRetrying
          /\ BeginWifi(<<"stopAp", "station", "ap", "acs">>, TRUE)
    /\ UNCHANGED wifWaiting

ApplyGivenUp ==
    /\ wifRetrying = "both" /\ Unlocked /\ wifOutcome = "failed" /\ bootScan # "runs"
    /\ wifRetrying' = "no"
    /\ UNCHANGED <<wifi, wifUnits, wifJob, wifWaiting, bootScan, pause, acsFailed,
                   wifOutcome, moved, clashed, shaken, wifUsed>>

----------------------------------------------------------------------------
(* The steps of an apply.                                                  *)

AtWifi(s) == wifJob.steps # << >> /\ Head(wifJob.steps) = s
NextWifi == wifJob' = [wifJob EXCEPT !.steps = Tail(@)]
WifFaultLeft == wifUsed.faults < WifFaults
WifFault == wifUsed' = [wifUsed EXCEPT !.faults = @ + 1]

\* A failed call ends its reconciler; the next one still runs.
SkipWifi(n) ==
    /\ WifFaultLeft /\ WifFault
    /\ wifJob' = [wifJob EXCEPT !.steps = SubSeq(@, n + 1, Len(@)), !.failed = TRUE]
    /\ shaken' = TRUE

\* The units after the calls of apply_unit: on the list and started, or stopped
\* and off the list.  A restart leaves it running.
Taking(running, r) == running \union {r}

\* stop_access_point: the station that is about to start takes the radio from an
\* access point that is off in the settings and still runs.
StopAccessPoint ==
    /\ AtWifi("stopAp")
    /\ IF /\ wifJob.client.on /\ ~wifJob.ap.on /\ wifJob.ap.at = wifJob.client.at
          /\ wifJob.client.at \notin station
          /\ wifJob.ap.at \in hostapd
       THEN \/ hostapd' = hostapd \ {wifJob.ap.at} /\ NextWifi /\ UNCHANGED <<shaken, wifUsed>>
            \/ hostapd' \in {hostapd, hostapd \ {wifJob.ap.at}} /\ SkipWifi(2)
       ELSE NextWifi /\ UNCHANGED <<hostapd, shaken, wifUsed>>
    /\ UNCHANGED <<wifi, station, boots, wifWaiting, wifRetrying, bootScan, pause, acsFailed,
                   wifOutcome, moved, clashed>>

ApplyStation ==
    LET r == wifJob.client.at
        unit == <<"station", r>>
    IN
    /\ AtWifi("station")
    /\ IF wifJob.client.on
       THEN \/ station' = Taking(station, r) /\ boots' = boots \union {unit}
               /\ NextWifi /\ UNCHANGED <<shaken, wifUsed>>
            \/ \/ UNCHANGED <<station, boots>> /\ SkipWifi(1)
               \/ boots' = boots \union {unit} /\ station' \in {station, Taking(station, r)} /\ SkipWifi(1)
       ELSE \/ station' = station \ {r} /\ boots' = boots \ {unit}
               /\ NextWifi /\ UNCHANGED <<shaken, wifUsed>>
            \/ station' \in {station, station \ {r}} /\ UNCHANGED boots /\ SkipWifi(1)
    /\ UNCHANGED <<wifi, hostapd, wifWaiting, wifRetrying, bootScan, pause, acsFailed,
                   wifOutcome, moved, clashed>>

\* A conflict ends the apply of the access point before it touches anything.
ApplyAccessPoint ==
    LET r == wifJob.ap.at
        unit == <<"ap", r>>
    IN
    /\ AtWifi("ap")
    /\ \/ /\ Conflicts(wifJob)
          /\ wifJob' = [wifJob EXCEPT !.steps = << >>]
          /\ UNCHANGED <<hostapd, boots, clashed, shaken, wifUsed>>
       \/ /\ ~Conflicts(wifJob) /\ wifJob.ap.on
          /\ \/ hostapd' = Taking(hostapd, r) /\ boots' = boots \union {unit}
                /\ NextWifi /\ UNCHANGED <<shaken, wifUsed>>
             \/ UNCHANGED <<hostapd, boots>> /\ SkipWifi(2)
             \/ boots' = boots \union {unit} /\ hostapd' \in {hostapd, Taking(hostapd, r)} /\ SkipWifi(2)
          /\ UNCHANGED clashed
       \/ /\ ~Conflicts(wifJob) /\ ~wifJob.ap.on
          /\ \/ hostapd' = hostapd \ {r} /\ boots' = boots \ {unit}
                /\ NextWifi /\ UNCHANGED <<shaken, wifUsed>>
             \/ hostapd' \in {hostapd, hostapd \ {r}} /\ UNCHANGED boots /\ SkipWifi(2)
          /\ clashed' = (clashed /\ (hostapd' # {} \/ Conflicts(wifi)))
    /\ UNCHANGED <<wifi, station, wifWaiting, wifRetrying, bootScan, pause, acsFailed,
                   wifOutcome, moved>>

\* hostapd is to choose its channel; when it gives up it is restarted on a fixed
\* one, and the choice is not tried again before micad restarts.
AwaitAcs ==
    /\ AtWifi("acs")
    /\ \/ NextWifi /\ UNCHANGED <<acsFailed, shaken, wifUsed>>
       \/ /\ wifJob.ap.on /\ ~acsFailed
          /\ acsFailed' = TRUE
          /\ \/ NextWifi /\ UNCHANGED <<shaken, wifUsed>>
             \/ SkipWifi(1)
    /\ UNCHANGED <<wifi, wifUnits, wifWaiting, wifRetrying, bootScan, pause, wifOutcome,
                   moved, clashed>>

\* The apply is over.  A full one that succeeded is the last of the startup.  A
\* write's apply does not count for it, and the startup's own comes later.
EndWifi ==
    /\ wifJob # NoWifJob /\ wifJob.steps = << >>
    /\ wifJob' = NoWifJob
    /\ wifOutcome' = IF wifJob.failed THEN "failed" ELSE "ok"
    /\ wifRetrying' = IF wifJob.startup /\ wifJob.full /\ ~wifJob.failed THEN "no" ELSE wifRetrying
    /\ shaken' = (shaken /\ (wifJob.failed \/ ~wifJob.full))
    /\ UNCHANGED <<wifi, wifUnits, wifWaiting, bootScan, pause, acsFailed, moved, clashed,
                   wifUsed>>

----------------------------------------------------------------------------
(* The scans.                                                              *)

\* A scan on a radio the settings give to the access point: under the apply
\* lock hostapd is stopped if it runs, and started again after the scan.  The
\* settings were read before the lock was taken.
PauseAccessPoint ==
    /\ Unlocked /\ wifUsed.scans < WifScans
    /\ ~wifi.client.on /\ wifi.ap.on /\ wifi.ap.at = wifi.client.at
    /\ wifUsed' = [wifUsed EXCEPT !.scans = @ + 1]
    /\ \/ /\ wifi.ap.at \in hostapd
          /\ hostapd' = hostapd \ {wifi.ap.at}
          /\ pause' = wifi.ap.at
       \* hostapd does not run, or systemd does not tell or does not stop it
       \/ UNCHANGED <<hostapd, pause>>
    /\ UNCHANGED <<wifi, station, boots, wifJob, wifWaiting, wifRetrying, bootScan,
                   acsFailed, wifOutcome, moved, clashed, shaken>>

ResumeAccessPointNever ==
    /\ pause # "none"
    /\ pause' = "none"
    /\ UNCHANGED <<wifi, wifUnits, wifJob, wifWaiting, wifRetrying, bootScan,
                   acsFailed, wifOutcome, moved, clashed, shaken, wifUsed>>

\* The access point that does not start again is only logged.
ResumeAccessPoint ==
    /\ pause # "none"
    /\ pause' = "none"
    /\ \/ hostapd' = Taking(hostapd, pause) /\ UNCHANGED <<wifUsed, shaken>>
       \/ WifFaultLeft /\ WifFault /\ shaken' = TRUE /\ UNCHANGED hostapd
    /\ UNCHANGED <<wifi, station, boots, wifJob, wifWaiting, wifRetrying, bootScan,
                   acsFailed, wifOutcome, moved, clashed>>

BootScanEnds ==
    /\ bootScan = "runs"
    /\ bootScan' = "done"
    /\ UNCHANGED <<wifi, wifUnits, wifJob, wifWaiting, wifRetrying, pause, acsFailed,
                   wifOutcome, moved, clashed, shaken, wifUsed>>

----------------------------------------------------------------------------
(* micad and the device go down.                                           *)

\* The boot scan runs when the radio is the access point's.
MicadStarts ==
    /\ wifJob' = NoWifJob /\ pause' = "none"
    /\ wifWaiting' = FALSE
    /\ bootScan' = IF wifi.ap.on /\ ~Conflicts(wifi) THEN "runs" ELSE "none"
    /\ wifRetrying' = IF bootScan' = "runs" THEN "station" ELSE "both"
    /\ acsFailed' = FALSE
    /\ wifOutcome' = "none"
    /\ shaken' = TRUE
    /\ WifFaultLeft /\ WifFault
    /\ UNCHANGED <<wifi, moved, clashed>>

WifMicadDies == MicadStarts /\ UNCHANGED wifUnits

WifPowerCut ==
    /\ MicadStarts
    /\ station' = {r \in Radios : <<"station", r>> \in boots}
    /\ hostapd' = {r \in Radios : <<"ap", r>> \in boots}
    /\ UNCHANGED boots

WifInit ==
    /\ wifi \in [client : Role, ap : Role]
    /\ station = {} /\ hostapd = {} /\ boots = {}
    /\ wifJob = NoWifJob /\ pause = "none"
    /\ wifWaiting = FALSE
    /\ bootScan = IF wifi.ap.on /\ ~Conflicts(wifi) THEN "runs" ELSE "none"
    /\ wifRetrying = IF bootScan = "runs" THEN "station" ELSE "both"
    /\ acsFailed = FALSE
    /\ wifOutcome = "none"
    /\ moved = FALSE /\ clashed = Conflicts(wifi) /\ shaken = FALSE
    /\ wifUsed = [writes |-> 0, faults |-> 0, scans |-> 0]

WifNext ==
    \/ WriteWifi \/ ApplyWritten \/ ApplyDeferred \/ ApplyGivenUp
    \/ StopAccessPoint \/ ApplyStation \/ ApplyAccessPoint \/ AwaitAcs \/ EndWifi
    \/ PauseAccessPoint \/ ResumeAccessPoint \/ BootScanEnds
    \/ WifMicadDies \/ WifPowerCut

----------------------------------------------------------------------------
(* Properties.                                                             *)

WifTypeOK ==
    /\ wifi \in [client : Role, ap : Role]
    /\ station \subseteq Radios /\ hostapd \subseteq Radios
    /\ boots \subseteq ({"station", "ap"} \X Radios)
    /\ bootScan \in {"none", "runs", "done"}
    /\ pause \in Radios \union {"none"}
    /\ wifOutcome \in {"none", "ok", "failed"}

WifRest == Unlocked /\ ~wifWaiting /\ wifRetrying = "no"

\* One radio is never a station and an access point at once, not even between
\* the two reconcilers of one apply or around a scan, as long as no tree put
\* both on it, its interface was not renamed, and no call to the service
\* manager failed since the last good apply (stop_access_point, the order of
\* the two reconcilers).
OneRoleAtATime ==
    ~moved /\ ~clashed /\ ~shaken => station \intersect hostapd = {}

\* At rest, after an apply that succeeded and with nothing failed since, the
\* roles the settings give to the radios are the ones that run, and the ones
\* the next boot starts; a scan beside the access point left it running.
RadioConverged ==
    WifRest /\ wifOutcome = "ok" /\ ~moved /\ ~clashed /\ ~shaken =>
        /\ station = IF wifi.client.on THEN {wifi.client.at} ELSE {}
        /\ hostapd = IF wifi.ap.on THEN {wifi.ap.at} ELSE {}
        /\ boots = ({"station"} \X station) \union ({"ap"} \X hostapd)

\* What the documentation says: the station and the access point share one radio
\* and take turns, and an access point on the station's interface reports a
\* conflict and does not start.  At rest after an apply that succeeded, with no
\* fault and no interface renamed, no radio is both.
RadioTakesTurns ==
    WifRest /\ wifOutcome = "ok" /\ ~moved /\ ~shaken => station \intersect hostapd = {}

\* The radio is in one role at a time and at rest in the one the settings give.
RadioSafe == WifTypeOK /\ OneRoleAtATime /\ RadioConverged

=============================================================================
