---------------------------- MODULE LumalouClock ----------------------------
(***************************************************************************)
(* The power-loss clock: how a fresh read tells a device that lost power   *)
(* from one whose clock only drifted or met a DST or time zone change, and *)
(* when Home Assistant sets that clock.                                    *)
(*                                                                         *)
(* A week time counts units from Sunday 00:00.  The other criterion of a   *)
(* reset, settings at their factory defaults, is in LumalouProfile, where  *)
(* this module's verdict is device.clock.  Time is trusted here and the    *)
(* entry is verified.                                                      *)
(***************************************************************************)
EXTENDS Integers

CONSTANTS
    None,
    Hour, DayHours, WeekDays,
    PowerLossClock,    \* where the clock restarts: Sunday 05:00
    Early,             \* _POWER_LOSS_CLOCK_EARLY
    SyncTolerance,     \* CLOCK_SYNC_TOLERANCE
    ResetOffset,       \* RESET_CLOCK_OFFSET
    HourTolerance,     \* WHOLE_HOUR_TOLERANCE
    AmbiguityWindow,   \* DST_AMBIGUITY_WINDOW
    WindowMax,         \* RESET_WINDOW_MAX
    RetryInterval,     \* CLOCK_SYNC_RETRY_INTERVAL
    Starts,            \* bound: week times a behavior starts at
    Pauses,            \* bound: time passes in these steps
    MaxPauses, MaxZones, MaxDrift, MaxOutages   \* bounds

Day == DayHours * Hour
Week == WeekDays * Day

ASSUME ClockAssumption ==
    /\ Hour \in Nat \ {0} /\ DayHours \in Nat \ {0} /\ WeekDays \in Nat \ {0}
    /\ {PowerLossClock, Early, SyncTolerance, ResetOffset, HourTolerance,
        AmbiguityWindow, WindowMax, RetryInterval} \subseteq Nat
    /\ PowerLossClock + WindowMax < Day /\ Early <= PowerLossClock
    /\ HourTolerance <= ResetOffset
    /\ Starts \subseteq 0..Week - 1 /\ Pauses \subseteq Nat
    /\ {MaxPauses, MaxZones, MaxDrift, MaxOutages} \subseteq Nat
    /\ None \notin Nat

VARIABLES
    local,      \* week time of Home Assistant
    clock,      \* week time of the device
    powered,
    session,    \* none, opening (a fresh read goes on), live
    unseen,     \* time since _last_frame_at, or None
    captured,   \* time since the _last_frame_at taken before the session
    synced,     \* time since last_clock_sync, or None
    paused,     \* clock_sync_paused
    verdict,    \* the last judgement; None until the read is judged
    sinceOn,    \* history: time since power came back, until a read is judged
    restarted,  \* history: the clock restarted and was not set since
    shifted,    \* history: the local time changed since the clock was set
    pauses, zones, drift, outages

device  == <<clock, powered>>
heard   == <<unseen, captured>>
history == <<sinceOn, restarted, shifted>>
bounds  == <<pauses, zones, drift, outages>>
sync    == <<synced, paused>>
vars == <<local, device, session, heard, sync, verdict, history, bounds>>

Smaller(a, b) == IF a < b THEN a ELSE b

\* clock_offset_seconds: the circular distance.
ClockOffset(device_time, local_time) ==
    LET difference == (device_time - local_time) % Week
    IN Smaller(difference, Week - difference)

\* is_whole_hour_offset.
WholeHours_Exact(offset) == offset % Hour = 0
WholeHours(offset) ==
    Smaller(offset % Hour, Hour - (offset % Hour)) <= HourTolerance

\* is_factory_clock: Sunday, running from the restart for at most window.
FactoryClock(time, window) ==
    time < Day /\ time - PowerLossClock \in (-Early)..window

Offset == ClockOffset(clock, local)

\* How long the clock of a device that lost power can have run.
LastHeard_InThisSession == unseen
LastHeard == captured

Window == IF LastHeard = None THEN WindowMax
          ELSE Smaller(WindowMax, LastHeard + ResetOffset)
HeardRecently == captured # None /\ captured <= AmbiguityWindow

\* _is_reset, the clock's part.
ShowsReset ==
    /\ Offset > ResetOffset
    /\ FactoryClock(clock, Window)
    /\ ~WholeHours(Offset) \/ HeardRecently

Init ==
    /\ local \in Starts /\ clock = local /\ powered = TRUE
    /\ session = "none" /\ unseen = None /\ captured = None
    /\ synced = None /\ paused = FALSE /\ verdict = None
    /\ sinceOn = None /\ restarted = FALSE /\ shifted = FALSE
    /\ pauses = 0 /\ zones = 0 /\ drift = 0 /\ outages = 0

-----------------------------------------------------------------------------
(* Home Assistant.                                                         *)

\* _async_fresh_snapshot takes _last_frame_at before it opens its session.
Open ==
    /\ session' = "opening" /\ captured' = unseen /\ verdict' = None
    /\ UNCHANGED <<local, device, unseen, sync, history, bounds>>

\* _heard_from_device: a state, clock or routine frame.
Frame ==
    /\ powered /\ session # "none"
    /\ unseen' = 0
    /\ UNCHANGED <<local, device, session, captured, sync, verdict, history,
                   bounds>>

\* The clock is set, by what runs in the session.
Set ==
    /\ session' = "live" /\ clock' = local
    /\ restarted' = FALSE /\ shifted' = FALSE

Keep == session' = "live" /\ UNCHANGED <<clock, sync, restarted, shifted>>

\* _async_sync_clock_if_needed: nothing to correct or a recent failure; the
\* clock is set; or the write fails and retires the session.
Sync(automatic) ==
    LET due == Offset > SyncTolerance /\ ~(automatic /\ paused)
    IN \/ ~due /\ Keep
       \/ due /\ Set /\ synced' = 0 /\ paused' = FALSE
       \/ /\ due
          /\ session' = "none" /\ paused' = (paused \/ automatic)
          /\ UNCHANGED <<clock, synced, restarted, shifted>>

\* The read is complete and judged.  Recovery and a restore set the clock
\* next; a read for the user and the proof of a restore do not.
Judge ==
    /\ powered /\ session = "opening"
    /\ verdict' = ShowsReset
    /\ unseen' = 0 /\ sinceOn' = None
    /\ Keep \/ \E automatic \in BOOLEAN : Sync(automatic)
    /\ UNCHANGED <<local, powered, captured, bounds>>

\* async_sync_clock, the button: always writes.
SyncButton ==
    /\ powered /\ session = "live"
    /\ Set /\ synced' = 0 /\ paused' = FALSE
    /\ UNCHANGED <<local, powered, heard, verdict, sinceOn, bounds>>

CorrectedLately == synced # None /\ synced < RetryInterval

\* _on_response, _async_correct_pushed_clock: drift at most hourly, a large
\* offset at once.
PushedClock ==
    /\ powered /\ session = "live" /\ unseen' = 0
    /\ Offset > SyncTolerance
    /\ CorrectedLately => Offset > ResetOffset
    /\ Sync(TRUE)
    /\ UNCHANGED <<local, powered, captured, verdict, sinceOn, bounds>>

\* Connect or read fails, or the session ends.
SessionEnds ==
    /\ session # "none" /\ session' = "none"
    /\ UNCHANGED <<local, device, heard, sync, verdict, history, bounds>>

\* A restart of Home Assistant forgets when it heard the device.
Forgets_Half == unseen' = None /\ captured' = captured
Forgets == unseen' = None /\ captured' = None

Restart ==
    /\ session' = "none" /\ Forgets
    /\ synced' = None /\ paused' = FALSE /\ verdict' = None
    /\ UNCHANGED <<local, device, history, bounds>>

\* CLOCK_SYNC_RETRY_INTERVAL has passed.
PauseEnds ==
    /\ paused /\ paused' = FALSE
    /\ UNCHANGED <<local, device, session, heard, synced, verdict, history,
                   bounds>>

-----------------------------------------------------------------------------
(* Time, the device and the calendar.                                      *)

Later(age, d) == IF age = None THEN None ELSE age + d

\* The device's clock may run a unit fast in each passage of time.
Elapse(d, fast) ==
    /\ pauses < MaxPauses /\ pauses' = pauses + 1
    /\ fast = 0 \/ powered
    /\ drift + fast <= MaxDrift /\ drift' = drift + fast
    /\ local' = (local + d) % Week
    /\ clock' = IF powered THEN (clock + d + fast) % Week ELSE clock
    /\ unseen' = Later(unseen, d) /\ captured' = Later(captured, d)
    /\ synced' = Later(synced, d)
    /\ sinceOn' = IF powered THEN Later(sinceOn, d) ELSE None
    /\ UNCHANGED <<powered, session, paused, verdict, restarted, shifted, zones,
                   outages>>

\* DST, or another time zone.
ZoneChange ==
    /\ zones < MaxZones /\ zones' = zones + 1
    /\ \E d \in {Hour, -Hour} : local' = (local + d) % Week
    /\ shifted' = TRUE
    /\ UNCHANGED <<device, session, heard, sync, verdict, sinceOn, restarted,
                   pauses, drift, outages>>

PowerOff ==
    /\ powered /\ outages < MaxOutages /\ outages' = outages + 1
    /\ powered' = FALSE /\ session' = "none" /\ sinceOn' = None
    /\ UNCHANGED <<local, clock, heard, sync, verdict, restarted, shifted,
                   pauses, zones, drift>>

\* The clock restarts, possibly a little early.
PowerOn ==
    /\ ~powered /\ powered' = TRUE
    /\ \E time \in {PowerLossClock, PowerLossClock - Early} : clock' = time
    /\ sinceOn' = 0 /\ restarted' = TRUE
    /\ UNCHANGED <<local, session, heard, sync, verdict, shifted, bounds>>

Next ==
    \/ Open
    \/ Frame
    \/ Judge
    \/ PushedClock
    \/ SyncButton
    \/ SessionEnds
    \/ Restart
    \/ PauseEnds
    \/ \E d \in Pauses, fast \in {0, 1} : Elapse(d, fast)
    \/ ZoneChange
    \/ PowerOff
    \/ PowerOn

Spec == Init /\ [][Next]_vars

-----------------------------------------------------------------------------
Ages == Nat \cup {None}

\* Types; a session that is not live or judged has no verdict, and what was
\* captured before a session is never younger than the last frame.
TypeOK ==
    /\ local \in 0..Week - 1 /\ clock \in 0..Week - 1 /\ powered \in BOOLEAN
    /\ session \in {"none", "opening", "live"}
    /\ unseen \in Ages /\ captured \in Ages /\ synced \in Ages
    /\ sinceOn \in Ages /\ restarted \in BOOLEAN /\ shifted \in BOOLEAN
    /\ paused \in BOOLEAN
    /\ verdict \in BOOLEAN \cup {None}
    /\ pauses \in 0..MaxPauses /\ zones \in 0..MaxZones
    /\ drift \in 0..MaxDrift /\ outages \in 0..MaxOutages
    /\ session = "opening" => verdict = None
    /\ captured # None => unseen # None /\ unseen <= captured

Judged == verdict = None /\ verdict' # None
Unheard == captured = None \/ captured >= sinceOn

\* A device that lost power is recognised by its clock at the first complete
\* read, as long as its clock ran no longer than RESET_WINDOW_MAX, is far off,
\* not by whole hours (unless it was heard within the last hour), and no
\* session that failed heard it meanwhile (_async_fresh_snapshot, _is_reset).
PowerLossSeen ==
    [][Judged /\ sinceOn # None /\ Unheard /\ sinceOn + drift <= WindowMax
       /\ Offset > ResetOffset /\ (~WholeHours(Offset) \/ HeardRecently)
          => verdict']_vars

\* Without a power loss no read takes the clock for a restarted one, whatever
\* DST changes and small drift add up to, unless Home Assistant heard the
\* device within the last hour and the local time changed (_is_reset).
DstIsNoReset ==
    [][Judged /\ verdict' /\ drift <= HourTolerance
          => restarted \/ (shifted /\ HeardRecently)]_vars

=============================================================================
