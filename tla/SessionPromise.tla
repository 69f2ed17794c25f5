--------------------------- MODULE SessionPromise ---------------------------
(***************************************************************************)
(* What the coordinator promises about its Bluetooth session, as the rest  *)
(* of the integration and the device see it: one session at a time; its    *)
(* state is shown only while it is the live one; it is fully closed before *)
(* the next one, and the next connect starts no sooner than RestTicks      *)
(* after that close.  LumalouSession implements it.                        *)
(***************************************************************************)
EXTENDS Naturals

CONSTANT RestTicks

VARIABLES
    mode,   \* none: no session; live: in use; ending: dropped, not closed yet
    shown,  \* entities show state of the live session
    rest    \* ticks since the last close, up to RestTicks

promiseVars == <<mode, shown, rest>>

Init == mode = "none" /\ shown = FALSE /\ rest = RestTicks

Open ==
    /\ mode = "none" /\ rest = RestTicks
    /\ mode' = "live"
    /\ UNCHANGED <<shown, rest>>

Show ==
    /\ mode = "live"
    /\ shown' = TRUE
    /\ UNCHANGED <<mode, rest>>

Drop ==
    /\ mode = "live"
    /\ mode' = "ending" /\ shown' = FALSE
    /\ UNCHANGED rest

Close ==
    /\ mode = "ending"
    /\ mode' = "none" /\ rest' = 0
    /\ UNCHANGED shown

Rest ==
    /\ rest < RestTicks
    /\ rest' = rest + 1
    /\ UNCHANGED <<mode, shown>>

Next == Open \/ Show \/ Drop \/ Close \/ Rest

Spec == Init /\ [][Next]_promiseVars

=============================================================================
