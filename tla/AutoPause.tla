------------------------------ MODULE AutoPause ------------------------------
(***************************************************************************)
(* Who may let the miner run: the user, with keys or the API, and the      *)
(* battery and the activity of the user, which Miner::onTimer looks at if  *)
(* the options say so.  What a change of `enabled` does to the workers is  *)
(* in Mining.                                                              *)
(***************************************************************************)
EXTENDS Integers

VARIABLES
    enabled,                         \* of MinerPrivate
    battery_power, user_active,      \* what the last look has found
    auto_pause,                      \* how many of them want a pause
    pauseOnBattery, pauseOnActive,   \* options of the configuration
    onBattery, userPresent,          \* the machine
    lastWord                         \* whose command came last (history)

pauseVars == <<enabled, battery_power, user_active, auto_pause,
               pauseOnBattery, pauseOnActive, onBattery, userPresent, lastWord>>

PauseInit ==
    /\ enabled = TRUE
    /\ battery_power = FALSE /\ user_active = FALSE /\ auto_pause = 0
    /\ pauseOnBattery \in BOOLEAN /\ pauseOnActive \in BOOLEAN
    /\ onBattery = FALSE /\ userPresent = FALSE
    /\ lastWord = "auto"

-----------------------------------------------------------------------------
\* Mutation of SetEnabled: the battery is not looked at.
SetEnabledAlways(wanted, battery) == enabled' = wanted

\* setEnabled: it can not be resumed while the battery was found in use.
SetEnabled(wanted, battery) ==
    enabled' = IF battery /\ wanted THEN enabled ELSE wanted

\* 'p' and 'r' on the console, pause and resume of the API.
UserCommand ==
    /\ \E wanted \in BOOLEAN : SetEnabled(wanted, battery_power)
    /\ lastWord' = "user"
    /\ UNCHANGED <<battery_power, user_active, auto_pause,
                   pauseOnBattery, pauseOnActive, onBattery, userPresent>>

\* The lambda autoPause of onTimer, for one of the two states.
Found(state, pause, battery) ==
    IF state = pause THEN UNCHANGED <<auto_pause, enabled, lastWord>>
    ELSE /\ auto_pause' = auto_pause + IF pause THEN 1 ELSE -1
         /\ SetEnabled(auto_pause' = 0, battery)
         /\ lastWord' = "auto"

\* The looks of a tick: at the battery, and then at the user.  The machine may
\* change in between, so that the first look may not hold any more at the second.
LookAtBattery ==
    /\ pauseOnBattery
    /\ battery_power' = onBattery
    /\ Found(battery_power, onBattery, battery_power')
    /\ UNCHANGED <<user_active, pauseOnBattery, pauseOnActive, onBattery, userPresent>>

LookAtUser ==
    /\ pauseOnActive
    /\ user_active' = userPresent
    /\ Found(user_active, userPresent, battery_power)
    /\ UNCHANGED <<battery_power, pauseOnBattery, pauseOnActive, onBattery, userPresent>>

\* A configuration with other options.
ChangeOptions ==
    /\ pauseOnBattery' \in BOOLEAN /\ pauseOnActive' \in BOOLEAN
    /\ UNCHANGED <<enabled, battery_power, user_active, auto_pause,
                   onBattery, userPresent, lastWord>>

MachineChanges ==
    /\ onBattery' \in BOOLEAN /\ userPresent' \in BOOLEAN
    /\ UNCHANGED <<enabled, battery_power, user_active, auto_pause,
                   pauseOnBattery, pauseOnActive, lastWord>>

PauseNext ==
    UserCommand \/ LookAtBattery \/ LookAtUser \/ ChangeOptions \/ MachineChanges

PauseSpec == PauseInit /\ [][PauseNext]_pauseVars

-----------------------------------------------------------------------------
\* After any order of commands, looks at the machine and changes of the options: the
\* miner does not run on battery power (as it was last found), and it does what the
\* automatic pauses want unless the user has spoken after them (setEnabled, onTimer).
\* That an automatic pause ends a pause of the user is what the source does.
PausesAgree ==
    /\ battery_power => ~enabled
    /\ lastWord = "auto" => (enabled <=> ~battery_power /\ ~user_active)

=============================================================================
