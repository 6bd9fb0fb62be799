--------------------------- MODULE EmergencyTask ---------------------------
(* emergency_task.rs, on the main thread: two buttons on edge interrupts,   *)
(* the LED and the buzzer, and the status message.                          *)
EXTENDS Locks

VARIABLES
  emergency_stop,  \* the AtomicBool all threads share
  task,            \* where the thread is
  flags,           \* emergency_flag and resume_flag: the buttons that set one
  current_state, last_state,
  led,             \* LED and buzzer
  announced        \* the last emergency/status handed to the MQTT client

taskLocals == <<flags, current_state, last_state>>
taskVars == <<task, taskLocals, led, announced>>

Button == {"emergency_button", "resume_button"}

TaskTypeOK ==
  /\ emergency_stop \in BOOLEAN
  /\ task \in {"off", "arm", "wait", "swap", "show", "lock", "publish"}
  /\ flags \subseteq Button
  /\ current_state \in BOOLEAN /\ last_state \in BOOLEAN
  /\ led \in BOOLEAN
  /\ announced \in BOOLEAN \cup {None}

TaskInit ==
  /\ emergency_stop = FALSE
  /\ task = "off"
  /\ flags = {}
  /\ current_state = FALSE /\ last_state = FALSE
  /\ led = FALSE /\ announced = None

(* A falling edge.  Outside these two places the interrupt is disabled, or  *)
(* the flag it sets is not read before Arm replaces it.                     *)
Press(b) ==
  /\ task \in {"wait", "swap"}
  /\ flags' = flags \cup {b}
  /\ UNCHANGED <<holder, emergency_stop, task, current_state, last_state, led, announced>>

(* New flags, subscribe, enable_interrupt.                                  *)
Arm ==
  /\ task = "arm" /\ task' = "wait"
  /\ flags' = {}
  /\ UNCHANGED <<holder, emergency_stop, current_state, last_state,
                 led, announced>>

(* Woken by a button or after 50 ms: swap one flag, else the other.         *)
FirstFlagResume == "resume_button"
FirstFlag == "emergency_button"
SwapFlag ==
  /\ task \in {"wait", "swap"}
  /\ \E b \in Button :
       /\ task = "wait" <=> b = FirstFlag
       /\ IF b \in flags
            THEN /\ emergency_stop' = (b = "emergency_button")
                 /\ task' = "show"
            ELSE /\ task' = IF task = "wait" THEN "swap" ELSE "show"
                 /\ UNCHANGED emergency_stop
       /\ flags' = flags \ {b}
  /\ UNCHANGED <<holder, current_state, last_state, led, announced>>

(* Load the state; show it when it is not the one shown last.               *)
Show ==
  /\ task = "show"
  /\ current_state' = emergency_stop
  /\ flags' = {}
  /\ led' = IF emergency_stop # last_state THEN emergency_stop ELSE led
  /\ task' = IF emergency_stop # last_state THEN "lock" ELSE "arm"
  /\ UNCHANGED <<holder, emergency_stop, last_state, announced>>

LockClient ==
  /\ task = "lock" /\ task' = "publish"
  /\ Take("client", "emergency")
  /\ UNCHANGED <<emergency_stop, taskLocals, led, announced>>

ShownNow == emergency_stop
Shown == current_state
PublishEmergency ==
  /\ task = "publish" /\ task' = "arm"
  /\ Free("library")
  /\ announced' = current_state
  /\ last_state' = Shown
  /\ Release({"client"})
  /\ UNCHANGED <<emergency_stop, flags, current_state, led>>

TaskStep == Arm \/ SwapFlag \/ Show \/ LockClient \/ PublishEmergency
=============================================================================
