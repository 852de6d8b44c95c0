--------------------------------- MODULE Led ---------------------------------
(***************************************************************************)
(* simibox_led_idf.c: the main task chooses patterns and colours, the      *)
(* animation task on the other core paints a frame every 10 ms.  They      *)
(* share led_state, written without a lock, and the LEDC registers, which  *)
(* a recursive mutex guards.  Also the percentage that drives the rainbow: *)
(* update_led_progress of simibox_download.cpp.                            *)
(*                                                                         *)
(* A colour is abstracted to what asked for it; all animated frames are    *)
(* one colour.  A frame whose time has not come paints nothing.            *)
(***************************************************************************)
EXTENDS Integers

CONSTANTS Expected,   \* s_total_expected_bytes
          Chunk,      \* bytes of one esp_http_client_read
          MaxBytes,   \* bound: bytes counted over all files
          Shown,      \* patterns main shows with no more than a store
          Width       \* values of a uint8_t (2^8)

ASSUME ExpectedAssumption == Expected \in Nat \ {0}
ASSUME ChunkAssumption    == Chunk \in Nat \ {0}
ASSUME BytesAssumption    == MaxBytes \in Nat
ASSUME ShownAssumption    ==
          Shown \subseteq {"WIFI_CONNECTING", "DOWNLOADING", "ERROR", "RETRY"}
ASSUME WidthAssumption    == Width \in Nat /\ Width > 200

VARIABLES
    pattern, progress_percent,    \* led_state
    owner, depth,                 \* s_ledc_mutex: holder, recursion count
    duty, out,                    \* per channel: duty register, output
    s_led_task, s_led_task_stop,  \* handle (whether it is set) and stop flag
    pc, painting, step,           \* per task: control point, the colour that
                                  \* led_set_color is writing, its next write
    op,                           \* the operation main is in, or did last, if
                                  \* it makes a difference
    downloaded                    \* s_total_downloaded_bytes

ledState == <<pattern, progress_percent>>
mutex    == <<owner, depth>>
regs     == <<duty, out>>
taskVars == <<s_led_task, s_led_task_stop>>
ctrl     == <<pc, painting, step>>
vars == <<ledState, mutex, regs, taskVars, ctrl, op, downloaded>>

Tasks    == {"main", "led"}
Channels == 1..3
Animated == Shown \cup {"DOWNLOAD_RAINBOW", "PROGRESS"}
Patterns == Animated \cup {"NONE", "SUCCESS"}
Colours  == {"off", "direct", "solid", "green", "frame"}

\* Values a caller may give led_show_progress: the ends and the limit.
Percents == {0, 100, Width - 1}

\* In led_init, after led_set_color(0, 0, 0): led_start_task comes next.
Init ==
    /\ pattern = "NONE" /\ progress_percent = 0
    /\ owner = "free" /\ depth = 0
    /\ duty = [c \in Channels |-> "off"] /\ out = [c \in Channels |-> "off"]
    /\ s_led_task = FALSE /\ s_led_task_stop = FALSE
    /\ pc = [t \in Tasks |-> IF t = "main" THEN "start" ELSE "none"]
    /\ painting = [t \in Tasks |-> "off"] /\ step = [t \in Tasks |-> 0]
    /\ op = "other" /\ downloaded = 0

Goto(t, point) == pc' = [pc EXCEPT ![t] = point]

-----------------------------------------------------------------------------
(* The recursive mutex *)

MutPlainMutex(t) == owner = "free"
MayTake(t) == owner \in {"free", t}
Take(t) == MayTake(t) /\ owner' = t /\ depth' = depth + 1
Give(t) == owner' = (IF depth = 1 THEN "free" ELSE owner) /\ depth' = depth - 1

-----------------------------------------------------------------------------
(* led_set_color, by either task: take, three ledc_set_duty, three         *)
(* ledc_update_duty, give                                                  *)

MutPaintUnlocked(t) ==
    /\ pc[t] = "paint" /\ step[t] = 0
    /\ step' = [step EXCEPT ![t] = 1]
    /\ depth' = IF owner = t THEN depth + 1 ELSE depth
    /\ UNCHANGED <<ledState, owner, regs, taskVars, pc, painting, op,
                   downloaded>>
PaintTake(t) ==
    /\ pc[t] = "paint" /\ step[t] = 0
    /\ Take(t)
    /\ step' = [step EXCEPT ![t] = 1]
    /\ UNCHANGED <<ledState, regs, taskVars, pc, painting, op, downloaded>>

PaintWrite(t) ==
    /\ pc[t] = "paint" /\ step[t] \in 1..6
    /\ IF step[t] <= 3
         THEN duty' = [duty EXCEPT ![step[t]] = painting[t]] /\ UNCHANGED out
         ELSE /\ out' = [out EXCEPT ![step[t] - 3] = duty[step[t] - 3]]
              /\ UNCHANGED duty
    /\ step' = [step EXCEPT ![t] = @ + 1]
    /\ UNCHANGED <<ledState, mutex, taskVars, pc, painting, op, downloaded>>

\* Return to the caller: the end of a frame, or of an operation of main.
PaintGive(t) ==
    /\ pc[t] = "paint" /\ step[t] = 7
    /\ Give(t)
    /\ step' = [step EXCEPT ![t] = 0]
    /\ Goto(t, IF t = "led" \/ op = "update" THEN "frame_end" ELSE "painted")
    /\ UNCHANGED <<ledState, regs, taskVars, painting, op, downloaded>>

-----------------------------------------------------------------------------
(* led_animate_step, by the animation task or, without one, by led_update  *)

\* The mutex is taken for the whole frame, then the pattern is read.
FrameBegin(t) ==
    /\ pc[t] = "frame"
    /\ Take(t)
    /\ \/ /\ pattern \in Animated
          /\ painting' = [painting EXCEPT ![t] = "frame"]
          /\ Goto(t, "paint")
       \/ Goto(t, "frame_end") /\ UNCHANGED painting
    /\ UNCHANGED <<ledState, regs, taskVars, step, op, downloaded>>

FrameEnd(t) ==
    /\ pc[t] = "frame_end"
    /\ Give(t)
    /\ Goto(t, IF t = "led" THEN "sleep" ELSE "idle")
    /\ UNCHANGED <<ledState, regs, taskVars, painting, step, op, downloaded>>

-----------------------------------------------------------------------------
(* led_task, led_start_task, led_stop_task *)

\* vTaskDelayUntil, then the stop flag.
LedWake ==
    /\ pc["led"] = "sleep"
    /\ Goto("led", IF s_led_task_stop THEN "exit" ELSE "frame")
    /\ UNCHANGED <<ledState, mutex, regs, taskVars, painting, step, op,
                   downloaded>>

LedExit ==
    /\ pc["led"] = "exit"
    /\ s_led_task' = FALSE
    /\ Goto("led", "none")
    /\ UNCHANGED <<ledState, mutex, regs, s_led_task_stop, painting, step, op,
                   downloaded>>

\* Idempotent; a task that cannot be created leaves led_update as a fallback.
StartTask ==
    /\ pc["main"] \in {"idle", "start"}
    /\ op' = "other"
    /\ \/ s_led_task /\ Goto("main", "idle") /\ UNCHANGED taskVars
       \/ /\ ~s_led_task
          /\ s_led_task_stop' = FALSE
          /\ s_led_task' = TRUE
          /\ pc' = [pc EXCEPT !["main"] = "idle", !["led"] = "sleep"]
       \/ /\ ~s_led_task
          /\ s_led_task_stop' = FALSE
          /\ Goto("main", "idle") /\ UNCHANGED s_led_task
    /\ UNCHANGED <<ledState, mutex, regs, painting, step, downloaded>>

StopTask ==
    /\ pc["main"] = "idle" /\ s_led_task
    /\ op' = "other"
    /\ s_led_task_stop' = TRUE
    /\ Goto("main", "stop_delay")
    /\ UNCHANGED <<ledState, mutex, regs, s_led_task, painting, step,
                   downloaded>>

\* Timing assumption: three frame times outlast the frame in progress and the
\* task's test of the flag.
StopDelay ==
    /\ pc["main"] = "stop_delay" /\ pc["led"] = "none"
    /\ Goto("main", "idle")
    /\ UNCHANGED <<ledState, mutex, regs, taskVars, painting, step, op,
                   downloaded>>

-----------------------------------------------------------------------------
(* Operations of the main task *)

\* led_show_wifi_connecting, _downloading, _error, _retry
ShowPattern(p) ==
    /\ pc["main"] = "idle"
    /\ op' = "other"
    /\ pattern' = p
    /\ UNCHANGED <<progress_percent, mutex, regs, taskVars, ctrl, downloaded>>

\* led_set_color by main: the next frame of an active pattern repaints it.
SetColor ==
    /\ pc["main"] = "idle"
    /\ op' = "other"
    /\ painting' = [painting EXCEPT !["main"] = "direct"]
    /\ Goto("main", "paint")
    /\ UNCHANGED <<ledState, mutex, regs, taskVars, step, downloaded>>

ShowSolid ==
    /\ pc["main"] = "idle"
    /\ op' = "solid"
    /\ Goto("main", "solid")
    /\ UNCHANGED <<ledState, mutex, regs, taskVars, painting, step,
                   downloaded>>

\* led_show_solid holds the mutex around the pattern store and the colour.
MutSolidKeepsPattern ==
    /\ pc["main"] = "solid"
    /\ Take("main")
    /\ painting' = [painting EXCEPT !["main"] = "solid"]
    /\ Goto("main", "paint")
    /\ UNCHANGED <<ledState, regs, taskVars, step, op, downloaded>>
SolidBegin ==
    /\ pc["main"] = "solid"
    /\ Take("main")
    /\ pattern' = "NONE"
    /\ painting' = [painting EXCEPT !["main"] = "solid"]
    /\ Goto("main", "paint")
    /\ UNCHANGED <<progress_percent, regs, taskVars, step, op, downloaded>>

\* led_show_success: no outer lock; the pattern is stored before the colour.
ShowSuccess ==
    /\ pc["main"] = "idle"
    /\ op' = "success"
    /\ pattern' = "SUCCESS"
    /\ painting' = [painting EXCEPT !["main"] = "green"]
    /\ Goto("main", "paint")
    /\ UNCHANGED <<progress_percent, mutex, regs, taskVars, step, downloaded>>

\* led_show_progress, legacy and without a caller: the percentage is stored as
\* it comes; from 100 on it paints green and stores the final pattern last.
ShowProgress(percent) ==
    /\ pc["main"] = "idle"
    /\ op' = "progress"
    /\ pattern' = "PROGRESS" /\ progress_percent' = percent
    /\ IF percent >= 100
         THEN /\ painting' = [painting EXCEPT !["main"] = "green"]
              /\ Goto("main", "paint")
         ELSE UNCHANGED <<painting, pc>>
    /\ UNCHANGED <<mutex, regs, taskVars, step, downloaded>>

\* Back from led_set_color: led_show_solid gives the outer lock, the end of
\* led_show_progress stores its pattern.
Painted ==
    /\ pc["main"] = "painted"
    /\ Goto("main", "idle")
    /\ IF op = "solid" THEN Give("main") ELSE UNCHANGED mutex
    /\ pattern' = IF op = "progress" THEN "SUCCESS" ELSE pattern
    /\ UNCHANGED <<progress_percent, regs, taskVars, painting, step, op,
                   downloaded>>

\* led_update: left to the animation task if there is one.
Update ==
    /\ pc["main"] = "idle"
    /\ op' = "update"
    /\ Goto("main", IF s_led_task THEN "idle" ELSE "frame")
    /\ UNCHANGED <<ledState, mutex, regs, taskVars, painting, step,
                   downloaded>>

\* update_led_progress: the quotient is cut to a uint8_t and then clamped.
Quotient(bytes) == (bytes * 100) \div Expected
MutPercentSigned(bytes) ==
    LET p == Quotient(bytes) % (Width \div 2)
    IN  IF p > 100 THEN 100 ELSE p
MutPercentUnclamped(bytes) == Quotient(bytes) % Width
Percent(bytes) ==
    LET p == Quotient(bytes) % Width
    IN  IF p > 100 THEN 100 ELSE p

\* A read of the download loop: count the bytes, show the percentage, and
\* step the animation if there is no task for it.
ReportProgress ==
    /\ pc["main"] = "idle" /\ downloaded + Chunk <= MaxBytes
    /\ op' = "update"
    /\ downloaded' = downloaded + Chunk
    /\ pattern' = "DOWNLOAD_RAINBOW"
    /\ progress_percent' = Percent(downloaded + Chunk)
    /\ Goto("main", IF s_led_task THEN "idle" ELSE "frame")
    /\ UNCHANGED <<mutex, regs, taskVars, painting, step>>

-----------------------------------------------------------------------------
MainOp ==
    \/ StartTask \/ StopTask \/ StopDelay \/ SetColor \/ ShowSolid
    \/ SolidBegin \/ ShowSuccess \/ Painted \/ Update \/ ReportProgress
    \/ \E p \in Shown : ShowPattern(p)
    \/ \E percent \in Percents : ShowProgress(percent)

Shared(t) == \/ PaintTake(t) \/ PaintWrite(t) \/ PaintGive(t)
             \/ FrameBegin(t) \/ FrameEnd(t)

MainTask == MainOp \/ Shared("main")
LedTask  == LedWake \/ LedExit \/ Shared("led")

Next == MainTask \/ LedTask

Spec == Init /\ [][Next]_vars

\* Both tasks run, each on its own core.  FreeRTOS hands a given mutex to the
\* task that waits for it, so a task that keeps asking gets it.
FairSpec ==
    /\ Spec
    /\ WF_vars(LedTask) /\ WF_vars(MainTask /\ pc["main"] # "idle")
    /\ SF_vars(SolidBegin)
    /\ \A t \in Tasks : SF_vars(PaintTake(t)) /\ SF_vars(FrameBegin(t))

-----------------------------------------------------------------------------
(* Properties *)

\* Every variable keeps its range: the percentage of the rainbow, whose frames
\* compute a time from it, stays within 0 to 100, and the mutex is taken at most
\* twice by one task.
TypeOK ==
    /\ pattern \in Patterns /\ progress_percent \in 0..(Width - 1)
    /\ pattern = "DOWNLOAD_RAINBOW" => progress_percent \in 0..100
    /\ owner \in Tasks \cup {"free"} /\ depth \in 0..2
    /\ (owner = "free") = (depth = 0)
    /\ duty \in [Channels -> Colours] /\ out \in [Channels -> Colours]
    /\ s_led_task \in BOOLEAN /\ s_led_task_stop \in BOOLEAN
    /\ pc \in [Tasks -> {"start", "idle", "solid", "paint", "painted", "frame",
                         "frame_end", "none", "sleep", "exit", "stop_delay"}]
    /\ painting \in [Tasks -> Colours] /\ step \in [Tasks -> 0..7]
    /\ op \in {"other", "solid", "success", "progress", "update"}
    /\ downloaded \in 0..MaxBytes

\* "Static color that survives" (simibox_led_idf.c:168): once led_show_solid or
\* led_show_success has returned, no frame repaints the colour, wherever the
\* animation task was when the pattern changed.
SolidSurvives ==
    pc["main"] = "idle" /\ op \in {"solid", "success"} =>
        \A c \in Channels : out[c] = IF op = "solid" THEN "solid" ELSE "green"

\* The six register writes of two tasks never mix: whenever nobody holds the
\* mutex, the three channels show one colour.
NoMixedColour == owner = "free" => \A c, d \in Channels : out[c] = out[d]

\* A read of the download loop slows the rainbow down only when it takes the
\* quotient of update_led_progress past a multiple of 256, which the uint8_t
\* drops: the clamp hides every other excess, and no other operation of main
\* leaves the rainbow with a percentage that is not that of the bytes counted.
DropsOnlyAtWrap ==
    [][downloaded' # downloaded /\ pattern = "DOWNLOAD_RAINBOW"
         /\ progress_percent' < progress_percent
         => Quotient(downloaded') \div Width > Quotient(downloaded) \div Width]_vars

\* "Accelerating rainbow for download progress!" (simibox_led_idf.c:247): the
\* percentage that sets the speed never falls while files come in.  Violated
\* from 256 per cent on, which the uint8_t does not hold: the files may be much
\* larger than the estimate of 2 MB each (simibox_download.cpp:1218) that
\* stands for sizes the server does not give.
SpeedNeverDrops ==
    [][downloaded' # downloaded /\ pattern = "DOWNLOAD_RAINBOW"
         => progress_percent' >= progress_percent]_vars

\* With FairSpec: every operation of the main task returns; no task waits for
\* ever for the mutex.
OperationsReturn == pc["main"] # "idle" ~> pc["main"] = "idle"
=============================================================================
