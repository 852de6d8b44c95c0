------------------------------ MODULE LedProofs ------------------------------
(***************************************************************************)
(* Proofs that the safety properties of Led hold for every download size   *)
(* and every set of shown patterns.                                        *)
(*                                                                         *)
(* The recursive mutex is taken once or twice, by functions that call each *)
(* other.  The invariant ties its owner and depth to the control points of *)
(* the two tasks (Locks), says what the register writes done so far have   *)
(* put on the channels (Registers, OneColour), and why no frame can follow *)
(* a final colour (Final).                                                 *)
(***************************************************************************)
EXTENDS Led, TLAPS

\* Which control points belong to which task, and to which operation of main.
MainPoints == {"start", "idle", "solid", "paint", "painted", "frame",
               "frame_end", "stop_delay"}
LedPoints  == {"none", "sleep", "frame", "paint", "frame_end", "exit"}
Control ==
    /\ pc["main"] \in MainPoints /\ pc["led"] \in LedPoints
    /\ pc["main"] = "solid" => op = "solid"
    /\ pc["main"] \in {"frame", "frame_end"} => op = "update"
    /\ pc["main"] = "painted" => op # "update"
    /\ pc["main"] = "stop_delay" => op = "other"
    /\ s_led_task <=> pc["led"] # "none"
    /\ \A t \in Tasks : pc[t] # "paint" => step[t] = 0

\* How often task t has taken the mutex, from where it is: led_set_color takes
\* it once more within a frame or within led_show_solid.
Outer(t) == IF t = "led" \/ op \in {"solid", "update"} THEN 1 ELSE 0
Inner(t) == IF step[t] = 0 THEN 0 ELSE 1
Held(t)  == IF pc[t] = "paint" THEN Outer(t) + Inner(t)
            ELSE IF pc[t] = "frame_end" THEN 1
            ELSE IF pc[t] = "painted" /\ op = "solid" THEN 1 ELSE 0
Locks == \A t \in Tasks : Held(t) = IF owner = t THEN depth ELSE 0

\* The writes that led_set_color has done are on the channels; between two
\* calls of it the channels agree.
Registers ==
    \A t \in Tasks : \A c \in Channels :
        /\ c < step[t] => duty[c] = painting[t]
        /\ c + 3 < step[t] => out[c] = painting[t]
OneColour ==
    (\A t \in Tasks : step[t] = 0) => \A c, d \in Channels : out[c] = out[d]

\* A final colour stops the animation before it is painted: a frame that began
\* earlier is over once main has the mutex.
Colour == IF op = "solid" THEN "solid" ELSE "green"
Final ==
    op \in {"solid", "success"} /\ pc["main"] \in {"paint", "painted", "idle"} =>
        /\ pattern \notin Animated
        /\ pc["led"] = "paint" =>
              op = "success" /\ pc["main"] = "paint" /\ step["main"] = 0
        /\ pc["main"] = "paint" => painting["main"] = Colour
        /\ pc["main"] # "paint" => \A c \in Channels : out[c] = Colour

\* The rainbow shows the percentage of what has been counted.
Rainbow == pattern = "DOWNLOAD_RAINBOW" => progress_percent = Percent(downloaded)

IInv == /\ TypeOK /\ Control /\ Locks /\ Registers /\ OneColour /\ Final
        /\ Rainbow

USE ExpectedAssumption, ChunkAssumption, BytesAssumption, ShownAssumption,
    WidthAssumption
    DEF ledState, mutex, regs, taskVars, ctrl, Tasks, Channels, Animated,
        Patterns, Colours, MainPoints, LedPoints

-----------------------------------------------------------------------------
(* Lemmas about the percentage *)

\* Integer division is monotone.
LEMMA DivMonotone ==
  ASSUME NEW a \in Nat, NEW b \in Nat, a <= b, NEW e \in Nat, e > 0
  PROVE  /\ a \div e \in Nat /\ b \div e \in Nat /\ a \div e <= b \div e
<1> DEFINE p == a \div e
           q == b \div e
<1>1. p \in Int /\ q \in Int
  OBVIOUS
<1>2. e * p <= a /\ e * q <= b /\ b < e * q + e
  OBVIOUS
<1>3. p >= 0 /\ q >= 0
  OBVIOUS
<1> HIDE DEF p, q
<1>4. p <= q
  <2> SUFFICES ASSUME p >= q + 1 PROVE FALSE
    BY <1>1
  <2>1. e * p >= e * (q + 1) /\ e * (q + 1) = e * q + e
    BY <1>1
  <2> QED BY <1>1, <1>2, <2>1
<1> QED BY <1>1, <1>3, <1>4 DEF p, q

\* update_led_progress keeps the percentage within 0 to 100.
LEMMA PercentType ==
  ASSUME NEW bytes \in Nat
  PROVE  Percent(bytes) \in 0..100
<1>1. Quotient(bytes) \in Nat
  BY DivMonotone DEF Quotient
<1>2. Quotient(bytes) % Width \in 0..(Width - 1)
  BY <1>1
<1> QED BY <1>2 DEF Percent

\* A value that grows without passing a multiple of w has a remainder that does
\* not fall, and it never passes fewer of them.
LEMMA ModMonotone ==
  ASSUME NEW p \in Nat, NEW q \in Nat, p <= q, NEW w \in Nat, w > 0
  PROVE  q \div w > p \div w \/ p % w <= q % w
<1>1. p \div w \in Nat /\ q \div w \in Nat /\ p \div w <= q \div w
  BY DivMonotone
<1>2. \A n \in Nat : n = w * (n \div w) + (n % w)
  OBVIOUS
<1>3. p % w \in Int /\ q % w \in Int
  OBVIOUS
<1>4. CASE p \div w = q \div w
  BY <1>1, <1>2, <1>3, <1>4
<1> QED BY <1>1, <1>4

\* The percentage does not fall unless the quotient passes what its uint8_t
\* holds.
LEMMA PercentMonotone ==
  ASSUME NEW x \in Nat, NEW y \in Nat, x <= y,
         ~(Quotient(y) \div Width > Quotient(x) \div Width)
  PROVE  Percent(x) <= Percent(y)
<1> DEFINE p == Quotient(x)
           q == Quotient(y)
<1>1. p \in Nat /\ q \in Nat /\ p <= q
  BY DivMonotone DEF Quotient
<1> HIDE DEF p, q
<1>2. p % Width \in Nat /\ q % Width \in Nat /\ p % Width <= q % Width
  BY <1>1, ModMonotone DEF p, q
<1> QED BY <1>2 DEF Percent, p, q

-----------------------------------------------------------------------------
(* Every action preserves the invariant: led_set_color and the frames *)

\* Only the task that holds the mutex can be past its first write.
LEMMA OnePainter ==
  ASSUME IInv, NEW t \in Tasks, NEW u \in Tasks, u # t, Held(t) # 0
  PROVE  /\ owner = t /\ depth = Held(t) /\ Held(u) = 0 /\ step[u] = 0
         /\ pc[u] # "frame_end" /\ (pc[u] = "paint" => u = "main")
<1>1. owner = t /\ depth = Held(t) /\ Held(u) = 0
  BY DEF IInv, Locks
<1>2. step[u] \in 0..7 /\ (pc[u] # "paint" => step[u] = 0)
  BY DEF IInv, TypeOK, Control
<1> QED BY <1>1, <1>2 DEF Held, Outer, Inner

LEMMA PaintTakeStep ==
  ASSUME IInv, NEW t \in Tasks, PaintTake(t)
  PROVE  IInv'
<1>1. /\ pc[t] = "paint" /\ step[t] = 0 /\ owner \in {"free", t}
      /\ owner' = t /\ depth' = depth + 1 /\ step' = [step EXCEPT ![t] = 1]
      /\ UNCHANGED <<ledState, regs, taskVars, pc, painting, op, downloaded>>
  BY DEF PaintTake, Take, MayTake
<1>2. /\ step \in [Tasks -> 0..7] /\ depth \in 0..2
      /\ owner = "free" <=> depth = 0
  BY DEF IInv, TypeOK
<1>3. depth = Outer(t) /\ \A u \in Tasks : u # t => Held(u) = 0
  <2>1. Held(t) = Outer(t) /\ Outer(t) \in 0..1
    BY <1>1 DEF Held, Outer, Inner
  <2>2. \A u \in Tasks : Held(u) = IF owner = u THEN depth ELSE 0
    BY DEF IInv, Locks
  <2> QED BY <1>1, <1>2, <2>1, <2>2
<1>4. \A u \in Tasks : Outer(u)' = Outer(u) /\ Outer(u) \in 0..1
  BY <1>1 DEF Outer
<1>5. TypeOK'
  BY <1>1, <1>2, <1>3, <1>4 DEF IInv, TypeOK
<1>6. Locks'
  BY <1>1, <1>2, <1>3, <1>4 DEF Locks, Held, Inner
<1>7. Control' /\ Rainbow'
  BY <1>1, <1>2 DEF IInv, Control, Rainbow, Percent, Quotient
<1>8. Registers' /\ OneColour'
  BY <1>1, <1>2 DEF IInv, Registers, OneColour
<1>9. Final'
  <2>1. pc["led"] = "paint" => t = "led" \/ Held("led") # 0
    BY <1>2 DEF Held, Outer, Inner
  <2> QED BY <1>1, <1>2, <1>3, <2>1 DEF IInv, Final, Colour
<1> QED BY <1>5, <1>6, <1>7, <1>8, <1>9 DEF IInv

LEMMA PaintWriteStep ==
  ASSUME IInv, NEW t \in Tasks, PaintWrite(t)
  PROVE  IInv'
<1> DEFINE k == step[t]
<1>1. /\ pc[t] = "paint" /\ k \in 1..6 /\ step' = [step EXCEPT ![t] = k + 1]
      /\ \/ /\ k <= 3 /\ UNCHANGED out
            /\ duty' = [duty EXCEPT ![k] = painting[t]]
         \/ /\ k > 3 /\ UNCHANGED duty
            /\ out' = [out EXCEPT ![k - 3] = duty[k - 3]]
      /\ UNCHANGED <<ledState, mutex, taskVars, pc, painting, op, downloaded>>
  BY DEF PaintWrite
<1>2. /\ step \in [Tasks -> 0..7] /\ painting \in [Tasks -> Colours]
      /\ duty \in [Channels -> Colours] /\ out \in [Channels -> Colours]
  BY DEF IInv, TypeOK
<1> HIDE DEF k
<1>3. k + 1 \in 0..7 /\ (k <= 3 => k \in Channels) /\ (k > 3 => k - 3 \in Channels)
  BY <1>1
<1>4. \A u \in Tasks : u # t => step[u] = 0 /\ step'[u] = 0
  <2>1. Held(t) # 0
    BY <1>1 DEF Held, Outer, Inner, k
  <2> QED BY <1>1, <1>2, <2>1, OnePainter
<1>5. TypeOK'
  <2>1. step' \in [Tasks -> 0..7]
    BY <1>1, <1>2, <1>3
  <2>2. duty' \in [Channels -> Colours] /\ out' \in [Channels -> Colours]
    BY <1>1, <1>2, <1>3
  <2> QED BY <1>1, <2>1, <2>2 DEF IInv, TypeOK
<1>6. Locks'
  BY <1>1, <1>2 DEF IInv, Locks, Held, Outer, Inner, k
<1>7. Control' /\ Rainbow'
  BY <1>1, <1>2 DEF IInv, Control, Rainbow, Percent, Quotient
<1>8. Registers'
  <2>1. \A c \in Channels : /\ c < k => duty[c] = painting[t]
                            /\ c + 3 < k => out[c] = painting[t]
    BY DEF IInv, Registers, k
  <2>2. \A c \in Channels : /\ c < k + 1 => duty'[c] = painting[t]
                            /\ c + 3 < k + 1 => out'[c] = painting[t]
    BY <1>1, <1>2, <1>3, <2>1
  <2> QED BY <1>1, <1>2, <1>4, <2>2 DEF Registers
<1>9. OneColour'
  BY <1>1, <1>2 DEF OneColour
<1>10. Final'
  <2>1. k > 0 /\ step'[t] > 0
    BY <1>1, <1>2
  <2> QED BY <1>1, <1>2, <2>1 DEF IInv, Final, Colour, k
<1> QED BY <1>5, <1>6, <1>7, <1>8, <1>9, <1>10 DEF IInv

LEMMA PaintGiveStep ==
  ASSUME IInv, NEW t \in Tasks, PaintGive(t)
  PROVE  IInv'
<1>1. /\ pc[t] = "paint" /\ step[t] = 7 /\ step' = [step EXCEPT ![t] = 0]
      /\ owner' = (IF depth = 1 THEN "free" ELSE owner) /\ depth' = depth - 1
      /\ pc' = [pc EXCEPT ![t] = IF t = "led" \/ op = "update"
                                   THEN "frame_end" ELSE "painted"]
      /\ UNCHANGED <<ledState, regs, taskVars, painting, op, downloaded>>
  BY DEF PaintGive, Give, Goto
<1>2. /\ step \in [Tasks -> 0..7] /\ depth \in 0..2
      /\ owner = "free" <=> depth = 0
  BY DEF IInv, TypeOK
<1>3. /\ owner = t /\ depth = Outer(t) + 1
      /\ \A u \in Tasks : u # t => Held(u) = 0 /\ step[u] = 0
  <2>1. Held(t) = Outer(t) + 1 /\ Outer(t) \in 0..1
    BY <1>1 DEF Held, Outer, Inner
  <2> QED BY <2>1, OnePainter
<1>4. TypeOK'
  BY <1>1, <1>2, <1>3 DEF IInv, TypeOK
<1>5. Control' /\ Rainbow'
  BY <1>1, <1>2 DEF IInv, TypeOK, Control, Rainbow, Percent, Quotient
<1>6. Locks'
  <2>1. Held(t)' = Outer(t) /\ Outer(t) \in 0..1
    BY <1>1, <1>2 DEF IInv, TypeOK, Held, Outer
  <2>2. \A u \in Tasks : u # t => Held(u)' = 0
    BY <1>1, <1>2, <1>3 DEF IInv, TypeOK, Held, Outer, Inner
  <2> QED BY <1>1, <1>2, <1>3, <2>1, <2>2 DEF Locks
<1>7. \A c \in Channels : out[c] = painting[t] /\ out'[c] = painting[t]
  BY <1>1 DEF IInv, Registers
<1>8. Registers' /\ OneColour'
  BY <1>1, <1>2, <1>7 DEF IInv, Registers, OneColour
<1>9. Final'
  BY <1>1, <1>2, <1>7 DEF IInv, TypeOK, Final, Colour
<1> QED BY <1>4, <1>5, <1>6, <1>8, <1>9 DEF IInv

\* A frame begins with the mutex and reads the pattern under it.
LEMMA FrameBeginStep ==
  ASSUME IInv, NEW t \in Tasks, FrameBegin(t)
  PROVE  IInv'
<1>1. /\ pc[t] = "frame" /\ owner \in {"free", t}
      /\ owner' = t /\ depth' = depth + 1
      /\ \/ /\ pattern \in Animated
            /\ painting' = [painting EXCEPT ![t] = "frame"]
            /\ pc' = [pc EXCEPT ![t] = "paint"]
         \/ pc' = [pc EXCEPT ![t] = "frame_end"] /\ UNCHANGED painting
      /\ UNCHANGED <<ledState, regs, taskVars, step, op, downloaded>>
  BY DEF FrameBegin, Take, MayTake, Goto
<1>2. /\ step \in [Tasks -> 0..7] /\ depth \in 0..2
      /\ owner = "free" <=> depth = 0
      /\ step[t] = 0 /\ (t = "main" => op = "update")
  BY <1>1 DEF IInv, TypeOK, Control
<1>3. depth = 0 /\ \A u \in Tasks : u # t => Held(u) = 0
  BY <1>1, <1>2 DEF IInv, Locks, Held
<1>4. TypeOK'
  BY <1>1, <1>2, <1>3 DEF IInv, TypeOK
<1>5. Control' /\ Rainbow'
  BY <1>1, <1>2 DEF IInv, TypeOK, Control, Rainbow, Percent, Quotient
<1>6. Locks'
  <2>1. Held(t)' = 1
    BY <1>1, <1>2 DEF IInv, TypeOK, Held, Outer, Inner
  <2>2. \A u \in Tasks : u # t => Held(u)' = 0
    BY <1>1, <1>3 DEF IInv, TypeOK, Held, Outer, Inner
  <2> QED BY <1>1, <1>3, <2>1, <2>2 DEF Locks
<1>7. Registers' /\ OneColour'
  BY <1>1, <1>2 DEF IInv, TypeOK, Registers, OneColour
<1>8. Final'
  BY <1>1, <1>2 DEF IInv, TypeOK, Final, Colour
<1> QED BY <1>4, <1>5, <1>6, <1>7, <1>8 DEF IInv

LEMMA FrameEndStep ==
  ASSUME IInv, NEW t \in Tasks, FrameEnd(t)
  PROVE  IInv'
<1>1. /\ pc[t] = "frame_end"
      /\ owner' = (IF depth = 1 THEN "free" ELSE owner) /\ depth' = depth - 1
      /\ pc' = [pc EXCEPT ![t] = IF t = "led" THEN "sleep" ELSE "idle"]
      /\ UNCHANGED <<ledState, regs, taskVars, painting, step, op, downloaded>>
  BY DEF FrameEnd, Give, Goto
<1>2. /\ owner = t /\ depth = 1 /\ \A u \in Tasks : u # t => Held(u) = 0
  <2>1. Held(t) = 1
    BY <1>1 DEF Held
  <2> QED BY <2>1, OnePainter
<1>3. t = "main" => op = "update"
  BY <1>1 DEF IInv, Control
<1>4. TypeOK'
  BY <1>1, <1>2 DEF IInv, TypeOK
<1>5. Control' /\ Rainbow'
  BY <1>1 DEF IInv, TypeOK, Control, Rainbow, Percent, Quotient
<1>6. Locks'
  BY <1>1, <1>2, <1>3 DEF IInv, TypeOK, Locks, Held, Outer, Inner
<1>7. Registers' /\ OneColour'
  BY <1>1 DEF IInv, Registers, OneColour
<1>8. Final'
  BY <1>1, <1>3 DEF IInv, TypeOK, Final, Colour
<1> QED BY <1>4, <1>5, <1>6, <1>7, <1>8 DEF IInv

-----------------------------------------------------------------------------
(* The tasks and the operations of main *)

\* The animation task is created, told to stop, and ends between two frames.
LEMMA TaskSteps ==
  ASSUME IInv, StartTask \/ StopTask \/ StopDelay \/ LedWake \/ LedExit
  PROVE  IInv'
<1>1. /\ UNCHANGED <<ledState, mutex, regs, painting, step, downloaded>>
  BY DEF StartTask, StopTask, StopDelay, LedWake, LedExit
<1>2. s_led_task' \in BOOLEAN /\ s_led_task_stop' \in BOOLEAN
  BY Zenon DEF StartTask, StopTask, StopDelay, LedWake, LedExit, IInv, TypeOK
<1>3. CASE StartTask \/ StopTask
  <2>1. /\ op' = "other" /\ pc["main"] \in {"idle", "start"}
        /\ pc' \in [Tasks -> MainPoints \cup LedPoints]
        /\ pc'["main"] \in {"idle", "stop_delay"}
        /\ \/ pc'["led"] = pc["led"] /\ s_led_task' = s_led_task
           \/ pc["led"] = "none" /\ pc'["led"] = "sleep" /\ s_led_task'
    BY <1>3 DEF StartTask, StopTask, Goto, IInv, TypeOK, Control
  <2>2. TypeOK'
    BY <1>1, <1>2, <2>1 DEF IInv, TypeOK
  <2>3. Control' /\ Rainbow'
    BY <1>1, <2>1 DEF IInv, Control, Rainbow, Percent, Quotient
  <2>4. Locks'
    <3>1. Held("main") = 0 /\ Held("main")' = 0
      BY <2>1 DEF Held
    <3>2. Held("led")' = Held("led")
      BY <1>1, <2>1 DEF IInv, Control, Held, Outer, Inner
    <3> QED BY <1>1, <3>1, <3>2 DEF IInv, Locks
  <2> QED BY <1>1, <2>1, <2>2, <2>3, <2>4
          DEF IInv, Registers, OneColour, Final
<1>4. CASE StopDelay \/ LedWake \/ LedExit
  <2>1. /\ op' = op /\ pc' \in [Tasks -> MainPoints \cup LedPoints]
        /\ \/ pc'["main"] = pc["main"]
           \/ pc["main"] = "stop_delay" /\ pc'["main"] = "idle"
        /\ \/ pc'["led"] = pc["led"] /\ s_led_task' = s_led_task
           \/ /\ pc["led"] = "sleep" /\ pc'["led"] \in {"exit", "frame"}
              /\ s_led_task' = s_led_task
           \/ pc["led"] = "exit" /\ pc'["led"] = "none" /\ ~s_led_task'
    BY <1>4 DEF StopDelay, LedWake, LedExit, Goto, IInv, TypeOK
  <2>2. TypeOK'
    BY <1>1, <1>2, <2>1 DEF IInv, TypeOK
  <2>3. Control' /\ Rainbow'
    BY <1>1, <2>1 DEF IInv, Control, Rainbow, Percent, Quotient
  <2>4. Locks'
    BY <1>1, <2>1 DEF IInv, Locks, Held, Outer, Inner
  <2>5. pc["main"] = "stop_delay" => op = "other"
    BY DEF IInv, Control
  <2> QED BY <1>1, <2>1, <2>2, <2>3, <2>4, <2>5
          DEF IInv, Registers, OneColour, Final, Colour
<1> QED BY <1>3, <1>4

\* An operation of main begins: it stores a pattern, a colour to paint, or both,
\* and holds nothing yet.
LEMMA ShowSteps ==
  ASSUME IInv,
         \/ SetColor \/ ShowSolid \/ ShowSuccess \/ Update \/ ReportProgress
         \/ \E p \in Shown : ShowPattern(p)
         \/ \E percent \in Percents : ShowProgress(percent)
  PROVE  IInv'
<1>1. /\ UNCHANGED <<mutex, regs, taskVars, step>>
      /\ pc["main"] = "idle" /\ step["main"] = 0
      /\ \/ pc' = [pc EXCEPT !["main"] = pc'["main"]] \/ pc' = pc
      /\ \/ op' = "other" /\ pc'["main"] \in {"idle", "paint"}
         \/ op' = "solid" /\ pc'["main"] = "solid"
         \/ /\ op' = "success" /\ pc'["main"] = "paint"
            /\ pattern' = "SUCCESS" /\ painting'["main"] = "green"
         \/ op' = "progress" /\ pc'["main"] \in {"idle", "paint"}
         \/ op' = "update" /\ pc'["main"] \in {"idle", "frame"}
  BY DEF SetColor, ShowSolid, ShowSuccess, Update, ReportProgress, ShowPattern,
         ShowProgress, Goto, IInv, TypeOK, Control
<1>2. /\ pattern' \in Patterns
      /\ painting' \in [Tasks -> Colours] /\ painting'["led"] = painting["led"]
  BY DEF SetColor, ShowSolid, ShowSuccess, Update, ReportProgress, ShowPattern,
         ShowProgress, IInv, TypeOK
<1>3. /\ downloaded' \in 0..MaxBytes /\ progress_percent' \in 0..(Width - 1)
      /\ pattern' = "DOWNLOAD_RAINBOW" => progress_percent' \in 0..100
      /\ Rainbow'
  <2>1. CASE ReportProgress
    <3>1. /\ downloaded' = downloaded + Chunk /\ downloaded + Chunk <= MaxBytes
          /\ progress_percent' = Percent(downloaded')
      BY <2>1 DEF ReportProgress
    <3>2. downloaded' \in 0..MaxBytes /\ downloaded' \in Nat
      BY <3>1 DEF IInv, TypeOK
    <3>3. progress_percent' \in 0..100
      BY <3>1, <3>2, PercentType
    <3>4. progress_percent' \in 0..(Width - 1)
      BY <3>3
    <3> QED BY <3>1, <3>2, <3>3, <3>4 DEF Rainbow, Percent, Quotient
  <2>2. CASE \E percent \in Percents : ShowProgress(percent)
    BY <2>2 DEF ShowProgress, Percents, IInv, TypeOK, Rainbow
  <2>3. CASE \/ SetColor \/ ShowSolid \/ ShowSuccess \/ Update
             \/ \E p \in Shown : ShowPattern(p)
    BY <2>3 DEF SetColor, ShowSolid, ShowSuccess, Update, ShowPattern, IInv,
                TypeOK, Rainbow, Percent, Quotient
  <2> QED BY <2>1, <2>2, <2>3
<1>4. pc' \in [Tasks -> MainPoints \cup LedPoints] /\ pc'["led"] = pc["led"]
  BY <1>1 DEF IInv, TypeOK
<1>5. TypeOK'
  BY <1>1, <1>2, <1>3, <1>4 DEF IInv, TypeOK
<1>6. Control'
  BY <1>1, <1>4 DEF IInv, Control
<1>7. Locks'
  <2>1. Held("main") = 0 /\ Held("main")' = 0
    BY <1>1 DEF Held, Outer, Inner
  <2>2. Held("led")' = Held("led")
    BY <1>1, <1>4 DEF IInv, Control, Held, Outer, Inner
  <2> QED BY <1>1, <2>1, <2>2 DEF IInv, Locks
<1>8. Registers' /\ OneColour'
  BY <1>1, <1>2 DEF IInv, Registers, OneColour
<1>9. Final'
  BY <1>1, <1>4 DEF Final, Colour
<1> QED BY <1>3, <1>5, <1>6, <1>7, <1>8, <1>9 DEF IInv

\* led_show_solid waits for a frame in progress, and none begins behind it.
LEMMA SolidBeginStep ==
  ASSUME IInv, SolidBegin
  PROVE  IInv'
<1>1. /\ pc["main"] = "solid" /\ owner \in {"free", "main"}
      /\ owner' = "main" /\ depth' = depth + 1 /\ pattern' = "NONE"
      /\ painting' = [painting EXCEPT !["main"] = "solid"]
      /\ pc' = [pc EXCEPT !["main"] = "paint"]
      /\ UNCHANGED <<progress_percent, regs, taskVars, step, op, downloaded>>
  BY DEF SolidBegin, Take, MayTake, Goto
<1>2. /\ step \in [Tasks -> 0..7] /\ depth \in 0..2
      /\ owner = "free" <=> depth = 0
      /\ step["main"] = 0 /\ op = "solid"
  BY <1>1 DEF IInv, TypeOK, Control
<1>3. depth = 0 /\ Held("led") = 0 /\ pc["led"] # "paint"
  BY <1>1, <1>2 DEF IInv, Locks, Held, Outer, Inner
<1>4. TypeOK'
  BY <1>1, <1>2, <1>3 DEF IInv, TypeOK
<1>5. Control' /\ Rainbow'
  BY <1>1, <1>2 DEF IInv, TypeOK, Control, Rainbow
<1>6. Locks'
  BY <1>1, <1>2, <1>3 DEF IInv, TypeOK, Locks, Held, Outer, Inner
<1>7. Registers' /\ OneColour'
  BY <1>1, <1>2 DEF IInv, TypeOK, Registers, OneColour
<1>8. Final'
  BY <1>1, <1>2, <1>3 DEF IInv, TypeOK, Final, Colour
<1> QED BY <1>4, <1>5, <1>6, <1>7, <1>8 DEF IInv

LEMMA PaintedStep ==
  ASSUME IInv, Painted
  PROVE  IInv'
<1>1. /\ pc["main"] = "painted" /\ pc' = [pc EXCEPT !["main"] = "idle"]
      /\ IF op = "solid"
           THEN /\ owner' = (IF depth = 1 THEN "free" ELSE owner)
                /\ depth' = depth - 1
           ELSE UNCHANGED mutex
      /\ pattern' = IF op = "progress" THEN "SUCCESS" ELSE pattern
      /\ UNCHANGED <<progress_percent, regs, taskVars, painting, step, op,
                     downloaded>>
  BY DEF Painted, Give, Goto
<1>2. op # "update" /\ step["main"] = 0
  BY <1>1 DEF IInv, Control
<1>3. IF op = "solid" THEN owner = "main" /\ depth = 1 ELSE owner # "main"
  BY <1>1, <1>2 DEF IInv, TypeOK, Locks, Held
<1>4. TypeOK'
  BY <1>1, <1>3 DEF IInv, TypeOK
<1>5. Control' /\ Rainbow'
  BY <1>1 DEF IInv, TypeOK, Control, Rainbow, Percent, Quotient
<1>6. Locks'
  BY <1>1, <1>3 DEF IInv, TypeOK, Locks, Held, Outer, Inner
<1>7. Registers' /\ OneColour'
  BY <1>1 DEF IInv, Registers, OneColour
<1>8. Final'
  BY <1>1 DEF IInv, TypeOK, Final, Colour
<1> QED BY <1>4, <1>5, <1>6, <1>7, <1>8 DEF IInv

LEMMA InitInv == Init => IInv
<1> SUFFICES ASSUME Init PROVE IInv
  OBVIOUS
<1>1. s_led_task \in BOOLEAN /\ s_led_task_stop \in BOOLEAN
  BY Zenon DEF Init
<1>2. TypeOK
  BY <1>1 DEF Init, TypeOK
<1> QED BY <1>2 DEF Init, IInv, Control, Locks, Held, Registers, OneColour,
                    Final, Rainbow

LEMMA StepInv == IInv /\ [Next]_vars => IInv'
<1> SUFFICES ASSUME IInv, [Next]_vars PROVE IInv'
  OBVIOUS
<1>1. CASE UNCHANGED vars
  BY <1>1 DEF vars, IInv, TypeOK, Control, Locks, Held, Outer, Inner, Registers,
              OneColour, Final, Colour, Rainbow, Percent, Quotient
<1>2. CASE Next
  BY <1>2, PaintTakeStep, PaintWriteStep, PaintGiveStep, FrameBeginStep,
     FrameEndStep, TaskSteps, ShowSteps, SolidBeginStep, PaintedStep
     DEF Next, MainTask, LedTask, MainOp, Shared
<1> QED BY <1>1, <1>2

LEMMA Invariance == Spec => []IInv
  BY InitInv, StepInv, PTL DEF Spec

-----------------------------------------------------------------------------
(* Theorems *)

\* Every variable keeps its range: the clamped percentage, and the recursion of
\* s_ledc_mutex, which led_set_color takes at most once more.
THEOREM TypeCorrect == Spec => []TypeOK
  BY Invariance, PTL DEF IInv

\* Whenever s_ledc_mutex is free the three channels show one colour.
THEOREM ColoursDoNotMix == Spec => []NoMixedColour
<1>1. ASSUME IInv PROVE NoMixedColour
  <2>1. ASSUME owner = "free" PROVE \A t \in Tasks : step[t] = 0
    <3> SUFFICES ASSUME NEW t \in Tasks PROVE step[t] = 0
      OBVIOUS
    <3>1. Held(t) = 0
      BY <1>1, <2>1 DEF IInv, Locks
    <3> QED BY <1>1, <3>1 DEF IInv, Control, Held, Outer, Inner
  <2> QED BY <1>1, <2>1 DEF IInv, OneColour, NoMixedColour
<1> QED BY <1>1, Invariance, PTL

\* After led_show_solid or led_show_success no frame repaints the colour.
THEOREM FinalColourStays == Spec => []SolidSurvives
<1>1. IInv => SolidSurvives
  BY DEF IInv, Final, Colour, SolidSurvives
<1> QED BY <1>1, Invariance, PTL

\* The percentage of update_led_progress falls only when the quotient passes a
\* multiple of 256, however many bytes are counted.
THEOREM RainbowSlowsOnlyAtWrap == Spec => DropsOnlyAtWrap
<1>1. ASSUME IInv, [Next]_vars, downloaded' # downloaded,
             pattern = "DOWNLOAD_RAINBOW", progress_percent' < progress_percent
      PROVE  Quotient(downloaded') \div Width > Quotient(downloaded) \div Width
  <2>1. ReportProgress
    BY <1>1 DEF vars, Next, MainTask, LedTask, MainOp, Shared, PaintTake,
         PaintWrite, PaintGive, FrameBegin, FrameEnd, StartTask, StopTask,
         StopDelay, LedWake, LedExit, SetColor, ShowSolid, SolidBegin,
         ShowSuccess, Painted, Update, ShowPattern, ShowProgress
  <2>2. /\ progress_percent = Percent(downloaded)
        /\ progress_percent' = Percent(downloaded')
        /\ downloaded \in Nat /\ downloaded' \in Nat
        /\ downloaded <= downloaded'
    BY <1>1, <2>1 DEF ReportProgress, IInv, TypeOK, Rainbow
  <2>3. Percent(downloaded) \in 0..100 /\ Percent(downloaded') \in 0..100
    BY <2>2, PercentType
  <2>4. ~(Percent(downloaded) <= Percent(downloaded'))
    BY <1>1, <2>2, <2>3
  <2> QED BY <2>2, <2>4, PercentMonotone
<1>2. IInv /\ [Next]_vars =>
        [downloaded' # downloaded /\ pattern = "DOWNLOAD_RAINBOW"
         /\ progress_percent' < progress_percent
         => Quotient(downloaded') \div Width > Quotient(downloaded) \div Width]_vars
  BY <1>1
<1> QED BY <1>2, Invariance, PTL DEF Spec, DropsOnlyAtWrap
=============================================================================
