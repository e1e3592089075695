--------------------------- MODULE OtaPage_proofs ---------------------------
(* Proofs about OtaPage: what the page says of an update is true, for any   *)
(* number of uploads, of this page and of other clients, and of restarts.   *)
EXTENDS OtaPage, Ota_proofs

\* The device under the page is the device of Ota.
LEMMA StepImplements == [PageNext]_allVars => [Next]_vars
  BY DEF PageNext, allVars, Next, Load, Leave, Unload, updateFirmware, updateProgress,
         NoMoreProgress, StatusLost, Show, Tick, CountdownEnds, Serve, Take, Others, Device, Restarts

\* Composed with the page, the device takes no step it would not take without:
\* whatever is proved of Ota holds of the composition.
THEOREM PageImplementsOta == PageSpec => Spec
  <1>1. PageInit => Init
    BY DEF PageInit
  <1> QED
    BY <1>1, StepImplements, PTL DEF PageSpec, Spec

-----------------------------------------------------------------------------
(* The inductive invariant.                                                 *)

\* A success has been reported to the page, or is about to be, only with a
\* timer armed: the monitor does both in one go.
Armed ==
    /\ fw_update_status = 1 => timers > 0
    /\ page = "answered" /\ answer = 1 => timers > 0
    /\ due => timers > 0 /\ chains > 0

\* As long as the last answer is timely nothing happens on the device, and the
\* page has turned it into the countdown unless it still has to read it.
Timely ==
    timely =>
        /\ pc = "idle" /\ queue = <<>>
        /\ page = "answered" => answer = fw_update_status
        /\ page # "answered" /\ outcome = "complete" => due

\* A message, and a timer, come from an upload that ended.
Ended == pc = "send" \/ queue # <<>> \/ timers > 0 => outcome # "none"

PInv == Inv /\ Ended /\ PageTypeOK /\ Armed /\ Timely

\* Every step of the device keeps it so.
LEMMA EndedNext == Inv /\ Ended /\ [Next]_vars => Ended'
  <1> SUFFICES ASSUME Inv, Ended, [Next]_vars PROVE Ended'
    OBVIOUS
  <1> USE DEF Ended, flash, handler, monitor, bounds
  <1>1. CASE UNCHANGED vars
    BY <1>1 DEF vars
  <1>2. CASE Upload \/ Recv \/ RecvTimesOut \/ Begin \/ Write
    BY <1>2 DEF Upload, Recv, RecvTimesOut, Begin, Write, LoopEnds
  <1>3. CASE RecvFails \/ BeginFails
    BY <1>3 DEF RecvFails, BeginFails, GiveUp
  <1>4. CASE End \/ SetBoot
    BY <1>4 DEF End, Validate, Rejected, SetBoot
  <1>5. CASE Send
    BY <1>5 DEF Send
  <1>6. CASE TimeSync \/ Delay
    BY <1>6 DEF TimeSync, Delay
  <1>7. CASE Monitor
    BY <1>7 DEF Monitor
  <1>8. CASE Panic \/ TimerFires \/ PowerCut
    BY <1>8 DEF Panic, TimerFires, PowerCut, Restart
  <1> QED
    BY <1>1, <1>2, <1>3, <1>4, <1>5, <1>6, <1>7, <1>8 DEF Next, Handle

\* A step of the page leaves the device alone.
LEMMA DeviceRests ==
    ASSUME UNCHANGED vars
    PROVE  UNCHANGED <<boot, running, pc, queue, fw_update_status, timers, outcome>>
  BY DEF vars, flash, handler, monitor, bounds

\* What the page may be told, and how far it counts.
LEMMA PageValues ==
    /\ 0 \in Statuses /\ "blank" \in Texts /\ "progress" \in Texts
    /\ "countdown" \in Texts /\ "error" \in Texts
    /\ 0 \in 0..2 /\ 1 \in 0..2 /\ 2 \in 0..2
    /\ 0 \in Nat /\ \A n \in Nat : n + 1 \in Nat
  BY DEF Statuses, Texts

\* A page that has just been left claims nothing.
LEMMA UnloadInv == ASSUME PInv, Unload PROVE (PageTypeOK /\ Armed /\ Timely)'
  <1>1. PageTypeOK'
    BY PageValues DEF PInv, PageTypeOK, Unload
  <1>2. UNCHANGED <<fw_update_status, timers>>
    BY DeviceRests DEF Unload
  <1>3. Armed' /\ Timely'
    BY <1>2 DEF PInv, Armed, Timely, Unload
  <1> QED
    BY <1>1, <1>3

\* The page reads an answer.
LEMMA ShowInv == ASSUME PInv, Show PROVE (PageTypeOK /\ Armed /\ Timely)'
  <1>1. chains \in 0..2
    BY DEF PInv, PageTypeOK
  <1>0. /\ page \in {"answered", "late"} /\ page' = "ready"
        /\ UNCHANGED <<pc, queue, fw_update_status, timers, outcome, answer, events, posts, timely>>
    BY DeviceRests DEF Show
  <1>5. \/ answer = 1 /\ shown' = "countdown" /\ chains' = (IF chains = 0 THEN 1 ELSE 2)
           /\ due' = (due \/ page = "answered")
        \/ answer # 1 /\ shown' \in {shown, "error"} /\ UNCHANGED <<chains, due>>
    BY DEF Show, text
  <1>2. PageTypeOK'
    BY <1>0, <1>5, PageValues DEF PInv, PageTypeOK
  <1>3. Armed'
    <2>1. CASE answer = 1
      <3>1. chains' > 0
        BY <1>5, <2>1
      <3>2. due' = (due \/ page = "answered")
        BY <1>5, <2>1
      <3>3. due' => timers > 0
        BY <2>1, <3>2 DEF PInv, Armed
      <3> QED
        BY <1>0, <3>1, <3>3 DEF PInv, Armed
    <2>2. CASE answer # 1
      BY <1>0, <1>5, <2>2 DEF PInv, Armed
    <2> QED
      BY <2>1, <2>2
  <1>4. Timely'
    <2>1. CASE timely /\ page = "answered" /\ outcome = "complete"
      <3>1. fw_update_status = 1
        BY <2>1 DEF PInv, Inv, Timely, Reported
      <3>2. answer = 1
        BY <2>1, <3>1 DEF PInv, Timely
      <3> QED
        BY <1>0, <1>5, <2>1, <3>2 DEF PInv, Timely
    <2>2. CASE ~(timely /\ page = "answered" /\ outcome = "complete")
      <3>1. due => due'
        BY <1>5
      <3> QED
        BY <1>0, <2>2, <3>1 DEF PInv, Timely
    <2> QED
      BY <2>1, <2>2
  <1> QED
    BY <1>2, <1>3, <1>4

\* The other steps of the page, and httpd's answer.
LEMMA PageStepInv ==
    ASSUME PInv,
           Load \/ updateFirmware \/ updateProgress \/ NoMoreProgress \/ StatusLost \/ Tick \/ Serve
    PROVE  (PageTypeOK /\ Armed /\ Timely)'
  <1> USE DEF text
  <1>0. /\ UNCHANGED <<pc, queue, fw_update_status, timers, outcome>>
        /\ fw_update_status \in Statuses
    BY DeviceRests DEF PInv, Inv, TypeOK, Load, updateFirmware, updateProgress, NoMoreProgress,
       StatusLost, Tick, Serve
  <1>1. PageTypeOK'
    <2>1. CASE Serve
      BY <1>0, <2>1 DEF PInv, PageTypeOK, Serve
    <2>2. CASE updateFirmware
      BY <2>2, PageValues DEF PInv, PageTypeOK, updateFirmware
    <2>3. CASE updateProgress
      <3>1. (posts > 0) \in BOOLEAN
        OBVIOUS
      <3>2. events' \in BOOLEAN
        BY <2>3, <3>1 DEF updateProgress
      <3> QED
        BY <2>3, <3>2 DEF PInv, PageTypeOK, updateProgress
    <2>4. CASE Load \/ NoMoreProgress \/ StatusLost \/ Tick
      BY <2>4, PageValues DEF PInv, PageTypeOK, Load, NoMoreProgress, StatusLost, Tick
    <2> QED
      BY <2>1, <2>2, <2>3, <2>4
  <1>2. Armed'
    <2>1. CASE Serve
      BY <1>0, <2>1 DEF PInv, Armed, Serve
    <2>2. CASE Load \/ updateFirmware \/ updateProgress \/ NoMoreProgress \/ StatusLost \/ Tick
      <3>1. page' # "answered" \/ UNCHANGED <<page, answer>>
        BY <2>2 DEF Load, updateFirmware, updateProgress, NoMoreProgress, StatusLost, Tick
      <3>2. UNCHANGED <<due, chains, answer>>
        BY <2>2 DEF Load, updateFirmware, updateProgress, NoMoreProgress, StatusLost, Tick
      <3> QED
        BY <1>0, <3>1, <3>2 DEF PInv, Armed
    <2> QED
      BY <2>1, <2>2
  <1>3. Timely'
    BY <1>0 DEF PInv, Timely, Load, updateFirmware, updateProgress, NoMoreProgress, StatusLost, Tick, Serve
  <1> QED
    BY <1>1, <1>2, <1>3

\* httpd takes up an upload: nothing is armed or disarmed.
LEMMA TakeInv == ASSUME PInv, Take \/ Others PROVE (PageTypeOK /\ Armed /\ Timely)'
  <1> USE DEF Take, Others, Upload, text, flash, monitor
  <1>1. PageTypeOK'
    <2>1. posts' \in Nat
      BY DEF PInv, PageTypeOK
    <2> QED
      BY <2>1 DEF PInv, PageTypeOK
  <1>2. Armed' /\ Timely'
    BY DEF PInv, Armed, Timely
  <1> QED
    BY <1>1, <1>2

\* The device's own steps: none is possible while the answer is timely, and
\* the monitor reports a success only with a timer.
LEMMA DeviceInv == ASSUME PInv, Device PROVE (PageTypeOK /\ Armed /\ Timely)'
  <1> USE DEF Device, pageVars, text
  <1>1. PageTypeOK'
    BY DEF PInv, PageTypeOK
  <1>2. timers \in Nat
    BY DEF PInv, Inv, TypeOK
  <1>3. CASE Handle
    <2>1. UNCHANGED <<fw_update_status, timers>> /\ pc # "idle"
      BY <1>3 DEF Handle, Recv, RecvFails, RecvTimesOut, Begin, BeginFails, GiveUp, Write, End, SetBoot,
                  Send, monitor
    <2> QED
      BY <1>1, <2>1 DEF PInv, Armed, Timely
  <1>4. CASE TimeSync \/ Delay
    BY <1>1, <1>4 DEF PInv, Armed, Timely, TimeSync, Delay, handler
  <1>5. CASE Monitor
    BY <1>1, <1>2, <1>5 DEF PInv, Armed, Timely, Monitor
  <1> QED
    BY <1>3, <1>4, <1>5

\* A restart: nothing that was promised is due any more.
LEMMA RestartsInv == ASSUME PInv, Restarts PROVE (PageTypeOK /\ Armed /\ Timely)'
  <1> USE DEF Restarts
  <1>1. PageTypeOK'
    BY DEF PInv, PageTypeOK
  <1>2. fw_update_status' = 0
    BY DEF Panic, TimerFires, PowerCut, Restart
  <1>3. Armed' /\ Timely'
    BY <1>2 DEF PInv, Armed, Timely, PageTypeOK
  <1> QED
    BY <1>1, <1>3

\* The invariant holds in every behaviour.
THEOREM PageInvariance == PageSpec => []PInv
  <1>1. PageInit => PInv
    <2>1. PageInit => Inv /\ Ended
      BY InitInv DEF PageInit, Init, Ended
    <2>2. PageInit => PageTypeOK
      BY PageValues DEF PageInit, PageTypeOK
    <2>3. PageInit => Armed /\ Timely
      BY DEF PageInit, Init, Armed, Timely
    <2> QED
      BY <2>1, <2>2, <2>3 DEF PInv
  <1>2. PInv /\ [PageNext]_allVars => PInv'
    <2> SUFFICES ASSUME PInv, [PageNext]_allVars PROVE PInv'
      OBVIOUS
    <2>1. Inv' /\ Ended'
      BY StepImplements, NextInv, EndedNext DEF PInv
    <2>2. (PageTypeOK /\ Armed /\ Timely)'
      <3>1. CASE UNCHANGED allVars
        BY <3>1 DEF allVars, vars, pageVars, text, flash, handler, monitor, bounds, PInv, PageTypeOK,
                    Armed, Timely
      <3>2. CASE PageNext
        BY <3>2, UnloadInv, ShowInv, PageStepInv, TakeInv, DeviceInv, RestartsInv
           DEF PageNext, Leave, CountdownEnds
      <3> QED
        BY <3>1, <3>2
    <2> QED
      BY <2>1, <2>2 DEF PInv
  <1> QED
    BY <1>1, <1>2, PTL DEF PageSpec

\* The page's variables keep their types, with any number of pending timeouts
\* and uploads.
THEOREM PageTypeCorrect == PageSpec => []PageTypeOK
  <1>1. PInv => PageTypeOK
    BY DEF PInv
  <1> QED
    BY <1>1, PageInvariance, PTL

\* A countdown announces a restart that is armed, and that runs the image of
\* the other partition unless a later upload is being written over it or has
\* failed (app.js:95-100 and app_local_server.c:222-226).
THEOREM CountdownIsTrue == PageSpec => []CountdownMeansRestart
  <1>1. PInv => CountdownMeansRestart
    <2> SUFFICES ASSUME PInv, due PROVE CountdownMeansRestart
      BY DEF CountdownMeansRestart
    <2>1. timers > 0 /\ boot # running
      BY DEF PInv, Armed, Inv, AnnouncedIsInstalled
    <2>2. outcome # "failed" => outcome = "complete"
      BY <2>1 DEF PInv, Ended, Inv, TypeOK, Outcomes
    <2>3. update_partition # running
      BY OtherSlot DEF PInv, Inv, TypeOK, update_partition
    <2> QED
      BY <2>1, <2>2, <2>3 DEF PInv, Inv, CompleteIsNext, CountdownMeansRestart
  <1> QED
    BY <1>1, PageInvariance, PTL

\* A page that asked after the monitor had caught up counts down after a
\* completed upload.
THEOREM CompletionIsAnnounced == PageSpec => []CompleteIsAnnounced
  <1>1. PInv => CompleteIsAnnounced
    BY DEF PInv, Armed, Timely, CompleteIsAnnounced, AtRest
  <1> QED
    BY <1>1, PageInvariance, PTL
=============================================================================
