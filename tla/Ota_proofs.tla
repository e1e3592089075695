----------------------------- MODULE Ota_proofs -----------------------------
(* Proofs about Ota, for every set of images, number of chunks, queue       *)
(* length and bound: an update, however it ends, leaves a bootable device,  *)
(* and what the device announces about it is true.                          *)
EXTENDS Ota, SequenceTheorems, TLAPS

Uploading == pc \in {"recv", "received", "write"}

\* No more parts are in flash than chunks have come; the chunk at hand is not.
Progress ==
    /\ pc = "received" /\ recv_len = "data" => sent > 0
    /\ begun /\ Uploading =>
         /\ slots[update_partition].got <= sent
         /\ pc # "recv" /\ recv_len = "data" => slots[update_partition].got < sent

\* Writing starts with esp_ota_begin.
Writing == pc = "write" => begun

\* Between esp_ota_end and esp_ota_set_boot_partition the image stays complete,
\* and until then flash_successful is false.
Validated ==
    /\ pc = "set_boot" => Complete(update_partition)
    /\ pc \notin {"idle", "send"} => ~flash_successful

\* A completed upload is reported as such: by the message it sends, by the
\* youngest message in the queue, and by the status when that is drained.
Reported ==
    outcome = "complete" =>
        /\ pc = "send" => flash_successful
        /\ pc = "idle" =>
             IF queue = <<>> THEN fw_update_status = 1 ELSE queue[Len(queue)] = "SUCCESSFUL"

Inv ==
    /\ TypeOK
    /\ Complete(running)
    /\ Progress /\ Writing /\ Validated
    /\ AnnouncedIsInstalled /\ CompleteIsNext /\ Reported

-----------------------------------------------------------------------------
\* Facts about the two partitions: the other one is the other one.
LEMMA OtherSlot ==
    ASSUME NEW s \in Slots
    PROVE  Other(s) \in Slots /\ Other(s) # s /\ Other(Other(s)) = s
           /\ \A x \in Slots : x = s \/ x = Other(s)
  BY DEF Slots, Other

\* The queue after xQueueSend: one longer, the new message last.
LEMMA QueueAppend ==
    ASSUME NEW q \in Seq(Messages), NEW b \in Messages
    PROVE  /\ Append(q, b) \in Seq(Messages) /\ Append(q, b) # <<>>
           /\ Len(Append(q, b)) = Len(q) + 1
           /\ Append(q, b)[Len(Append(q, b))] = b
           /\ \A k \in DOMAIN Append(q, b) : Append(q, b)[k] = b \/ (k \in DOMAIN q /\ Append(q, b)[k] = q[k])
  <1>1. Append(q, b) \in Seq(Messages) /\ Append(q, b) # <<>> /\ Len(Append(q, b)) = Len(q) + 1
    BY AppendProperties
  <1>2. Append(q, b)[Len(q) + 1] = b /\ \A k \in 1..Len(q) : Append(q, b)[k] = q[k]
    BY AppendProperties
  <1>3. Len(q) \in Nat /\ DOMAIN q = 1..Len(q) /\ DOMAIN Append(q, b) = 1..(Len(q) + 1)
    BY <1>1
  <1>4. ASSUME NEW k \in DOMAIN Append(q, b)
        PROVE  Append(q, b)[k] = b \/ (k \in DOMAIN q /\ Append(q, b)[k] = q[k])
    BY <1>2, <1>3
  <1> QED
    BY <1>1, <1>2, <1>4

\* The queue after xQueueReceive: the rest in order, its last message the same.
LEMMA QueueTail ==
    ASSUME NEW q \in Seq(Messages), q # <<>>
    PROVE  /\ Tail(q) \in Seq(Messages) /\ Len(Tail(q)) = Len(q) - 1
           /\ Head(q) = q[1] /\ Head(q) \in Messages /\ 1 \in DOMAIN q
           /\ \A k \in DOMAIN Tail(q) : k + 1 \in DOMAIN q /\ Tail(q)[k] = q[k + 1]
           /\ Tail(q) = <<>> => q[Len(q)] = q[1]
           /\ Tail(q) # <<>> => Tail(q)[Len(Tail(q))] = q[Len(q)]
  OBVIOUS

\* The device as delivered satisfies the invariant.
LEMMA InitInv == Init => Inv
  <1> SUFFICES ASSUME Init PROVE Inv
    OBVIOUS
  <1> USE ImagesAssumption, PartsAssumption, QueueAssumption DEF Init
  <1>1. TypeOK
    <2>1. slots \in [Slots -> [img : Images, got : 0..Parts]]
      <3>1. ASSUME NEW s \in Slots
            PROVE  [img |-> Factory, got |-> IF s = 0 THEN Parts ELSE 0] \in [img : Images, got : 0..Parts]
        OBVIOUS
      <3> QED
        BY <3>1
    <2>2. queue \in Seq(Messages) /\ Len(queue) <= QueueLen
      OBVIOUS
    <2>3. sent \in 0..(Parts + 1) /\ img \in Images
      OBVIOUS
    <2> QED
      BY <2>1, <2>2, <2>3 DEF TypeOK, Slots, Points, Outcomes, Statuses
  <1>2. Complete(running)
    BY DEF Complete, Slots
  <1>3. Progress /\ Writing /\ Validated /\ AnnouncedIsInstalled /\ CompleteIsNext /\ Reported
    BY DEF Progress, Uploading, Writing, Validated, AnnouncedIsInstalled, CompleteIsNext, Reported
  <1> QED
    BY <1>1, <1>2, <1>3 DEF Inv

\* A restart, at whatever point, boots a complete image and starts afresh.
LEMMA RestartInv == Inv /\ Restart /\ uploads' \in Nat /\ cuts' \in Nat => Inv'
  <1> SUFFICES ASSUME Inv, Restart, uploads' \in Nat, cuts' \in Nat PROVE Inv'
    OBVIOUS
  <1> USE DEF Inv, Restart
  <1>1. TypeOK'
    <2>1. running' \in Slots
      BY OtherSlot DEF TypeOK, BootChoice
    <2>2. queue' \in Seq(Messages) /\ Len(queue') <= QueueLen
      BY QueueAssumption
    <2>3. img' \in Images /\ sent' \in 0..(Parts + 1)
      BY ImagesAssumption, PartsAssumption
    <2> QED
      BY <2>1, <2>2, <2>3 DEF TypeOK, Points, Outcomes, Statuses
  <1>2. Complete(running)'
    BY OtherSlot DEF TypeOK, Complete, BootChoice
  <1>3. (Progress /\ Writing /\ Validated /\ AnnouncedIsInstalled /\ CompleteIsNext /\ Reported)'
    BY DEF Progress, Uploading, Writing, Validated, AnnouncedIsInstalled, CompleteIsNext, Reported
  <1> QED
    BY <1>1, <1>2, <1>3

\* The steps of receiving: nothing but the handler's locals changes.
LEMMA ReceiveInv == Inv /\ (Upload \/ Recv \/ RecvTimesOut) => Inv'
  <1> SUFFICES ASSUME Inv, Upload \/ Recv \/ RecvTimesOut PROVE Inv'
    OBVIOUS
  <1> USE PartsAssumption DEF Inv, flash, monitor, bounds
  <1>1. TypeOK'
    <2>1. CASE Upload
      <3>1. sent' \in 0..(Parts + 1) /\ uploads' \in Nat /\ form' \in BOOLEAN /\ img' \in Images
        BY <2>1 DEF TypeOK, Upload
      <3> QED
        BY <2>1, <3>1 DEF TypeOK, Points, Upload
    <2>2. CASE Recv
      BY <2>2 DEF TypeOK, Points, Recv
    <2>3. CASE RecvTimesOut
      BY <2>3 DEF TypeOK, Points, RecvTimesOut
    <2> QED
      BY <2>1, <2>2, <2>3
  <1>2. Complete(running)'
    BY DEF Complete, Upload, Recv, RecvTimesOut
  <1>3. Progress'
    <2> slots[update_partition].got \in Nat
      BY OtherSlot DEF TypeOK, update_partition
    <2> QED
      BY DEF TypeOK, Progress, Uploading, update_partition, Upload, Recv, RecvTimesOut
  <1>4. (Writing /\ Validated /\ AnnouncedIsInstalled /\ CompleteIsNext /\ Reported)'
    BY DEF Writing, Validated, AnnouncedIsInstalled, CompleteIsNext, Reported, Upload, Recv, RecvTimesOut
  <1> QED
    BY <1>1, <1>2, <1>3, <1>4

\* Erasing or writing the partition that does not run leaves the one that does.
LEMMA OtherUntouched ==
    ASSUME Inv, UNCHANGED running,
           NEW c, slots' = [slots EXCEPT ![update_partition] = c] \/ slots' = slots
    PROVE  Complete(running)'
  BY OtherSlot DEF Inv, TypeOK, Complete, update_partition

\* The early returns: the outcome is a failure, the partition may be erased.
LEMMA GiveUpInv == Inv /\ (RecvFails \/ BeginFails) => Inv'
  <1> SUFFICES ASSUME Inv, RecvFails \/ BeginFails PROVE Inv'
    OBVIOUS
  <1> USE DEF RecvFails, BeginFails, GiveUp, monitor, bounds
  <1>1. slots' = slots \/ slots' = Erased
    OBVIOUS
  <1>2. TypeOK'
    <2>1. slots' \in [Slots -> [img : Images, got : 0..Parts]]
      BY <1>1, PartsAssumption DEF Inv, TypeOK, Erased
    <2>2. leaked' \in Nat
      BY DEF Inv, TypeOK
    <2> QED
      BY <2>1, <2>2 DEF Inv, TypeOK, Points, Outcomes
  <1>3. Complete(running)'
    BY <1>1, OtherUntouched DEF Erased
  <1>4. (Progress /\ Writing /\ Validated /\ AnnouncedIsInstalled /\ CompleteIsNext /\ Reported)'
    BY DEF Inv, Progress, Uploading, Writing, Validated, AnnouncedIsInstalled, CompleteIsNext, Reported
  <1> QED
    BY <1>2, <1>3, <1>4 DEF Inv

\* esp_ota_begin: the update partition is empty.
LEMMA BeginInv == Inv /\ Begin => Inv'
  <1> SUFFICES ASSUME Inv, Begin PROVE Inv'
    OBVIOUS
  <1> USE DEF Begin, monitor, bounds
  <1>1. TypeOK'
    BY PartsAssumption, OtherSlot DEF Inv, TypeOK, Points, Erased, update_partition
  <1>2. Complete(running)'
    BY OtherUntouched DEF Erased
  <1>3. Progress'
    <2>1. slots'[update_partition].got = 0 /\ update_partition' = update_partition
      BY OtherSlot DEF Inv, TypeOK, Erased, update_partition
    <2> QED
      BY <2>1 DEF Inv, TypeOK, Progress, Uploading
  <1>4. (Writing /\ Validated /\ AnnouncedIsInstalled /\ CompleteIsNext /\ Reported)'
    BY DEF Inv, Writing, Validated, AnnouncedIsInstalled, CompleteIsNext, Reported
  <1> QED
    BY <1>1, <1>2, <1>3, <1>4 DEF Inv

\* esp_ota_write: a chunk of the image is one part more, or is lost.
LEMMA WriteInv == Inv /\ Write => Inv'
  <1> SUFFICES ASSUME Inv, Write PROVE Inv'
    OBVIOUS
  <1> USE DEF Write, LoopEnds, monitor, bounds
  <1> DEFINE old == slots[update_partition]
             new == [img |-> old.img, got |-> old.got + 1]
  <1>1. slots' = slots \/ slots' = [slots EXCEPT ![update_partition] = new]
    OBVIOUS
  <1>2. update_partition \in Slots /\ old \in [img : Images, got : 0..Parts]
    BY OtherSlot DEF Inv, TypeOK, update_partition
  <1>3. begun /\ Uploading
    <2>1. pc = "write" => begun
      BY DEF Inv, Writing
    <2> QED
      BY <2>1 DEF Uploading
  <1>4. slots' # slots => old.got + 1 <= sent /\ old.got + 1 <= Parts
    BY <1>2, <1>3, PartsAssumption DEF Inv, TypeOK, Progress
  <1>5. TypeOK'
    <2>1. slots' \in [Slots -> [img : Images, got : 0..Parts]]
      <3>1. CASE slots' = slots
        BY <3>1 DEF Inv, TypeOK
      <3>2. CASE slots' # slots
        <4>1. new \in [img : Images, got : 0..Parts]
          BY <1>2, <1>4, <3>2, PartsAssumption
        <4> QED
          BY <1>1, <3>2, <4>1 DEF Inv, TypeOK
      <3> QED
        BY <3>1, <3>2
    <2> QED
      BY <2>1 DEF Inv, TypeOK, Points
  <1>6. Complete(running)'
    BY <1>1, OtherUntouched
  <1>7. Progress'
    <2>1. slots'[update_partition].got = IF slots' = slots THEN old.got ELSE old.got + 1
      BY <1>1, <1>2 DEF Inv, TypeOK
    <2>2. update_partition' = update_partition
      BY DEF update_partition
    <2>3. old.got \in Nat /\ sent \in Nat
      BY <1>2, PartsAssumption DEF Inv, TypeOK
    <2> QED
      BY <1>3, <1>4, <2>1, <2>2, <2>3 DEF Inv, Progress, Uploading
  <1>8. (Writing /\ Validated /\ AnnouncedIsInstalled /\ CompleteIsNext /\ Reported)'
    BY <1>3 DEF Inv, Writing, Validated, AnnouncedIsInstalled, CompleteIsNext, Reported
  <1> QED
    BY <1>5, <1>6, <1>7, <1>8 DEF Inv

\* esp_ota_end: on to the OTA data only with a complete image, whichever
\* handle it was given.
LEMMA EndInv == Inv /\ End => Inv'
  <1> SUFFICES ASSUME Inv, End PROVE Inv'
    OBVIOUS
  <1> USE DEF End, Validate, Rejected, flash, monitor, bounds
  <1>1. TypeOK'
    BY DEF Inv, TypeOK, Points, Outcomes
  <1>2. (Complete(running) /\ Validated)'
    BY DEF Inv, Validated, Complete, update_partition
  <1>3. (Progress /\ Writing /\ AnnouncedIsInstalled /\ CompleteIsNext /\ Reported)'
    <2>1. (Progress /\ Writing)'
      BY DEF Progress, Uploading, Writing
    <2>2. AnnouncedIsInstalled'
      BY DEF Inv, AnnouncedIsInstalled, Validated
    <2>3. (CompleteIsNext /\ Reported)'
      BY DEF CompleteIsNext, Reported
    <2> QED
      BY <2>1, <2>2, <2>3
  <1> QED
    BY <1>1, <1>2, <1>3 DEF Inv

\* esp_ota_set_boot_partition: the OTA data names the complete image.
LEMMA SetBootInv == Inv /\ SetBoot => Inv'
  <1> SUFFICES ASSUME Inv, SetBoot PROVE Inv'
    OBVIOUS
  <1> USE DEF SetBoot, monitor, bounds
  <1>1. TypeOK'
    <2>1. boot' \in Slots
      BY OtherSlot DEF Inv, TypeOK, update_partition
    <2> QED
      BY <2>1 DEF Inv, TypeOK, Points, Outcomes
  <1>2. (Complete(running) /\ Complete(update_partition))'
    BY DEF Inv, Validated, Complete, update_partition
  <1>3. update_partition # running
    BY OtherSlot DEF Inv, TypeOK, update_partition
  <1>4. (AnnouncedIsInstalled /\ CompleteIsNext)'
    <2>1. CASE boot' = update_partition
      <3>1. Complete(boot)'
        BY <2>1, <1>2 DEF Complete, update_partition
      <3> QED
        BY <2>1, <3>1, <1>3 DEF AnnouncedIsInstalled, CompleteIsNext, BootChoice, update_partition
    <2>2. CASE boot' # update_partition
      <3>1. outcome' = "failed" /\ UNCHANGED <<boot, flash_successful, fw_update_status, timers, queue>>
        BY <2>2
      <3>2. ~flash_successful
        BY DEF Inv, Validated
      <3> QED
        BY <3>1, <3>2 DEF Inv, AnnouncedIsInstalled, CompleteIsNext
    <2> QED
      BY <2>1, <2>2
  <1>5. (Progress /\ Writing /\ Validated /\ Reported)'
    BY DEF Inv, Progress, Uploading, Writing, Validated, Reported
  <1> QED
    BY <1>1, <1>2, <1>4, <1>5 DEF Inv

\* The outcome is queued for the monitor.
LEMMA SendInv == Inv /\ Send => Inv'
  <1> SUFFICES ASSUME Inv, Send PROVE Inv'
    OBVIOUS
  <1> USE DEF Send, flash, bounds
  <1>1. queue \in Seq(Messages) /\ flash_successful \in BOOLEAN
    BY DEF Inv, TypeOK
  <1>2. TypeOK'
    <2>1. queue' \in Seq(Messages) /\ Len(queue') <= QueueLen
      BY <1>1, QueueAppend, QueueAssumption DEF Inv, TypeOK, Messages
    <2> QED
      BY <2>1 DEF Inv, TypeOK, Points
  <1>3. AnnouncedIsInstalled'
    <2> DEFINE m == IF flash_successful THEN "SUCCESSFUL" ELSE "FAILED"
    <2>1. m \in Messages /\ queue' = Append(queue, m)
      BY DEF Messages
    <2>2. ASSUME NEW k \in DOMAIN queue', queue'[k] = "SUCCESSFUL"
          PROVE  m = "SUCCESSFUL" \/ \E j \in DOMAIN queue : queue[j] = "SUCCESSFUL"
      BY <1>1, <2>1, <2>2, QueueAppend
    <2> QED
      BY <2>2 DEF Inv, AnnouncedIsInstalled
  <1>4. Reported'
    BY <1>1, QueueAppend DEF Inv, Reported
  <1>5. (Complete(running) /\ Progress /\ Writing /\ Validated /\ CompleteIsNext)'
    BY DEF Inv, Complete, Progress, Uploading, Writing, Validated, CompleteIsNext, BootChoice, update_partition
  <1> QED
    BY <1>2, <1>3, <1>4, <1>5 DEF Inv

\* app_main's task: waiting for the time, and between two messages.
LEMMA MainInv == Inv /\ (TimeSync \/ Delay) => Inv'
  <1> SUFFICES ASSUME Inv, TimeSync \/ Delay PROVE Inv'
    OBVIOUS
  <1> USE DEF TimeSync, Delay, flash, handler, bounds
  <1>1. TypeOK'
    BY DEF Inv, TypeOK
  <1>2. (Complete(running) /\ Progress /\ Writing /\ Validated /\ AnnouncedIsInstalled /\ CompleteIsNext /\ Reported)'
    BY DEF Inv, Complete, Progress, Uploading, Writing, Validated, AnnouncedIsInstalled,
           CompleteIsNext, Reported, BootChoice, update_partition
  <1> QED
    BY <1>1, <1>2 DEF Inv

\* The monitor takes the eldest message and acts on it.
LEMMA MonitorInv == Inv /\ Monitor => Inv'
  <1> SUFFICES ASSUME Inv, Monitor PROVE Inv'
    OBVIOUS
  <1> USE DEF Monitor, flash, handler, bounds
  <1>1. queue \in Seq(Messages) /\ queue # <<>>
    BY DEF Inv, TypeOK
  <1>2. TypeOK'
    BY <1>1, QueueTail, QueueAssumption DEF Inv, TypeOK, Statuses
  <1>3. AnnouncedIsInstalled'
    <2>1. (\E k \in DOMAIN queue' : queue'[k] = "SUCCESSFUL") => \E k \in DOMAIN queue : queue[k] = "SUCCESSFUL"
      BY <1>1, QueueTail
    <2>2. Head(queue) = "SUCCESSFUL" => \E k \in DOMAIN queue : queue[k] = "SUCCESSFUL"
      BY <1>1, QueueTail
    <2>3. timers' > 0 => timers > 0 \/ Head(queue) = "SUCCESSFUL"
      BY DEF Inv, TypeOK
    <2>4. fw_update_status' = 1 => Head(queue) = "SUCCESSFUL"
      OBVIOUS
    <2> QED
      BY <2>1, <2>2, <2>3, <2>4 DEF Inv, AnnouncedIsInstalled
  <1>4. Reported'
    BY <1>1, QueueTail DEF Inv, Reported
  <1>5. (Complete(running) /\ Progress /\ Writing /\ Validated /\ CompleteIsNext)'
    BY DEF Inv, Complete, Progress, Uploading, Writing, Validated, CompleteIsNext, BootChoice, update_partition
  <1> QED
    BY <1>2, <1>3, <1>4, <1>5 DEF Inv

\* Every step preserves the invariant.
LEMMA NextInv == Inv /\ [Next]_vars => Inv'
  <1> SUFFICES ASSUME Inv, [Next]_vars PROVE Inv'
    OBVIOUS
  <1>1. CASE Upload \/ Recv \/ RecvTimesOut
    BY <1>1, ReceiveInv
  <1>2. CASE RecvFails \/ BeginFails
    BY <1>2, GiveUpInv
  <1>3. CASE Begin
    BY <1>3, BeginInv
  <1>4. CASE Write
    BY <1>4, WriteInv
  <1>5. CASE End
    BY <1>5, EndInv
  <1>6. CASE SetBoot
    BY <1>6, SetBootInv
  <1>7. CASE Send
    BY <1>7, SendInv
  <1>8. CASE TimeSync \/ Delay
    BY <1>8, MainInv
  <1>9. CASE Monitor
    BY <1>9, MonitorInv
  <1>10. CASE Panic \/ TimerFires \/ PowerCut
    BY <1>10, RestartInv DEF Panic, TimerFires, PowerCut, bounds, Inv, TypeOK
  <1>11. CASE UNCHANGED vars
    BY <1>11 DEF vars, flash, handler, monitor, bounds, Inv, TypeOK, Complete, Progress, Uploading,
                 Writing, Validated, AnnouncedIsInstalled, CompleteIsNext, Reported, BootChoice, update_partition
  <1> QED
    BY <1>1, <1>2, <1>3, <1>4, <1>5, <1>6, <1>7, <1>8, <1>9, <1>10, <1>11 DEF Next, Handle

-----------------------------------------------------------------------------
\* The invariant holds in every reachable state.
THEOREM OtaInvariance == Spec => []Inv
  BY InitInv, NextInv, PTL DEF Spec

\* Every variable keeps its type; in particular no image grows beyond its parts
\* and the queue never exceeds its length.
THEOREM OtaTypeCorrect == Spec => []TypeOK
  <1>1. Inv => TypeOK
    BY DEF Inv
  <1> QED
    BY <1>1, OtaInvariance, PTL

\* Whatever an upload does, and wherever the power is cut, the boot loader
\* finds a complete image: the handler only ever erases the other partition.
THEOREM NeverBricked == Spec => []AlwaysBootable
  <1>1. Inv => AlwaysBootable
    BY OtherSlot DEF Inv, TypeOK, AlwaysBootable, BootChoice
  <1> QED
    BY <1>1, OtaInvariance, PTL

\* A success that is queued, reported or timed has been installed.
THEOREM AnnouncementsAreTrue == Spec => []AnnouncedIsInstalled
  <1>1. Inv => AnnouncedIsInstalled
    BY DEF Inv
  <1> QED
    BY <1>1, OtaInvariance, PTL

\* After a completed upload, and until the next, a restart runs the update.
THEOREM UpdateIsNext == Spec => []CompleteIsNext
  <1>1. Inv => CompleteIsNext
    BY DEF Inv
  <1> QED
    BY <1>1, OtaInvariance, PTL

\* After a completed upload the status is 1 once the queue is drained.
THEOREM UpdateIsShown == Spec => []CompleteIsShown
  <1>1. Inv => CompleteIsShown
    BY DEF Inv, Reported, CompleteIsShown
  <1> QED
    BY <1>1, OtaInvariance, PTL

\* The OTA data is only ever pointed at a complete image.
THEOREM BootsComplete == Spec => BootsOnlyComplete
  <1>1. Inv /\ [Next]_vars => [boot' # boot => Complete(boot')]_vars
    <2> SUFFICES ASSUME Inv, Next, boot' # boot PROVE Complete(boot')
      OBVIOUS
    <2>1. SetBoot
      BY DEF Next, Handle, Upload, Recv, RecvFails, RecvTimesOut, Begin, BeginFails, GiveUp, Write, End,
             Send, Panic, TimeSync, Monitor, Delay, TimerFires, PowerCut, Restart, flash
    <2> QED
      BY <2>1 DEF SetBoot, Inv, Validated
  <1> QED
    BY <1>1, OtaInvariance, PTL DEF Spec, BootsOnlyComplete
=============================================================================
