-------------------------------- MODULE Ota --------------------------------
(* The firmware update of components/app_local_server/app_local_server.c:   *)
(* the upload handler (httpd's task), the message queue to the monitor that *)
(* app_main's loop runs, and the one-shot timers that restart the device.   *)
(*                                                                          *)
(* The two app partitions, the OTA data and the boot loader are ESP-IDF's;  *)
(* they are modelled from how the handler uses them.  A partition holds an  *)
(* image and how many of its parts have been written.                       *)
EXTENDS Integers, Sequences

CONSTANTS
    Images,      \* files that may be uploaded
    Good,        \* those that are firmware
    Factory,     \* the image the device is delivered with
    Parts,       \* chunks an image takes; one more carries the form's trailer
    QueueLen,    \* HTTP_SERVER_MONITOR_QUEUE_LEN
    MaxUploads,  \* bound: how many uploads
    MaxCuts      \* bound: how many power cuts

ASSUME ImagesAssumption == Good \subseteq Images /\ Factory \in Good
ASSUME PartsAssumption == Parts \in Nat \ {0}
ASSUME QueueAssumption == QueueLen \in Nat \ {0}
ASSUME BoundsAssumption == MaxUploads \in Nat /\ MaxCuts \in Nat

Slots == {0, 1}
Other(s) == 1 - s

VARIABLES
    slots,             \* the partitions app0 and app1
    running, boot,     \* the one that runs; the one the OTA data names
    pc,                \* httpd: "idle", or a point of the upload handler
    img, form, sent,   \* what is uploaded, as a form or not; chunks received
    recv_len,          \* what the last httpd_req_recv returned
    begun,             \* is_req_body_started: ota_handle is initialised
    flash_successful,
    leaked,            \* handles never passed to esp_ota_end
    queue,             \* http_server_monitor_q
    fw_update_status,
    timers,            \* armed fw_update_reset timers
    main,              \* app_main: "sync", then "wait" and "delay" in turn
    outcome,           \* of the last upload that ended since the restart
    uploads, cuts

flash == <<slots, running, boot>>
handler == <<pc, img, form, sent, recv_len, begun, flash_successful>>
monitor == <<queue, fw_update_status, timers, main>>
bounds == <<uploads, cuts>>
vars == <<flash, handler, leaked, monitor, outcome, bounds>>

Points == {"idle", "recv", "received", "write", "end", "set_boot", "send"}
\* HTTP_MSG_WIFI_OTA_UPDATE_SUCCESSFUL and _FAILED
Messages == {"SUCCESSFUL", "FAILED"}
Outcomes == {"none", "complete", "failed"}
Statuses == {-1, 0, 1}

TypeOK ==
    /\ slots \in [Slots -> [img : Images, got : 0..Parts]]
    /\ running \in Slots /\ boot \in Slots
    /\ pc \in Points
    /\ img \in Images /\ form \in BOOLEAN /\ sent \in 0..(Parts + 1)
    /\ recv_len \in {"data", "zero", "timeout", "fail"}
    /\ begun \in BOOLEAN /\ flash_successful \in BOOLEAN
    /\ leaked \in Nat
    /\ queue \in Seq(Messages) /\ Len(queue) <= QueueLen
    /\ fw_update_status \in Statuses
    /\ timers \in Nat
    /\ main \in {"sync", "wait", "delay"}
    /\ outcome \in Outcomes
    /\ uploads \in Nat /\ cuts \in Nat

\* What esp_ota_end, esp_ota_set_boot_partition and the boot loader verify.
Complete(s) == slots[s].img \in Good /\ slots[s].got = Parts
\* Mutant: the partition after the one the OTA data names.
update_partition_of_boot == Other(boot)
\* esp_ota_get_next_update_partition(NULL): the one that is not running.
update_partition == Other(running)
\* Without CONFIG_BOOTLOADER_APP_ROLLBACK_ENABLE the boot loader only falls
\* back when the partition the OTA data names holds no valid image.
BootChoice == IF Complete(boot) THEN boot ELSE Other(boot)

-----------------------------------------------------------------------------
(* Restart: by a timer, a panic or a power cut.  RAM is lost.               *)

Restart ==
    /\ running' = BootChoice
    /\ pc' = "idle" /\ img' = Factory /\ form' = TRUE /\ sent' = 0
    /\ recv_len' = "zero" /\ begun' = FALSE /\ flash_successful' = FALSE
    /\ leaked' = 0
    /\ queue' = <<>> /\ fw_update_status' = 0 /\ timers' = 0 /\ main' = "sync"
    /\ outcome' = "none"
    /\ UNCHANGED <<slots, boot>>

\* http_server_fw_update_reset_cb
TimerFires == timers > 0 /\ Restart /\ UNCHANGED bounds

PowerCut == cuts < MaxCuts /\ cuts' = cuts + 1 /\ Restart /\ UNCHANGED uploads

-----------------------------------------------------------------------------
(* The upload handler, in httpd's single task.                              *)

Upload ==
    /\ pc = "idle" /\ uploads < MaxUploads
    /\ uploads' = uploads + 1
    /\ pc' = "recv"
    /\ img' \in Images /\ form' \in BOOLEAN /\ sent' = 0
    /\ begun' = FALSE /\ flash_successful' = FALSE
    /\ UNCHANGED <<flash, recv_len, leaked, monitor, outcome, cuts>>

\* httpd_req_recv: a chunk, an error, a socket timeout, or 0 when the peer has
\* closed or everything has been read.
Recv ==
    /\ pc = "recv" /\ pc' = "received"
    /\ \/ sent <= Parts /\ recv_len' = "data" /\ sent' = sent + 1
       \/ sent <= Parts /\ recv_len' \in {"timeout", "fail"} /\ UNCHANGED sent
       \/ recv_len' = "zero" /\ UNCHANGED sent
    /\ UNCHANGED <<flash, img, form, begun, flash_successful, leaked, monitor, outcome, bounds>>

\* return ESP_FAIL: no message; a handle that was begun is never ended.
GiveUp ==
    /\ pc' = "idle" /\ outcome' = "failed"
    /\ leaked' = IF begun THEN leaked + 1 ELSE leaked
    /\ UNCHANGED <<running, boot, img, form, sent, recv_len, begun, flash_successful, monitor, bounds>>

RecvFails == pc = "received" /\ recv_len = "fail" /\ GiveUp /\ UNCHANGED slots

\* continue, in a do-while: the loop's condition recv_len > 0 is false.
RecvTimesOut ==
    /\ pc = "received" /\ recv_len = "timeout"
    /\ pc' = "end"
    /\ UNCHANGED <<flash, img, form, sent, recv_len, begun, flash_successful,
                   leaked, monitor, outcome, bounds>>

Erased == [slots EXCEPT ![update_partition] = [img |-> img, got |-> 0]]

\* The first answer starts the update; esp_ota_begin erases the partition
\* before it allocates the handle.
Begin ==
    /\ pc = "received" /\ recv_len \in {"data", "zero"} /\ ~begun
    /\ begun' = TRUE /\ pc' = "write" /\ slots' = Erased
    /\ UNCHANGED <<running, boot, img, form, sent, recv_len, flash_successful,
                   leaked, monitor, outcome, bounds>>

BeginFails ==
    /\ pc = "received" /\ recv_len \in {"data", "zero"} /\ ~begun
    /\ GiveUp /\ slots' \in {slots, Erased}

\* There is no first chunk, or it is not a form's: strstr finds no blank line
\* and what is written first is read from address 4, outside the buffer.
NoBody == sent = 0 \/ (sent = 1 /\ ~form)

\* The loop goes on while recv_len > 0: content_received leaves the form's
\* header out and never reaches content_len.
LoopEnds == pc' = IF recv_len = "data" THEN "recv" ELSE "end"

\* esp_ota_write; its result is ignored.
Write ==
    /\ pc = "write" \/ (pc = "received" /\ recv_len \in {"data", "zero"} /\ begun)
    /\ LoopEnds
    /\ \/ /\ recv_len = "data" /\ sent <= Parts /\ ~NoBody
          /\ slots' = [slots EXCEPT ![update_partition] = [img |-> @.img, got |-> @.got + 1]]
       \/ UNCHANGED slots
    /\ UNCHANGED <<running, boot, img, form, sent, recv_len, begun, flash_successful,
                   leaked, monitor, outcome, bounds>>

Panic == pc = "write" /\ NoBody /\ Restart /\ UNCHANGED bounds

\* Mutant: the image counts as complete because the request was read.
ValidateNothing == pc' = "set_boot" /\ UNCHANGED outcome
\* esp_ota_end said no: the failure is reported.
Rejected == pc' = "send" /\ outcome' = "failed"
Validate == IF Complete(update_partition) THEN pc' = "set_boot" /\ UNCHANGED outcome ELSE Rejected

\* Mutant: what esp_ota_end says of an uninitialised handle is ignored.
EndTrusting ==
    /\ pc = "end"
    /\ \/ begun /\ Validate /\ UNCHANGED leaked
       \/ ~begun /\ pc' = "set_boot" /\ UNCHANGED <<leaked, outcome>>
    /\ UNCHANGED <<flash, img, form, sent, recv_len, begun, flash_successful,
                   monitor, bounds>>

\* esp_ota_end.  After a timeout before the first chunk ota_handle is
\* uninitialised: no handle, or the stale value of one that was leaked.
End ==
    /\ pc = "end"
    /\ \/ begun /\ Validate /\ UNCHANGED leaked
       \/ ~begun /\ Rejected /\ UNCHANGED leaked
       \/ ~begun /\ leaked > 0 /\ leaked' = leaked - 1 /\ (Validate \/ Rejected)
    /\ UNCHANGED <<flash, img, form, sent, recv_len, begun, flash_successful,
                   monitor, bounds>>

\* Mutant: the result of esp_ota_set_boot_partition is not looked at.
SetBootUnchecked ==
    /\ pc = "set_boot" /\ pc' = "send"
    /\ boot' \in {boot, update_partition} /\ flash_successful' = TRUE /\ outcome' = "complete"
    /\ UNCHANGED <<slots, running, img, form, sent, recv_len, begun, leaked, monitor, bounds>>

SetBoot ==
    /\ pc = "set_boot" /\ pc' = "send"
    /\ \/ boot' = update_partition /\ flash_successful' = TRUE /\ outcome' = "complete"
       \/ outcome' = "failed" /\ UNCHANGED <<boot, flash_successful>>
    /\ UNCHANGED <<slots, running, img, form, sent, recv_len, begun, leaked, monitor, bounds>>

\* Mutant: a queue that takes any number of messages.
SendUnbounded ==
    /\ pc = "send" /\ pc' = "idle"
    /\ queue' = Append(queue, IF flash_successful THEN "SUCCESSFUL" ELSE "FAILED")
    /\ UNCHANGED <<flash, img, form, sent, recv_len, begun, flash_successful, leaked,
                   fw_update_status, timers, main, outcome, bounds>>

\* http_server_monitor_send_msg waits with portMAX_DELAY while the queue is full.
Send ==
    /\ pc = "send" /\ Len(queue) < QueueLen
    /\ queue' = Append(queue, IF flash_successful THEN "SUCCESSFUL" ELSE "FAILED")
    /\ pc' = "idle"
    /\ UNCHANGED <<flash, img, form, sent, recv_len, begun, flash_successful, leaked,
                   fw_update_status, timers, main, outcome, bounds>>

-----------------------------------------------------------------------------
(* app_main: time_sync_init, at most 20 waits for the network's time, then  *)
(* the loop around app_local_server_process.                                *)

\* Mutant: app_main waits for the time as long as it takes.
TimeSyncForever == main = "sync" /\ UNCHANGED vars

TimeSync ==
    /\ main = "sync" /\ main' = "wait"
    /\ UNCHANGED <<flash, handler, leaked, queue, fw_update_status, timers, outcome, bounds>>

\* Mutant: the first outcome is kept.
MonitorSticky ==
    /\ main = "wait" /\ queue # <<>>
    /\ main' = "delay" /\ queue' = Tail(queue)
    /\ timers' = IF Head(queue) = "SUCCESSFUL" THEN timers + 1 ELSE timers
    /\ fw_update_status' = IF fw_update_status # 0 THEN fw_update_status
                           ELSE IF Head(queue) = "SUCCESSFUL" THEN 1 ELSE -1
    /\ UNCHANGED <<flash, handler, leaked, outcome, bounds>>

\* Mutant: only the first outcome may arm the timer.
MonitorArmsOnce ==
    /\ main = "wait" /\ queue # <<>>
    /\ main' = "delay" /\ queue' = Tail(queue)
    /\ IF Head(queue) = "SUCCESSFUL"
         THEN fw_update_status' = 1 /\ timers' = IF fw_update_status = 0 THEN timers + 1 ELSE timers
         ELSE fw_update_status' = -1 /\ UNCHANGED timers
    /\ UNCHANGED <<flash, handler, leaked, outcome, bounds>>

\* http_server_monitor; each success creates and starts a timer of its own.
Monitor ==
    /\ main = "wait" /\ queue # <<>>
    /\ main' = "delay" /\ queue' = Tail(queue)
    /\ IF Head(queue) = "SUCCESSFUL"
         THEN fw_update_status' = 1 /\ timers' = timers + 1
         ELSE fw_update_status' = -1 /\ UNCHANGED timers
    /\ UNCHANGED <<flash, handler, leaked, outcome, bounds>>

Delay ==
    /\ main = "delay" /\ main' = "wait"
    /\ UNCHANGED <<flash, handler, leaked, queue, fw_update_status, timers, outcome, bounds>>

-----------------------------------------------------------------------------
Init ==
    /\ slots = [s \in Slots |-> [img |-> Factory, got |-> IF s = 0 THEN Parts ELSE 0]]
    /\ running = 0 /\ boot = 0
    /\ pc = "idle" /\ img = Factory /\ form = TRUE /\ sent = 0
    /\ recv_len = "zero" /\ begun = FALSE /\ flash_successful = FALSE
    /\ leaked = 0
    /\ queue = <<>> /\ fw_update_status = 0 /\ timers = 0 /\ main = "sync"
    /\ outcome = "none"
    /\ uploads = 0 /\ cuts = 0

Handle ==
    \/ Recv \/ RecvFails \/ RecvTimesOut \/ Begin \/ BeginFails \/ Write
    \/ End \/ SetBoot \/ Send

Next ==
    \/ Upload \/ Handle \/ Panic
    \/ TimeSync \/ Monitor \/ Delay
    \/ TimerFires \/ PowerCut

Spec == Init /\ [][Next]_vars

\* httpd_req_recv returns at the latest when its socket times out; app_main's
\* task and the timer task run whenever they can.
Fairness == WF_vars(Handle) /\ WF_vars(TimeSync \/ Monitor \/ Delay) /\ WF_vars(TimerFires)
FairSpec == Spec /\ Fairness

-----------------------------------------------------------------------------
(* Properties.                                                              *)

\* At every moment, in the middle of an upload or of a write too, the image
\* that runs is whole and a restart finds a whole one: no upload, however it
\* fails, erases the code it runs on or the only image left.
AlwaysBootable == Complete(running) /\ Complete(BootChoice)

\* The OTA data is only ever pointed at a partition whose image is complete in
\* flash at that moment: ignored write errors, timeouts, a closed connection
\* and the uninitialised ota_handle of lines 398-537 never get that far.
BootsOnlyComplete == [][boot' # boot => Complete(boot')]_vars

\* A success is announced (queued, shown by the status, counted down by a
\* timer) only once the OTA data names the partition that is not running.
AnnouncedIsInstalled ==
    \/ outcome = "complete" \/ fw_update_status = 1 \/ timers > 0
    \/ \E k \in DOMAIN queue : queue[k] = "SUCCESSFUL"
    \/ pc = "send" /\ flash_successful
    => boot # running

\* Between a completed upload and the next one, a restart runs the new image.
CompleteIsNext ==
    outcome = "complete" /\ pc \in {"idle", "send"} =>
        BootChoice = update_partition

\* A completed upload is always followed by a restart, even if the queue is
\* full, app_main is still waiting for the time, or further uploads come
\* ("Device reboots on success", README).  The restart runs the new image,
\* unless an upload that httpd took up meanwhile, which erases the same
\* partition, has left it incomplete.
CompleteRestarts ==
    \A s \in Slots, n \in 1..MaxUploads :
        outcome = "complete" /\ pc \in {"idle", "send"} /\ running = s /\ uploads = n
          ~> /\ outcome = "none"
             /\ running = Other(s) \/ (uploads > n /\ ~Complete(Other(s)))

\* The upload handler always comes back to httpd, which serves every other
\* request in the same task: even with the queue full, and even if app_main is
\* still waiting for the time, somebody makes room.
HandlerReturns == pc # "idle" ~> pc = "idle"

\* Once the monitor has caught up, the status request of the page answers 1
\* after a completed upload, whatever earlier uploads had announced.
CompleteIsShown ==
    outcome = "complete" /\ pc = "idle" /\ queue = <<>> => fw_update_status = 1

\* The comment on the loop's continue: "Retry Receiving if Timeout Occurred".
TimeoutIsRetried == [][pc = "received" /\ recv_len = "timeout" => pc' # "end"]_vars
=============================================================================
