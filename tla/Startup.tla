------------------------------ MODULE Startup ------------------------------
(* app_main: what it starts and in which order, what it does about each     *)
(* failure on the way (go on, or abort and so restart), and the time sync   *)
(* in front of its loop; composed with the credentials and the station of   *)
(* WifiSta.  What the database does once it is there is RfidManager's, what *)
(* the loop does is Ota's.                                                  *)
EXTENDS WifiSta

CONSTANT MaxWaits  \* retry_count of obtain_time

ASSUME StartupAssumption == MaxWaits \in Nat \ {0}

VARIABLES
    main,      \* where app_main is
    spiffs,    \* not mounted, mounted, or mounted with spiffs_initialized set
    database,  \* the header file is in the flash
    created,   \* what there was heap for
    server,    \* httpd runs
    clock,     \* the year is 2016 or later
    sntp,      \* off, on, or failed to start
    waits      \* retry of obtain_time

storage == <<spiffs, database>>
time == <<clock, sntp, waits>>
mainVars == <<main, storage, created, server, time>>
allVars == <<vars, mainVars>>

Early == {"nvs", "params", "spiffs", "rfid", "mount", "create", "defaults"}
Late == {"net", "queue", "station", "softap", "server", "start", "sync", "wait", "loop"}

StartupTypeOK ==
    /\ main \in Early \cup Late
    /\ spiffs \in {"unmounted", "mounted", "initialized"} /\ database \in BOOLEAN
    /\ created \subseteq {"rfid_mutex", "monitor_q"}
    /\ server \in BOOLEAN
    /\ clock \in BOOLEAN /\ sntp \in {"off", "on", "failed"} /\ waits \in 0..(MaxWaits - 1)

-----------------------------------------------------------------------------
\* A call fails, or it does not.
Fails == faults < MaxFaults /\ faults' = faults + 1
Works == UNCHANGED faults

\* A step of app_main from one point to another.
From(here, there) == main = here /\ main' = there

Restarted ==
    /\ main' = "nvs" /\ spiffs' = "unmounted" /\ created' = {} /\ server' = FALSE
    /\ sntp' = "off" /\ waits' = 0

\* ESP_ERROR_CHECK and the asserts of FreeRTOS restart the device; its clock
\* runs on.
Aborts == Abort /\ Restarted /\ UNCHANGED clock

\* A call under ESP_ERROR_CHECK.
Checked(here, there) ==
    \/ From(here, there) /\ Works /\ UNCHANGED <<butFaults, storage, created, server, time>>
    \/ main = here /\ Fails /\ Aborts /\ UNCHANGED database

-----------------------------------------------------------------------------
(* NVS and SPIFFS.                                                          *)

nvs_storage_init ==
    \/ Checked("nvs", "params")
    \/ /\ From("nvs", "params") /\ Fails /\ EraseNvs
       /\ UNCHANGED <<storage, created, server, time>>

\* An error of nvs_flash_init_partition ends the function, and its test only
\* prints; ESP_ERROR_CHECK is around the erasure.
nvs_custom_partition_init == Checked("params", "spiffs")

\* spiffs_storage_init, called for the first time or again: if it registers but
\* its checks fail, it returns false with the file system mounted, which the
\* second call finds out and calls a success.
Mount ==
    \/ spiffs' = "initialized" /\ Works /\ UNCHANGED database
    \/ /\ spiffs = "unmounted" /\ Fails
       /\ \/ UNCHANGED storage                                  \* not registered
          \/ spiffs' = "initialized" /\ database' = FALSE       \* format_if_mount_failed
          \/ spiffs' = "mounted" /\ UNCHANGED database          \* esp_spiffs_check
          \/ spiffs' = "mounted" /\ database' = FALSE           \* esp_spiffs_info, format

spiffs_storage_init ==
    /\ From("spiffs", "rfid") /\ Mount
    /\ UNCHANGED <<butFaults, created, server, time>>

-----------------------------------------------------------------------------
(* rfid_manager_init and rfid_manager_load_defaults, whose results app_main  *)
(* ignores.                                                                  *)

CreateMutex ==
    /\ \/ From("rfid", "mount") /\ Works /\ created' = created \cup {"rfid_mutex"}
       \/ From("rfid", "defaults") /\ Fails /\ UNCHANGED created
    /\ UNCHANGED <<butFaults, storage, server, time>>

\* Mutant: the flag is taken for the file system.
InitStorage_once ==
    /\ From("mount", IF spiffs = "initialized" THEN "create" ELSE "defaults")
    /\ Works /\ UNCHANGED <<butFaults, storage, created, server, time>>

InitStorage ==
    /\ main = "mount" /\ Mount
    /\ main' = IF spiffs' = "initialized" THEN "create" ELSE "defaults"
    /\ UNCHANGED <<butFaults, created, server, time>>

\* The header is created if it is missing, or seems to be because stat fails; a
\* failed creation may leave the file.  If "ok", the caller goes on with it.
CreateHeader(ok) ==
    \/ spiffs # "unmounted" /\ ok /\ database' = TRUE /\ (Works \/ Fails)
    \/ spiffs # "unmounted" /\ ~ok /\ database' \in {database, TRUE} /\ Fails
    \/ spiffs = "unmounted" /\ ~ok /\ UNCHANGED database /\ Works

CreateDatabase ==
    /\ From("create", "defaults") /\ \E ok \in BOOLEAN : CreateHeader(ok)
    /\ UNCHANGED <<butFaults, spiffs, created, server, time>>

\* With a header add_card is called, whose assert fails if there is no mutex.
LoadDefaults ==
    /\ main = "defaults"
    /\ \E ok \in BOOLEAN :
         /\ CreateHeader(ok)
         /\ IF ok /\ "rfid_mutex" \notin created
              THEN Aborts
              ELSE main' = "net" /\ UNCHANGED <<butFaults, spiffs, created, server, time>>

-----------------------------------------------------------------------------
(* The network.                                                             *)

\* The stack, the event loop and the driver.
InitNetwork == Checked("net", "queue")

\* The result of xQueueCreate is not looked at.
app_local_server_init ==
    /\ From("queue", "station")
    /\ \/ Works /\ created' = created \cup {"monitor_q"}
       \/ Fails /\ UNCHANGED created
    /\ UNCHANGED <<butFaults, storage, server, time>>

sta_wifi_init ==
    \/ /\ From("station", "softap") /\ wifi_init_sta
       /\ UNCHANGED <<storage, created, server, time>>
    \/ main = "station" /\ Fails /\ Aborts /\ UNCHANGED database

softap_init == Checked("softap", "server")

\* start_webserver only logs that httpd_start has failed.
app_local_server_start ==
    /\ From("server", "start")
    /\ \/ Works /\ server' = TRUE
       \/ Fails /\ server' = FALSE
    /\ UNCHANGED <<butFaults, storage, created, time>>

StartRadio ==
    \/ /\ From("start", "sync") /\ esp_wifi_start
       /\ UNCHANGED <<storage, created, server, time>>
    \/ main = "start" /\ Fails /\ Aborts /\ UNCHANGED database

-----------------------------------------------------------------------------
(* The clock.                                                               *)

\* A year before 2016 is not the clock's.  The result of esp_netif_sntp_init is
\* ignored; where it has failed, the wait ends at once.
time_sync_init ==
    /\ \/ From("sync", "loop") /\ clock /\ Works /\ UNCHANGED sntp
       \/ From("sync", "wait") /\ ~clock /\ Works /\ sntp' = "on"
       \/ From("sync", "loop") /\ ~clock /\ Fails /\ sntp' = "failed"
    /\ UNCHANGED <<butFaults, storage, created, server, clock, waits>>

\* Mutant: the wait is not bounded.
obtain_time_forever ==
    /\ From("wait", IF clock THEN "loop" ELSE "wait")
    /\ UNCHANGED <<vars, storage, created, server, time>>

\* Mutant: one round too many.
obtain_time_longer ==
    /\ main = "wait"
    /\ IF clock \/ waits >= MaxWaits
         THEN main' = "loop" /\ waits' = 0
         ELSE waits' = waits + 1 /\ UNCHANGED main
    /\ UNCHANGED <<vars, storage, created, server, clock, sntp>>

\* Mutant: SNTP is stopped when the wait is over.
obtain_time_stopping ==
    /\ main = "wait"
    /\ IF clock \/ waits + 1 >= MaxWaits
         THEN main' = "loop" /\ waits' = 0 /\ sntp' = "off"
         ELSE waits' = waits + 1 /\ UNCHANGED <<main, sntp>>
    /\ UNCHANGED <<vars, storage, created, server, clock>>

\* One round of obtain_time: up to 2 s for the clock to be set.  SNTP goes on
\* after the last.
obtain_time ==
    /\ main = "wait"
    /\ IF clock \/ waits + 1 >= MaxWaits
         THEN main' = "loop" /\ waits' = 0
         ELSE waits' = waits + 1 /\ UNCHANGED main
    /\ UNCHANGED <<vars, storage, created, server, clock, sntp>>

\* SNTP repeats its request until an answer comes, if ever.
Synchronize ==
    /\ sntp = "on" /\ link = "up" /\ clock' = TRUE
    /\ UNCHANGED <<vars, main, storage, created, server, sntp, waits>>

\* xQueueReceive of the main loop asserts that there is a queue.
NoQueue ==
    /\ main = "loop" /\ "monitor_q" \notin created
    /\ Aborts /\ UNCHANGED <<database, faults>>

-----------------------------------------------------------------------------
\* The clock runs on if it was the timer of a firmware update.
Restart ==
    /\ PowerCut /\ Restarted /\ clock' \in {FALSE, clock}
    /\ UNCHANGED database

Running ==
    /\ (server /\ Submit) \/ Store \/ Driver \/ event_handler
    /\ UNCHANGED mainVars

StartupInit ==
    /\ Init
    /\ main = "nvs" /\ spiffs = "unmounted" /\ database = FALSE /\ created = {}
    /\ server = FALSE /\ clock = FALSE /\ sntp = "off" /\ waits = 0

app_main ==
    \/ nvs_storage_init \/ nvs_custom_partition_init \/ spiffs_storage_init
    \/ CreateMutex \/ InitStorage \/ CreateDatabase \/ LoadDefaults
    \/ InitNetwork \/ app_local_server_init \/ sta_wifi_init \/ softap_init
    \/ app_local_server_start \/ StartRadio \/ time_sync_init \/ obtain_time
    \/ NoQueue

StartupNext == app_main \/ Synchronize \/ Restart \/ Running

StartupSpec == StartupInit /\ [][StartupNext]_allVars

\* app_main's task runs when it can.
StartupFairness == Fairness /\ WF_allVars(app_main)
FairStartupSpec == StartupSpec /\ StartupFairness

-----------------------------------------------------------------------------
(* Properties.                                                              *)

\* No failure alone makes the handlers of /cards find a database but no mutex,
\* whose assert would restart the device at every request, or makes
\* /cards/reset refuse a mounted file system as "not initialized".
CardsServed ==
    main \in Late /\ database /\ spiffs # "unmounted" =>
        faults > 1 \/ ("rfid_mutex" \in created /\ spiffs = "initialized")

\* app_main gets to its loop and stays there, with or without a network for
\* SNTP: no failure at start-up is passed on from one start to the next.
LoopRuns == <>[](main = "loop")

\* "Connect the ESP32 to the internet and the time will be updated" (app.js):
\* provided that an SNTP server answers while there is a link, also when the
\* station gets its address long after obtain_time has given up; but not
\* when SNTP could not be started, which nothing tries again.
ClockGetsSet ==
    WF_allVars(Synchronize) =>
        (main = "loop" /\ link = "up" /\ sntp # "failed"
           ~> clock \/ link # "up" \/ main # "loop")
=============================================================================
