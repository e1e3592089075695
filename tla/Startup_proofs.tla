--------------------------- MODULE Startup_proofs ---------------------------
(* What app_main guarantees, for any number of failures and restarts; and   *)
(* that it runs the station and the credentials as WifiSta says.            *)
EXTENDS Startup, WifiSta_proofs

-----------------------------------------------------------------------------
(* Startup implements WifiSta.                                              *)

\* A call of another component, seen from WifiSta.
LEMMA OtherCall ==
    ASSUME Works \/ Fails, UNCHANGED butFaults
    PROVE  Elsewhere \/ UNCHANGED vars
  BY DEF Works, Fails, Elsewhere, butFaults, vars, bounds

LEMMA CheckedIsWifi ==
    ASSUME NEW here, NEW there, Checked(here, there) PROVE [Next]_vars
<1>1. (Works /\ UNCHANGED butFaults) \/ Abort
  BY DEF Checked, Aborts
<1> QED
  BY <1>1, OtherCall DEF Next

LEMMA HeaderCounted == \A ok : CreateHeader(ok) => Works \/ Fails
  BY DEF CreateHeader

LEMMA MountCounted == Mount => Works \/ Fails
  BY DEF Mount

LEMMA StepIsWifi == ASSUME [StartupNext]_allVars PROVE [Next]_vars
<1>1. CASE nvs_storage_init
  BY <1>1, CheckedIsWifi DEF nvs_storage_init, Next
<1>2. CASE nvs_custom_partition_init \/ InitNetwork \/ softap_init
  BY <1>2, CheckedIsWifi DEF nvs_custom_partition_init, InitNetwork, softap_init
<1>3. CASE spiffs_storage_init \/ InitStorage
  BY <1>3, MountCounted, OtherCall DEF spiffs_storage_init, InitStorage, Next
<1>4. CASE CreateMutex \/ app_local_server_init \/ app_local_server_start
  <2>1. (Works \/ Fails) /\ UNCHANGED butFaults
    BY <1>4 DEF CreateMutex, app_local_server_init, app_local_server_start
  <2> QED
    BY <2>1, OtherCall DEF Next
<1>5. CASE CreateDatabase
  BY <1>5, HeaderCounted, OtherCall DEF CreateDatabase, Next
<1>6. CASE LoadDefaults
  <2>1. Abort \/ ((Works \/ Fails) /\ UNCHANGED butFaults)
    BY <1>6, HeaderCounted DEF LoadDefaults, Aborts
  <2> QED
    BY <2>1, OtherCall DEF Next
<1>7. CASE sta_wifi_init \/ StartRadio
  BY <1>7 DEF sta_wifi_init, StartRadio, Aborts, Next
<1>8. CASE obtain_time \/ Synchronize
  BY <1>8 DEF obtain_time, Synchronize
<1>8a. CASE time_sync_init
  BY <1>8a, OtherCall DEF time_sync_init, Next
<1>9. CASE NoQueue \/ Restart
  BY <1>9 DEF NoQueue, Aborts, Restart, Next
<1>10. CASE Running
  BY <1>10 DEF Running, Next
<1>11. CASE UNCHANGED allVars
  BY <1>11 DEF allVars
<1> QED
  BY <1>1, <1>2, <1>3, <1>4, <1>5, <1>6, <1>7, <1>8, <1>8a, <1>9, <1>10, <1>11
     DEF StartupNext, app_main

\* Whatever order and failures of app_main, credentials and station behave as
\* WifiSta describes; so its theorems hold for the device as it starts.
THEOREM StartupImplementsWifi == StartupSpec => Spec
<1>1. StartupInit => Init
  BY DEF StartupInit
<1> QED
  BY <1>1, StepIsWifi, PTL DEF StartupSpec, Spec

-----------------------------------------------------------------------------
(* Types.                                                                   *)

LEMMA NoRounds == 0 \in 0..(MaxWaits - 1)
  BY StartupAssumption DEF StartupAssumption

LEMMA StartupTypeInit == StartupInit => StartupTypeOK
<1> SUFFICES ASSUME StartupInit PROVE StartupTypeOK
  OBVIOUS
<1>1. main \in Early \cup Late /\ waits \in 0..(MaxWaits - 1)
  BY NoRounds DEF StartupInit, Early
<1>2. /\ database \in BOOLEAN /\ server \in BOOLEAN /\ clock \in BOOLEAN /\ sntp \in {"off", "on", "failed"}
      /\ spiffs \in {"unmounted", "mounted", "initialized"}
      /\ created \subseteq {"rfid_mutex", "monitor_q"}
  BY DEF StartupInit
<1> QED
  BY <1>1, <1>2 DEF StartupTypeOK

\* What a restart leaves.
LEMMA RestartTyped ==
    ASSUME StartupTypeOK, Restarted, database' \in BOOLEAN, clock' \in BOOLEAN
    PROVE  StartupTypeOK'
<1>1. main' \in Early \cup Late /\ waits' \in 0..(MaxWaits - 1)
  BY NoRounds DEF Restarted, Early
<1>2. /\ server' \in BOOLEAN /\ sntp' \in {"off", "on", "failed"}
      /\ spiffs' \in {"unmounted", "mounted", "initialized"}
      /\ created' \subseteq {"rfid_mutex", "monitor_q"}
  BY DEF Restarted
<1> QED
  BY <1>1, <1>2 DEF StartupTypeOK

LEMMA AbortTyped ==
    ASSUME StartupTypeOK, Aborts, database' \in BOOLEAN
    PROVE  StartupTypeOK'
  BY RestartTyped DEF Aborts, StartupTypeOK

\* A step that goes on to another point and leaves the time alone.
LEMMA GoesOn ==
    ASSUME StartupTypeOK, main' \in Early \cup Late,
           spiffs' \in {"unmounted", "mounted", "initialized"}, database' \in BOOLEAN,
           created' \subseteq {"rfid_mutex", "monitor_q"}, server' \in BOOLEAN,
           UNCHANGED time
    PROVE  StartupTypeOK'
  BY DEF StartupTypeOK, time

LEMMA CheckedTyped ==
    ASSUME StartupTypeOK, NEW here, NEW there \in Early \cup Late, Checked(here, there)
    PROVE  StartupTypeOK'
<1>1. CASE Aborts /\ UNCHANGED database
  BY <1>1, AbortTyped DEF StartupTypeOK
<1>2. CASE main' = there /\ UNCHANGED <<storage, created, server, time>>
  BY <1>2, GoesOn DEF StartupTypeOK, storage
<1> QED
  BY <1>1, <1>2 DEF Checked, From

LEMMA MountTyped ==
    ASSUME StartupTypeOK, Mount
    PROVE  spiffs' \in {"unmounted", "mounted", "initialized"} /\ database' \in BOOLEAN
<1>1. spiffs' \in {"unmounted", "mounted", "initialized"}
  BY DEF Mount, StartupTypeOK, storage
<1>2. database' \in BOOLEAN
  BY DEF Mount, StartupTypeOK, storage
<1> QED
  BY <1>1, <1>2

LEMMA HeaderTyped ==
    ASSUME StartupTypeOK, NEW ok, CreateHeader(ok) PROVE database' \in BOOLEAN
  BY DEF CreateHeader, StartupTypeOK

LEMMA StartupTypeStep ==
    ASSUME StartupTypeOK, [StartupNext]_allVars PROVE StartupTypeOK'
<1> USE StartupAssumption DEF StartupAssumption
<1>0. /\ spiffs \in {"unmounted", "mounted", "initialized"} /\ database \in BOOLEAN
      /\ created \subseteq {"rfid_mutex", "monitor_q"} /\ server \in BOOLEAN
      /\ clock \in BOOLEAN
  BY DEF StartupTypeOK
<1>1. CASE nvs_storage_init
  <2>1. CASE Checked("nvs", "params")
    BY <2>1, CheckedTyped DEF Early
  <2>2. CASE From("nvs", "params") /\ UNCHANGED <<storage, created, server, time>>
    BY <2>2, <1>0, GoesOn DEF From, Early, storage
  <2> QED
    BY <1>1, <2>1, <2>2 DEF nvs_storage_init
<1>2. CASE nvs_custom_partition_init
  BY <1>2, CheckedTyped DEF nvs_custom_partition_init, Early
<1>3. CASE InitNetwork
  BY <1>3, CheckedTyped DEF InitNetwork, Late
<1>4. CASE softap_init
  BY <1>4, CheckedTyped DEF softap_init, Late
<1>5. CASE spiffs_storage_init
  BY <1>5, <1>0, MountTyped, GoesOn DEF spiffs_storage_init, From, Early
<1>6. CASE InitStorage
  <2>1. main' \in Early \cup Late
    BY <1>6 DEF InitStorage, Early
  <2> QED
    BY <1>6, <2>1, <1>0, MountTyped, GoesOn DEF InitStorage
<1>7. CASE CreateMutex
  <2>1. main' \in Early \cup Late /\ created' \subseteq {"rfid_mutex", "monitor_q"}
    BY <1>7, <1>0 DEF CreateMutex, From, Early
  <2> QED
    BY <1>7, <2>1, <1>0, GoesOn DEF CreateMutex, storage
<1>8. CASE app_local_server_init
  <2>1. main' \in Early \cup Late /\ created' \subseteq {"rfid_mutex", "monitor_q"}
    BY <1>8, <1>0 DEF app_local_server_init, From, Late
  <2> QED
    BY <1>8, <2>1, <1>0, GoesOn DEF app_local_server_init, storage
<1>9. CASE app_local_server_start
  <2>1. main' \in Early \cup Late /\ server' \in BOOLEAN
    BY <1>9 DEF app_local_server_start, From, Late
  <2> QED
    BY <1>9, <2>1, <1>0, GoesOn DEF app_local_server_start, storage
<1>10. CASE CreateDatabase
  BY <1>10, <1>0, HeaderTyped, GoesOn DEF CreateDatabase, From, Early
<1>11. CASE LoadDefaults
  <2>1. database' \in BOOLEAN
    BY <1>11, HeaderTyped DEF LoadDefaults
  <2>2. CASE Aborts
    BY <2>1, <2>2, AbortTyped
  <2>3. CASE main' = "net" /\ UNCHANGED <<spiffs, created, server, time>>
    BY <2>1, <2>3, <1>0, GoesOn DEF Late
  <2> QED
    BY <1>11, <2>2, <2>3 DEF LoadDefaults
<1>12. CASE sta_wifi_init
  <2>1. CASE Aborts /\ UNCHANGED database
    BY <2>1, <1>0, AbortTyped
  <2>2. CASE main' = "softap" /\ UNCHANGED <<storage, created, server, time>>
    BY <2>2, <1>0, GoesOn DEF Late, storage
  <2> QED
    BY <1>12, <2>1, <2>2 DEF sta_wifi_init, From
<1>13. CASE StartRadio
  <2>1. CASE Aborts /\ UNCHANGED database
    BY <2>1, <1>0, AbortTyped
  <2>2. CASE main' = "sync" /\ UNCHANGED <<storage, created, server, time>>
    BY <2>2, <1>0, GoesOn DEF Late, storage
  <2> QED
    BY <1>13, <2>1, <2>2 DEF StartRadio, From
<1>14. CASE time_sync_init
  <2>1. main' \in Late /\ sntp' \in {"off", "on", "failed"}
    BY <1>14 DEF time_sync_init, From, Late, StartupTypeOK
  <2>2. UNCHANGED <<spiffs, database, created, server, clock, waits>>
    BY <1>14 DEF time_sync_init, storage
  <2> QED
    BY <2>1, <2>2 DEF StartupTypeOK
<1>15. CASE obtain_time
  <2>1. waits \in 0..(MaxWaits - 1) /\ main \in Early \cup Late
    BY DEF StartupTypeOK
  <2>2. main' \in Early \cup Late /\ waits' \in 0..(MaxWaits - 1)
    <3>1. CASE clock \/ waits + 1 >= MaxWaits
      BY <1>15, <3>1 DEF obtain_time, Late
    <3>2. CASE ~(clock \/ waits + 1 >= MaxWaits)
      BY <1>15, <3>2, <2>1 DEF obtain_time
    <3> QED
      BY <3>1, <3>2
  <2>3. UNCHANGED <<spiffs, database, created, server, clock, sntp>>
    BY <1>15 DEF obtain_time, storage
  <2> QED
    BY <2>2, <2>3 DEF StartupTypeOK
<1>16. CASE Synchronize
  BY <1>16 DEF Synchronize, StartupTypeOK, storage
<1>17. CASE NoQueue
  BY <1>17, <1>0, AbortTyped DEF NoQueue
<1>18. CASE Restart
  BY <1>18, <1>0, RestartTyped DEF Restart
<1>19. CASE Running \/ UNCHANGED allVars
  <2>1. UNCHANGED <<main, storage, created, server, time>>
    BY <1>19 DEF Running, allVars, mainVars
  <2> QED
    BY <2>1 DEF StartupTypeOK, storage, time
<1> QED
  BY <1>1, <1>2, <1>3, <1>4, <1>5, <1>6, <1>7, <1>8, <1>9, <1>10, <1>11, <1>12, <1>13,
     <1>14, <1>15, <1>16, <1>17, <1>18, <1>19 DEF StartupNext, app_main

\* Every variable of app_main's model has its type; in particular the wait of
\* obtain_time takes fewer than retry_count rounds more.
THEOREM StartupTypeCorrect == StartupSpec => []StartupTypeOK
  BY StartupTypeInit, StartupTypeStep, PTL DEF StartupSpec
-----------------------------------------------------------------------------
(* The database that the handlers find.  A file system that stays mounted   *)
(* without its flag, and a mutex that is missing, have each cost a failure; *)
(* after the second spiffs_storage_init the first has cost another, and so  *)
(* has the second after rfid_manager_load_defaults, which would have met    *)
(* the assert if its header had not failed as well.                         *)

Paid ==
    /\ main \in {"nvs", "params", "spiffs"} => spiffs = "unmounted"
    /\ main \in {"rfid", "mount"} /\ spiffs # "initialized" => faults >= 1
    /\ main \in {"create", "defaults"} \cup Late /\ spiffs = "mounted" => faults >= 2
    /\ main = "defaults" /\ "rfid_mutex" \notin created => faults >= 1
    /\ main = "mount" => "rfid_mutex" \in created
    /\ main = "create" => "rfid_mutex" \in created /\ spiffs = "initialized"
    /\ main \in Late /\ database /\ spiffs # "unmounted" /\ "rfid_mutex" \notin created => faults >= 2

LEMMA PaidInit == StartupInit => Paid
  BY DEF StartupInit, Paid, Late

\* Failures are never forgotten.
LEMMA FaultsGrow ==
    ASSUME TypeOK, [Next]_vars PROVE faults' \in Nat /\ faults' >= faults
<1> faults \in Nat
  BY DEF TypeOK
<1>1. faults' = faults \/ faults' = faults + 1
  BY DEF Next, EraseNvs, wifi_init_sta, esp_wifi_start, PowerCut, Abort, Reset, Elsewhere,
         Submit, Store, NvsFails, nvs_open, WriteSsid, WritePassword, nvs_set_str,
         CommitPartly, nvs_commit, Reply, Driver, Associate, AttemptFails, LinkLost, GetAddress,
         Unmoved, event_handler, StationStarted, Retry, GiveUp, GotIp, Handled, esp_wifi_connect,
         bounds, vars
<1> QED
  BY <1>1

LEMMA PaidAfterRestart == Restarted => Paid'
  BY DEF Restarted, Paid, Late

\* A step within the second half of app_main.
LEMMA PaidLate ==
    ASSUME TypeOK, [Next]_vars, Paid, main \in Late, main' \in Late,
           UNCHANGED storage, created \subseteq created'
    PROVE  Paid'
<1>1. faults \in Nat /\ faults' \in Nat /\ faults' >= faults
  BY FaultsGrow DEF TypeOK
<1> QED
  BY <1>1 DEF Paid, Late, storage

LEMMA PaidStep ==
    ASSUME TypeOK, StartupTypeOK, Paid, [StartupNext]_allVars PROVE Paid'
<1>0. [Next]_vars /\ faults \in Nat /\ faults' \in Nat /\ faults' >= faults
  BY StepIsWifi, FaultsGrow DEF TypeOK
<1>1. CASE Restarted
  BY <1>1, PaidAfterRestart
<1>2. CASE nvs_storage_init /\ ~Restarted
  <2>1. From("nvs", "params") /\ UNCHANGED storage
    BY <1>2 DEF nvs_storage_init, Checked, Aborts
  <2> QED
    BY <2>1 DEF From, Paid, storage, Late
<1>3. CASE nvs_custom_partition_init /\ ~Restarted
  <2>1. From("params", "spiffs") /\ UNCHANGED storage
    BY <1>3 DEF nvs_custom_partition_init, Checked, Aborts
  <2> QED
    BY <2>1 DEF From, Paid, storage, Late
<1>4. CASE spiffs_storage_init
  <2>1. From("spiffs", "rfid") /\ Mount
    BY <1>4 DEF spiffs_storage_init
  <2>2. spiffs' # "initialized" => faults' = faults + 1
    BY <2>1 DEF Mount, Fails
  <2> QED
    BY <2>1, <2>2, <1>0 DEF From, Paid, Late
<1>5. CASE CreateMutex
  <2>1. main = "rfid" /\ UNCHANGED storage
    BY <1>5 DEF CreateMutex, From
  <2>2. CASE main' = "mount" /\ created' = created \cup {"rfid_mutex"}
    BY <2>1, <2>2, <1>0 DEF Paid, storage, Late
  <2>3. CASE main' = "defaults" /\ faults' = faults + 1
    BY <2>1, <2>3, <1>0 DEF Paid, storage, Late
  <2> QED
    BY <1>5, <2>2, <2>3 DEF CreateMutex, From, Fails
<1>6. CASE InitStorage
  <2>1. /\ main = "mount" /\ Mount /\ UNCHANGED created
        /\ main' = IF spiffs' = "initialized" THEN "create" ELSE "defaults"
    BY <1>6 DEF InitStorage
  <2>2. "rfid_mutex" \in created /\ (spiffs # "initialized" => faults >= 1)
    BY <2>1 DEF Paid
  <2>3. spiffs' # "initialized" => spiffs # "initialized" /\ faults' = faults + 1
    BY <2>1 DEF Mount, Fails
  <2> QED
    BY <2>1, <2>2, <2>3, <1>0 DEF Paid, Late
<1>7. CASE CreateDatabase
  <2>1. From("create", "defaults") /\ UNCHANGED <<spiffs, created>>
    BY <1>7 DEF CreateDatabase
  <2> QED
    BY <2>1, <1>0 DEF From, Paid, Late
<1>8. CASE LoadDefaults /\ ~Restarted
  <2>1. PICK ok \in BOOLEAN : /\ main = "defaults" /\ CreateHeader(ok)
                             /\ IF ok /\ "rfid_mutex" \notin created
                                  THEN Aborts
                                  ELSE main' = "net" /\ UNCHANGED <<butFaults, spiffs, created, server, time>>
    BY <1>8 DEF LoadDefaults
  <2>2. /\ main' = "net" /\ UNCHANGED <<spiffs, created>>
        /\ ok => "rfid_mutex" \in created
    BY <1>8, <2>1 DEF Aborts
  <2>3. spiffs # "unmounted" /\ ~ok => faults' = faults + 1
    BY <2>1 DEF CreateHeader, Fails
  <2> QED
    BY <2>1, <2>2, <2>3, <1>0 DEF Paid, Late
<1>9. CASE (InitNetwork \/ softap_init \/ sta_wifi_init \/ StartRadio) /\ ~Restarted
  <2>1. main \in Late /\ main' \in Late /\ UNCHANGED <<storage, created>>
    BY <1>9 DEF InitNetwork, softap_init, sta_wifi_init, StartRadio, Checked, Aborts, From, Late
  <2> QED
    BY <2>1, <1>0, PaidLate
<1>10. CASE app_local_server_init \/ app_local_server_start \/ time_sync_init
  <2>1. main \in Late /\ main' \in Late /\ UNCHANGED storage /\ created \subseteq created'
    BY <1>10 DEF app_local_server_init, app_local_server_start, time_sync_init, From, Late
  <2> QED
    BY <2>1, <1>0, PaidLate
<1>11. CASE obtain_time
  <2>1. main \in Late /\ main' \in Late /\ UNCHANGED <<storage, created>>
    BY <1>11 DEF obtain_time, Late
  <2> QED
    BY <2>1, <1>0, PaidLate
<1>12. CASE Synchronize \/ Running \/ UNCHANGED allVars
  <2>1. UNCHANGED <<main, storage, created>>
    BY <1>12 DEF Synchronize, Running, allVars, mainVars
  <2> QED
    BY <2>1, <1>0 DEF Paid, storage
<1> QED
  BY <1>1, <1>2, <1>3, <1>4, <1>5, <1>6, <1>7, <1>8, <1>9, <1>10, <1>11, <1>12
     DEF StartupNext, app_main, NoQueue, Aborts, Restart

LEMMA PaidSuffices == ASSUME TypeOK, StartupTypeOK, Paid PROVE CardsServed
<1>1. faults \in Nat /\ spiffs \in {"unmounted", "mounted", "initialized"}
  BY DEF TypeOK, StartupTypeOK
<1>2. \A n \in Nat : n >= 2 => n > 1
  OBVIOUS
<1> QED
  BY <1>1, <1>2 DEF Paid, CardsServed

\* However many calls of app_main fail in however many starts, the handlers of
\* /cards meet a database without its mutex, or a mounted file system with
\* spiffs_initialized false, only after more than one failure.
THEOREM CardsAreServed == StartupSpec => []CardsServed
<1>1. StartupSpec => []TypeOK
  BY StartupImplementsWifi, WifiTypeCorrect, PTL
<1>2. StartupSpec => []Paid
  BY <1>1, StartupTypeCorrect, PaidInit, PaidStep, PTL DEF StartupSpec
<1> QED
  BY <1>1, <1>2, StartupTypeCorrect, PaidSuffices, PTL

\* What WifiSta_proofs shows of credentials and station holds for the device as
\* app_main starts it: it rests after its retries or a refused attempt, and it
\* connects with the pair last stored, the ssid cut to 32 characters.
THEOREM StationKeepsItsPromises == StartupSpec => []RestsOnlyAfterRetries /\ UsesStored
  BY StartupImplementsWifi, RestsAfterRetries, BootUsesStored
=============================================================================
