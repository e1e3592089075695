--------------------------- MODULE WifiSta_proofs ---------------------------
(* The station's counter and the stored credentials, for any credentials,   *)
(* retries, requests, NVS errors and power cuts.                            *)
EXTENDS WifiSta, SequenceTheorems, TLAPS

LEMMA ConstantsOK == /\ None \notin Strings \cup Pairs
                     /\ Empty \in Strings /\ Long \subseteq Strings \ {Empty}
                     /\ Cut \in [Strings -> Strings] /\ Cut[Empty] = Empty
                     /\ Entries \subseteq Pairs /\ Compiled \in Pairs
                     /\ MaxRetry \in Nat /\ MaxSubmits \in Nat
                     /\ MaxFaults \in Nat /\ MaxCuts \in Nat
  BY WifiAssumption DEF WifiAssumption

-----------------------------------------------------------------------------
(* Type correctness.                                                        *)

LEMMA TypeInit == Init => TypeOK
<1> SUFFICES ASSUME Init PROVE TypeOK
  OBVIOUS
<1>1. flash \in Stored /\ pending \in Stored
  BY DEF Init, Stored, Nothing
<1>2. entered \in Pairs \cup {None} /\ (pc = "idle" <=> entered = None)
  BY DEF Init
<1>3. events \in Seq({"STA_START", "STA_DISCONNECTED", "GOT_IP"})
  BY DEF Init
<1>4. s_retry_num \in 0..MaxRetry /\ drops \in Nat
  BY ConstantsOK DEF Init
<1>5. refused \in BOOLEAN
  BY DEF Init
<1> QED
  BY <1>1, <1>2, <1>3, <1>4, <1>5 DEF Init, TypeOK

LEMMA OverrunTyped == ASSUME NEW p \in Pairs PROVE Overrun(p) \subseteq Pairs
  BY ConstantsOK DEF Overrun, Pairs, Keys

LEMMA CredentialsTyped == ASSUME TypeOK PROVE Credentials \subseteq Pairs
<1>1. CASE flash["_ssid"] = None
  BY <1>1, ConstantsOK DEF Credentials
<1>2. CASE flash["_ssid"] # None
  <2>1. \A k \in Keys : flash[k] \in Strings \cup {None}
    BY DEF TypeOK, Stored
  <2>2. \A k \in Keys : (IF flash[k] = None THEN Empty ELSE flash[k]) \in Strings
    BY <2>1, ConstantsOK
  <2>3. [k \in Keys |-> IF flash[k] = None THEN Empty ELSE flash[k]] \in Pairs
    BY <2>2 DEF Pairs
  <2> QED
    BY <1>2, <2>3, OverrunTyped DEF Credentials
<1> QED
  BY <1>1, <1>2

LEMMA FittedTyped == ASSUME NEW p \in Pairs PROVE Fitted(p) \in Pairs
  BY ConstantsOK DEF Fitted, Pairs, Keys

\* A restart of any kind.
LEMMA ResetTyped ==
    ASSUME TypeOK, Reset, cuts' \in Nat, faults' \in Nat
    PROVE  TypeOK'
<1>1. pending' \in Stored
  BY DEF Reset, Nothing, Stored
<1>2. s_retry_num' \in 0..MaxRetry
  BY ConstantsOK DEF Reset
<1>3. events' \in Seq({"STA_START", "STA_DISCONNECTED", "GOT_IP"})
  BY DEF Reset
<1>4. torn' \in BOOLEAN /\ refused' \in BOOLEAN
  BY DEF Reset
<1> QED
  BY <1>1, <1>2, <1>3, <1>4 DEF Reset, TypeOK

\* What the handler's steps have in common.
LEMMA SetTyped ==
    ASSUME TypeOK, pc # "idle", NEW key \in Keys, nvs_set_str(key)
    PROVE  flash' \in Stored /\ pending' \in Stored
<1>1. entered[key] \in Strings \cup {None}
  BY DEF TypeOK, Pairs
<1> QED
  BY <1>1 DEF TypeOK, nvs_set_str, Stored

LEMMA TypeStep == TypeOK /\ [Next]_vars => TypeOK'
<1> SUFFICES ASSUME TypeOK, [Next]_vars PROVE TypeOK'
  OBVIOUS
<1> USE ConstantsOK
<1>0. Nothing \in Stored
  BY DEF Nothing, Stored
<1>1. CASE wifi_init_sta
  <2>1. config' \in Pairs /\ faults' \in Nat
    BY <1>1, CredentialsTyped, FittedTyped DEF wifi_init_sta, TypeOK
  <2> QED
    BY <1>1, <2>1 DEF wifi_init_sta, TypeOK, nvs, handler, history
<1>1a. CASE esp_wifi_start
  BY <1>1a DEF esp_wifi_start, TypeOK, nvs, handler, history, bounds
<1>1b. CASE EraseNvs
  <2>1. flash' \in Stored /\ acknowledged' = None
    BY <1>1b, <1>0 DEF EraseNvs
  <2>1a. torn' \in BOOLEAN
    BY <1>1b DEF EraseNvs
  <2>1b. faults' \in Nat
    BY <1>1b DEF EraseNvs, TypeOK
  <2>2. UNCHANGED <<pending, pc, entered, config, link, events, s_retry_num, drops, refused, submits,
                    cuts>>
    BY <1>1b DEF EraseNvs, handler, station
  <2> QED
    BY <2>1, <2>1a, <2>1b, <2>2 DEF TypeOK
<1>2. CASE PowerCut \/ Abort
  <2>1. Reset /\ cuts' \in Nat /\ faults' \in Nat
    BY <1>2 DEF PowerCut, Abort, TypeOK
  <2> QED
    BY <2>1, ResetTyped
<1>2a. CASE Elsewhere
  BY <1>2a DEF Elsewhere, TypeOK, butFaults, nvs, handler, station, history
<1>3. CASE Submit
  <2>1. entered' \in Pairs /\ entered' # None
    BY <1>3 DEF Submit
  <2> QED
    BY <1>3, <2>1 DEF Submit, TypeOK, nvs, station, history
<1>4. CASE NvsFails
  BY <1>4, <1>0 DEF NvsFails, TypeOK, station
<1>5. CASE nvs_open
  BY <1>5 DEF nvs_open, TypeOK, nvs, station, history, bounds
<1>6. CASE WriteSsid
  <2>1. flash' \in Stored /\ pending' \in Stored
    BY <1>6, SetTyped DEF WriteSsid, Keys
  <2> QED
    BY <1>6, <2>1 DEF WriteSsid, nvs_set_str, TypeOK, station, history, bounds
<1>7. CASE WritePassword
  <2>1. flash' \in Stored /\ pending' \in Stored
    BY <1>7, SetTyped DEF WritePassword, Keys
  <2> QED
    BY <1>7, <2>1 DEF WritePassword, nvs_set_str, TypeOK, station, history, bounds
<1>8. CASE CommitPartly
  <2>1. flash' \in Stored /\ pending' \in Stored
    BY <1>8 DEF CommitPartly, TypeOK, Stored
  <2> QED
    BY <1>8, <2>1 DEF CommitPartly, TypeOK, station, history, bounds
<1>9. CASE nvs_commit
  BY <1>9 DEF nvs_commit, TypeOK, nvs, station, bounds
<1>10. CASE Reply
  BY <1>10 DEF Reply, TypeOK, nvs, station, history, bounds
<1>11. CASE Driver
  <2>1. events' \in Seq({"STA_START", "STA_DISCONNECTED", "GOT_IP"})
    BY <1>11 DEF Driver, Associate, AttemptFails, LinkLost, GetAddress, Dropped, Post, TypeOK
  <2>2. drops' \in Nat /\ link' \in {"stopped", "off", "connecting", "associated", "up"}
    BY <1>11 DEF Driver, Associate, AttemptFails, LinkLost, GetAddress, Dropped, TypeOK
  <2>3. Unmoved
    BY <1>11 DEF Driver, Associate, AttemptFails, LinkLost, GetAddress
  <2> QED
    BY <2>1, <2>2, <2>3 DEF Unmoved, TypeOK, nvs, handler, history, bounds
<1>12. CASE event_handler
  <2>1. PICK e \in {"STA_START", "STA_DISCONNECTED", "GOT_IP"} : Handled(e)
    BY <1>12 DEF event_handler, StationStarted, Retry, GiveUp, GotIp
  <2>2. events' \in Seq({"STA_START", "STA_DISCONNECTED", "GOT_IP"})
    BY <2>1 DEF Handled, TypeOK
  <2>3. s_retry_num' \in 0..MaxRetry
    BY <1>12 DEF event_handler, StationStarted, Retry, GiveUp, GotIp, TypeOK
  <2>4. link' \in {"stopped", "off", "connecting", "associated", "up"} /\ faults' \in Nat
    BY <1>12 DEF event_handler, StationStarted, Retry, GiveUp, GotIp, esp_wifi_connect, TypeOK
  <2>5. refused' = refused \/ refused' = TRUE
    BY <1>12 DEF event_handler, StationStarted, Retry, GiveUp, GotIp, esp_wifi_connect
  <2>6. refused' \in BOOLEAN
    BY <2>5 DEF TypeOK
  <2> QED
    BY <2>1, <2>2, <2>3, <2>4, <2>6 DEF Handled, TypeOK, nvs, handler, history
<1>13. CASE UNCHANGED vars
  BY <1>13 DEF vars, TypeOK, nvs, handler, station, history, bounds
<1> QED
  BY <1>1, <1>1a, <1>1b, <1>2, <1>2a, <1>3, <1>4, <1>5, <1>6, <1>7, <1>8, <1>9, <1>10, <1>11,
     <1>12, <1>13 DEF Next, Store

\* Every variable has its type; in particular the retries stay within
\* EXAMPLE_ESP_MAXIMUM_RETRY in event_handler.
THEOREM WifiTypeCorrect == Spec => []TypeOK
<1>1. TypeOK /\ [Next]_vars => TypeOK'
  BY TypeStep
<1> QED
  BY TypeInit, <1>1, PTL DEF Spec

-----------------------------------------------------------------------------
(* The counter and the event queue.  A disconnect is always the last event, *)
(* because nothing moves before it has been handled; an address may still   *)
(* wait in front of it.                                                     *)

Counted ==
    /\ config = None => link = "stopped"
    /\ link = "stopped" => events = <<>> /\ s_retry_num = 0 /\ drops = 0
    /\ Len(events) <= 2
    /\ link # "stopped" /\ Len(events) = 0 =>
         \/ link \in {"connecting", "associated"} /\ drops = s_retry_num
         \/ link = "up" /\ drops = 0 /\ s_retry_num = 0
         \/ link = "off" /\ (drops = MaxRetry + 1 \/ refused)
    /\ Len(events) = 1 =>
         \/ events[1] = "STA_START" /\ link = "off" /\ drops = 0 /\ s_retry_num = 0
         \/ events[1] = "GOT_IP" /\ link = "up" /\ drops = 0
         \/ events[1] = "STA_DISCONNECTED" /\ link = "off" /\ drops = s_retry_num + 1
    /\ Len(events) = 2 =>
         /\ events[1] = "GOT_IP" /\ events[2] = "STA_DISCONNECTED"
         /\ link = "off" /\ drops = 1

LEMMA UpToTwo == \A n \in Nat : n <= 2 => n = 0 \/ n = 1 \/ n = 2
  OBVIOUS

LEMMA CountedInit == Init => Counted
  BY DEF Init, Counted

\* What a step that leaves the station alone preserves.
LEMMA CountedStays ==
    ASSUME Counted, UNCHANGED <<config, link, events, s_retry_num, drops, refused>>
    PROVE  Counted'
  BY DEF Counted

LEMMA CountedStep == TypeOK /\ Counted /\ [Next]_vars => Counted'
<1> SUFFICES ASSUME TypeOK, Counted, [Next]_vars PROVE Counted'
  OBVIOUS
<1> USE ConstantsOK
<1>0. /\ events \in Seq({"STA_START", "STA_DISCONNECTED", "GOT_IP"})
      /\ s_retry_num \in 0..MaxRetry /\ drops \in Nat
      /\ s_retry_num \in Nat
  BY DEF TypeOK
<1>00. (Len(events) = 0 \/ Len(events) = 1 \/ Len(events) = 2) /\ (events = <<>> <=> Len(events) = 0)
  <2>1. Len(events) \in Nat
    BY <1>0
  <2>2. Len(events) <= 2
    BY DEF Counted
  <2>3. events = <<>> <=> Len(events) = 0
    BY <1>0
  <2>4. Len(events) = 0 \/ Len(events) = 1 \/ Len(events) = 2
    BY <2>1, <2>2, UpToTwo
  <2> QED
    BY <2>3, <2>4
<1>1. CASE wifi_init_sta
  <2>1. config' # None
    BY <1>1, CredentialsTyped, FittedTyped DEF wifi_init_sta
  <2>2. UNCHANGED <<link, events, s_retry_num, drops, refused>>
    BY <1>1 DEF wifi_init_sta
  <2> QED
    BY <2>1, <2>2 DEF Counted
<1>1a. CASE esp_wifi_start
  <2>1. /\ events' = <<"STA_START">> /\ link' = "off" /\ UNCHANGED <<config, s_retry_num, drops>>
        /\ drops = 0 /\ s_retry_num = 0 /\ config # None
    BY <1>1a DEF esp_wifi_start, Counted
  <2>2. Len(events') = 1 /\ events'[1] = "STA_START"
    BY <2>1
  <2> QED
    BY <2>1, <2>2 DEF Counted
<1>2. CASE PowerCut \/ Abort
  <2>1. Reset
    BY <1>2 DEF PowerCut, Abort
  <2>2. /\ config' = None /\ link' = "stopped" /\ events' = <<>> /\ s_retry_num' = 0 /\ drops' = 0
        /\ Len(events') = 0
    BY <2>1 DEF Reset
  <2> QED
    BY <2>2 DEF Counted
<1>3. CASE Submit \/ Store \/ EraseNvs \/ Elsewhere
  <2>1. UNCHANGED station
    BY <1>3 DEF EraseNvs, Elsewhere, butFaults, Submit, Store, NvsFails, nvs_open, WriteSsid, WritePassword, nvs_set_str,
                CommitPartly, nvs_commit, Reply
  <2> QED
    BY <2>1, CountedStays DEF station
<1>4. CASE Driver
  <2>0. UNCHANGED <<config, s_retry_num, refused>> /\ config # None /\ link # "stopped" /\ link' # "stopped"
    BY <1>4 DEF Driver, Associate, AttemptFails, LinkLost, GetAddress, Dropped, Unmoved, Counted
  <2>1. CASE Associate
    BY <2>0, <2>1, <1>0, <1>00 DEF Associate, Counted
  <2>2. CASE AttemptFails
    <3>1. Len(events) = 0 /\ drops = s_retry_num
      BY <2>2, <2>0, <1>0, <1>00 DEF AttemptFails, Counted
    <3>2. Len(events') = 1 /\ events'[1] = "STA_DISCONNECTED"
      BY <2>2, <3>1, <1>0 DEF AttemptFails, Dropped, Post
    <3>3. drops' = s_retry_num + 1 /\ link' = "off"
      BY <2>2, <3>1, <1>0 DEF AttemptFails, Dropped
    <3> QED
      BY <2>0, <3>2, <3>3 DEF Counted
  <2>3. CASE LinkLost
    <3>1. CASE Len(events) = 0
      <4>1. drops = s_retry_num
        BY <2>3, <2>0, <3>1, <1>0 DEF LinkLost, Counted
      <4>2. Len(events') = 1 /\ events'[1] = "STA_DISCONNECTED"
        BY <2>3, <3>1, <1>0 DEF LinkLost, Dropped, Post
      <4>3. drops' = s_retry_num + 1 /\ link' = "off"
        BY <2>3, <4>1, <1>0 DEF LinkLost, Dropped
      <4> QED
        BY <2>0, <4>2, <4>3 DEF Counted
    <3>2. CASE Len(events) # 0
      <4>1. Len(events) = 1 /\ events[1] = "GOT_IP" /\ drops = 0
        BY <2>3, <2>0, <3>2, <1>00 DEF LinkLost, Counted
      <4>0. events' = Append(events, "STA_DISCONNECTED")
        BY <2>3 DEF LinkLost, Dropped, Post
      <4>2. Len(events') = 2 /\ events'[1] = "GOT_IP" /\ events'[2] = "STA_DISCONNECTED"
        <5>1. /\ Len(events') = Len(events) + 1 /\ events'[Len(events) + 1] = "STA_DISCONNECTED"
              /\ \A i \in 1..Len(events) : events'[i] = events[i]
          BY <4>0, <1>0, AppendProperties
        <5> QED
          BY <5>1, <4>1
      <4>3. drops' = 1 /\ link' = "off"
        BY <2>3, <4>1, <1>0 DEF LinkLost, Dropped
      <4> QED
        BY <2>0, <4>2, <4>3 DEF Counted
    <3> QED
      BY <3>1, <3>2
  <2>4. CASE GetAddress
    <3>1. Len(events) = 0
      BY <2>4, <2>0, <1>00 DEF GetAddress, Counted
    <3>2. Len(events') = 1 /\ events'[1] = "GOT_IP"
      BY <2>4, <3>1, <1>0 DEF GetAddress, Post
    <3>3. drops' = 0 /\ link' = "up"
      BY <2>4 DEF GetAddress
    <3> QED
      BY <2>0, <3>2, <3>3 DEF Counted
  <2> QED
    BY <1>4, <2>1, <2>2, <2>3, <2>4 DEF Driver
<1>5. CASE event_handler
  <2>0. /\ events # <<>> /\ events' = Tail(events) /\ UNCHANGED <<config, drops>>
        /\ Len(events) \in {1, 2} /\ Len(events') = Len(events) - 1
    <3>1. /\ events # <<>> /\ events' = Tail(events) /\ UNCHANGED <<config, drops>>
      BY <1>5 DEF event_handler, StationStarted, Retry, GiveUp, GotIp, Handled
    <3> QED
      BY <3>1, <1>0, <1>00
  <2>1. config # None /\ link # "stopped" /\ link' # "stopped"
    BY <1>5, <2>0 DEF Counted, event_handler, StationStarted, Retry, GiveUp, GotIp,
                      esp_wifi_connect
  <2>2. CASE Len(events) = 1
    <3>0. Len(events') = 0 /\ Head(events) = events[1]
      BY <2>0, <2>2, <1>0
    <3>1. CASE events[1] = "STA_START"
      <4>1. /\ link' = "connecting" \/ (link' = "off" /\ refused')
            /\ drops' = 0 /\ s_retry_num' = 0
        BY <1>5, <3>0, <3>1, <2>0, <2>2
           DEF event_handler, StationStarted, Retry, GiveUp, GotIp, Handled, Counted,
               esp_wifi_connect
      <4> QED
        BY <4>1, <3>0, <2>0, <2>1 DEF Counted
    <3>2. CASE events[1] = "GOT_IP"
      <4>1. link' = "up" /\ drops' = 0 /\ s_retry_num' = 0
        BY <1>5, <3>0, <3>2, <2>0, <2>2
           DEF event_handler, StationStarted, Retry, GiveUp, GotIp, Handled, Counted
      <4> QED
        BY <4>1, <3>0, <2>0, <2>1 DEF Counted
    <3>3. CASE events[1] = "STA_DISCONNECTED"
      <4>1. link = "off" /\ drops = s_retry_num + 1
        BY <3>3, <2>2 DEF Counted
      <4>2. CASE Retry
        <5>1. link' = "connecting" \/ (link' = "off" /\ refused')
          BY <4>1, <4>2 DEF Retry, esp_wifi_connect
        <5>2. s_retry_num' = s_retry_num + 1
          BY <4>2 DEF Retry
        <5> QED
          BY <4>1, <5>1, <5>2, <3>0, <2>0, <2>1, <1>0 DEF Counted
      <4>3. CASE GiveUp
        BY <4>1, <4>3, <3>0, <2>0, <2>1, <1>0 DEF GiveUp, Counted
      <4> QED
        BY <1>5, <3>0, <3>3, <4>2, <4>3 DEF event_handler, StationStarted, GotIp, Handled
    <3> QED
      BY <2>2, <3>1, <3>2, <3>3 DEF Counted
  <2>3. CASE Len(events) = 2
    <3>1. events[1] = "GOT_IP" /\ events[2] = "STA_DISCONNECTED" /\ link = "off" /\ drops = 1
      BY <2>3 DEF Counted
    <3>2. s_retry_num' = 0 /\ UNCHANGED link
      BY <1>5, <3>1, <2>3, <1>0 DEF event_handler, StationStarted, Retry, GiveUp, GotIp, Handled
    <3>3. Len(events') = 1 /\ events'[1] = "STA_DISCONNECTED"
      BY <2>0, <2>3, <3>1, <1>0
    <3> QED
      BY <2>0, <2>1, <3>1, <3>2, <3>3 DEF Counted
  <2> QED
    BY <2>0, <2>2, <2>3
<1>6. CASE UNCHANGED vars
  BY <1>6, CountedStays DEF vars, station
<1> QED
  BY <1>1, <1>1a, <1>2, <1>3, <1>4, <1>5, <1>6 DEF Next

LEMMA CountedSuffices == TypeOK /\ Counted => RestsOnlyAfterRetries
  BY DEF Counted, RestsOnlyAfterRetries, Resting, TypeOK

\* The station of app_wifi.c rests only when the first attempt and all
\* retries since the last address have failed, or esp_wifi_connect has
\* returned an error since the device was started.
THEOREM RestsAfterRetries == Spec => []RestsOnlyAfterRetries
<1>1. TypeOK /\ Counted /\ [Next]_vars => Counted'
  BY CountedStep
<1> QED
  BY WifiTypeCorrect, CountedInit, <1>1, CountedSuffices, PTL DEF Spec

-----------------------------------------------------------------------------
(* The stored pair.  Between two stores NVS holds what was last stored;     *)
(* during one, every key written so far is in NVS or still pending.         *)

Quiet == {"idle", "open", "ssid", "reply"}
Written(k) ==
    \/ flash[k] = entered[k] /\ pending[k] = None
    \/ pending[k] = entered[k]

InNvs ==
    /\ config = None => link = "stopped"
    /\ link = "stopped" => pc = "idle"
    /\ pc \in Quiet => pending = Nothing
    /\ pc \in Quiet /\ ~torn => flash = IF acknowledged = None THEN Nothing ELSE acknowledged
    /\ pc = "password" => Written("_ssid") /\ pending["_password"] = None
    /\ pc = "commit" => \A k \in Keys : Written(k)

LEMMA InNvsInit == Init => InNvs
  BY DEF Init, InNvs, Quiet

LEMMA InNvsStays ==
    ASSUME InNvs, UNCHANGED <<flash, pending, pc, entered, config, acknowledged, torn>>,
           link' = "stopped" <=> link = "stopped"
    PROVE  InNvs'
  BY DEF InNvs, Written, Quiet

LEMMA InNvsStep == TypeOK /\ Counted /\ InNvs /\ [Next]_vars => InNvs'
<1> SUFFICES ASSUME TypeOK, Counted, InNvs, [Next]_vars PROVE InNvs'
  OBVIOUS
<1> USE DEF Quiet
<1>0. /\ DOMAIN flash = Keys /\ DOMAIN pending = Keys
      /\ flash = [k \in Keys |-> flash[k]]
      /\ pc # "idle" => DOMAIN entered = Keys /\ entered = [k \in Keys |-> entered[k]]
  BY DEF TypeOK, Stored, Pairs
<1>1. CASE wifi_init_sta \/ esp_wifi_start
  <2>1. UNCHANGED <<nvs, handler, history>> /\ pc = "idle" /\ (config' = None => link' = "stopped")
    BY <1>1, CredentialsTyped, FittedTyped, ConstantsOK DEF wifi_init_sta, esp_wifi_start, InNvs
  <2> QED
    BY <2>1 DEF InNvs, Written, nvs, handler, history
<1>1a. CASE EraseNvs
  <2>1. /\ pc = "idle" /\ pc' = "idle" /\ flash' = Nothing /\ acknowledged' = None
        /\ UNCHANGED <<pending, config, link>>
    BY <1>1a DEF EraseNvs, InNvs, handler, station
  <2> QED
    BY <2>1 DEF InNvs
<1>2. CASE PowerCut \/ Abort
  <2>0. Reset
    BY <1>2 DEF PowerCut, Abort
  <2>1. /\ pc' = "idle" /\ pending' = Nothing /\ link' = "stopped"
        /\ UNCHANGED <<flash, acknowledged>>
    BY <2>0 DEF Reset
  <2>2. ~torn' => ~torn /\ pc \in Quiet
    BY <2>0 DEF Reset, TypeOK
  <2> QED
    BY <2>1, <2>2 DEF InNvs
<1>3. CASE Submit
  <2>1. /\ pc = "idle" /\ pc' = "open" /\ link # "stopped"
        /\ UNCHANGED <<flash, pending, config, link, acknowledged, torn>>
    BY <1>3 DEF Submit, nvs, station, history
  <2> QED
    BY <2>1 DEF InNvs
<1>4. CASE NvsFails
  <2>1. /\ pc # "idle" /\ pc' = "reply" /\ pending' = Nothing
        /\ UNCHANGED <<flash, acknowledged, config, link>>
    BY <1>4 DEF NvsFails, station
  <2>2. ~torn' => ~torn /\ pc \in Quiet
    BY <1>4 DEF NvsFails
  <2> QED
    BY <2>1, <2>2 DEF InNvs
<1>5. CASE nvs_open
  <2>1. pc = "open" /\ pc' = "ssid" /\ UNCHANGED <<flash, pending, config, link, acknowledged, torn>>
    BY <1>5 DEF nvs_open, nvs, station, history
  <2> QED
    BY <2>1 DEF InNvs
<1>6. CASE WriteSsid
  <2>1. pc = "ssid" /\ pc' = "password" /\ config # None /\ link # "stopped"
    BY <1>6 DEF WriteSsid, InNvs
  <2>2. UNCHANGED <<entered, config, link>>
    BY <1>6 DEF WriteSsid, nvs_set_str, station
  <2>3. pending["_ssid"] = None /\ pending["_password"] = None
    BY <2>1 DEF InNvs, Nothing, Keys
  <2>4. Written("_ssid")' /\ pending'["_password"] = None
    BY <1>6, <2>2, <2>3, <1>0 DEF WriteSsid, nvs_set_str, Written, Keys
  <2> QED
    BY <2>1, <2>2, <2>4 DEF InNvs
<1>7. CASE WritePassword
  <2>1. pc = "password" /\ pc' = "commit" /\ config # None /\ link # "stopped"
    BY <1>7 DEF WritePassword, InNvs
  <2>2. UNCHANGED <<entered, config, link>>
    BY <1>7 DEF WritePassword, nvs_set_str, station
  <2>3. Written("_ssid") /\ pending["_password"] = None
    BY <2>1 DEF InNvs
  <2>4. Written("_ssid")'
    BY <1>7, <2>2, <2>3, <1>0 DEF WritePassword, nvs_set_str, Written, Keys
  <2>5. Written("_password")'
    BY <1>7, <2>2, <2>3, <1>0 DEF WritePassword, nvs_set_str, Written, Keys
  <2>6. (\A k \in Keys : Written(k))'
    BY <2>4, <2>5 DEF Keys
  <2> QED
    BY <2>1, <2>2, <2>6 DEF InNvs
<1>8. CASE CommitPartly
  <2>1. /\ pc = "commit" /\ pc' = "commit" /\ config # None /\ link # "stopped"
        /\ UNCHANGED <<entered, config, link>>
    BY <1>8 DEF CommitPartly, InNvs, station
  <2>2. PICK k \in Keys : /\ pending[k] # None
                          /\ flash' = [flash EXCEPT ![k] = pending[k]]
                          /\ pending' = [pending EXCEPT ![k] = None]
    BY <1>8 DEF CommitPartly
  <2>3. \A j \in Keys : Written(j)
    BY <2>1 DEF InNvs
  <2>4. ASSUME NEW j \in Keys PROVE Written(j)'
    BY <2>1, <2>2, <2>3, <1>0 DEF Written
  <2> QED
    BY <2>1, <2>4 DEF InNvs
<1>9. CASE nvs_commit
  <2>1. /\ pc = "commit" /\ pc' = "reply" /\ pending = Nothing /\ acknowledged' = entered
        /\ UNCHANGED <<flash, pending, config, link>> /\ config # None /\ link # "stopped"
    BY <1>9 DEF nvs_commit, nvs, station, InNvs
  <2>2. \A k \in Keys : flash[k] = entered[k]
    <3> SUFFICES ASSUME NEW k \in Keys PROVE flash[k] = entered[k]
      OBVIOUS
    <3>1. pending[k] = None /\ Written(k)
      BY <2>1 DEF InNvs, Nothing
    <3>2. entered[k] # None
      BY <2>1, ConstantsOK DEF TypeOK, Pairs
    <3> QED
      BY <3>1, <3>2 DEF Written
  <2>3. flash = entered
    BY <2>1, <2>2, <1>0
  <2>4. entered # None
    BY <2>1 DEF TypeOK
  <2> QED
    BY <2>1, <2>3, <2>4 DEF InNvs
<1>10. CASE Reply
  <2>1. /\ pc = "reply" /\ pc' = "idle"
        /\ UNCHANGED <<flash, pending, config, link, acknowledged, torn>>
    BY <1>10 DEF Reply, nvs, station, history
  <2> QED
    BY <2>1 DEF InNvs
<1>11. CASE Driver \/ event_handler
  <2>1. /\ UNCHANGED <<nvs, handler, config, history>>
        /\ link = "stopped" => events = <<>>
    BY <1>11 DEF Driver, Associate, AttemptFails, LinkLost, GetAddress, Unmoved, Counted,
                 event_handler, StationStarted, Retry, GiveUp, GotIp, Handled
  <2>2. link' = "stopped" <=> link = "stopped"
    BY <1>11, <2>1 DEF Driver, Associate, AttemptFails, LinkLost, GetAddress, Dropped,
                 event_handler, StationStarted, Retry, GiveUp, GotIp, Handled, esp_wifi_connect
  <2> QED
    BY <2>1, <2>2, InNvsStays DEF nvs, handler, history
<1>11a. CASE Elsewhere
  BY <1>11a, InNvsStays DEF Elsewhere, butFaults, nvs, handler, station, history
<1>12. CASE UNCHANGED vars
  BY <1>12, InNvsStays DEF vars, nvs, handler, station, history
<1> QED
  BY <1>1, <1>1a, <1>2, <1>3, <1>4, <1>5, <1>6, <1>7, <1>8, <1>9, <1>10, <1>11, <1>11a, <1>12
     DEF Next, Store

\* What wifi_init_sta gives to the driver is what the handler of /wifiConnect
\* last stored, its ssid cut as strncpy cuts it to the 32 characters of sta.ssid,
\* or the compiled pair: a store that was interrupted aside, no ssid ever meets
\* the password of another.
THEOREM BootUsesStored == Spec => UsesStored
<1> DEFINE Uses ==
      config = None /\ config' # None /\ ~torn =>
          \/ config' = Fitted(Compiled) /\ (acknowledged = None \/ faults' # faults)
          \/ acknowledged # None /\ config' = Fitted(acknowledged)
          \/ /\ acknowledged # None /\ acknowledged["_password"] \in Long
             /\ config' = [acknowledged EXCEPT !["_ssid"] = Empty]
<1>1. ASSUME TypeOK, Counted, InNvs, [Next]_vars PROVE [Uses]_vars
  <2> SUFFICES ASSUME config = None, config' # None, ~torn
               PROVE  Uses
    OBVIOUS
  <2>1. wifi_init_sta
    BY <1>1 DEF Next, EraseNvs, esp_wifi_start, PowerCut, Abort, Reset, Elsewhere, butFaults,
                Submit, Store, NvsFails, nvs_open, WriteSsid, WritePassword,
                nvs_set_str, CommitPartly, nvs_commit, Reply, Driver, Associate, AttemptFails,
                LinkLost, GetAddress, Unmoved, event_handler, StationStarted, Retry, GiveUp,
                GotIp, Handled, station, vars
  <2>2. flash = IF acknowledged = None THEN Nothing ELSE acknowledged
    BY <1>1 DEF InNvs, Quiet
  <2>3. CASE faults' = faults + 1 /\ config' = Fitted(Compiled)
    BY <2>3, <1>1 DEF TypeOK
  <2>4. ASSUME NEW pair \in Credentials, config' = Fitted(pair) PROVE Uses
    <3>1. CASE acknowledged = None
      <4>1. flash["_ssid"] = None
        BY <2>2, <3>1 DEF Nothing, Keys
      <4> QED
        BY <2>4, <3>1, <4>1 DEF Credentials
    <3>2. CASE acknowledged # None
      <4>1. flash = acknowledged /\ acknowledged \in Pairs
        BY <1>1, <2>2, <3>2 DEF TypeOK
      <4>2. \A k \in Keys : flash[k] # None
        BY <4>1, ConstantsOK DEF Pairs
      <4>3. flash["_ssid"] # None
        BY <4>2 DEF Keys
      <4>4. [k \in Keys |-> IF flash[k] = None THEN Empty ELSE flash[k]] = acknowledged
        <5>1. [k \in Keys |-> IF flash[k] = None THEN Empty ELSE flash[k]] = [k \in Keys |-> flash[k]]
          BY <4>2
        <5> QED
          BY <4>1, <5>1 DEF Pairs
      <4>5. pair \in Overrun(acknowledged)
        BY <4>3, <4>4 DEF Credentials
      <4>6. CASE pair = acknowledged
        BY <2>4, <3>2, <4>6
      <4>7. CASE /\ acknowledged["_password"] \in Long
                 /\ pair = [acknowledged EXCEPT !["_ssid"] = Empty]
        <5>1. Fitted(pair) = [acknowledged EXCEPT !["_ssid"] = Empty]
          BY <4>1, <4>7, ConstantsOK DEF Fitted, Pairs, Keys
        <5> QED
          BY <2>4, <3>2, <4>7, <5>1
      <4> QED
        BY <4>5, <4>6, <4>7 DEF Overrun
    <3> QED
      BY <3>1, <3>2
  <2> QED
    BY <2>1, <2>3, <2>4 DEF wifi_init_sta
<1>2. TypeOK /\ Counted /\ InNvs /\ [Next]_vars => InNvs'
  BY InNvsStep
<1>3. Spec => []Counted
  BY WifiTypeCorrect, CountedInit, CountedStep, PTL DEF Spec
<1> QED
  BY WifiTypeCorrect, InNvsInit, <1>1, <1>2, <1>3, PTL DEF Spec, UsesStored
=============================================================================
