------------------------------ MODULE WifiSta ------------------------------
(* The station's side of the firmware: the credentials that the handler of  *)
(* /wifiConnect stores through nvs_storage.c, what wifi_init_sta makes of   *)
(* them at the next boot, and the event handler of app_wifi.c that connects *)
(* and retries.  NVS and the WiFi driver are ESP-IDF's and are modelled     *)
(* from how the code uses them.  Module Startup puts this into app_main.    *)
EXTENDS Integers, Sequences

CONSTANTS
    Strings,     \* ssids and passwords
    Empty,       \* the empty one
    Long,        \* those of 63 characters, which fill the handler's arrays
    Cut,         \* Cut[s]: the first 32 characters of s
    Entries,     \* the pairs that clients send
    Compiled,    \* CONFIG_ESP_WIFI_SSID and _PASSWORD
    None,        \* a key that NVS does not have
    MaxRetry,    \* CONFIG_ESP_MAXIMUM_RETRY
    MaxSubmits, MaxFaults, MaxCuts  \* bounds: requests, failures, restarts

Keys == {"_ssid", "_password"}
Pairs == [Keys -> Strings]
Stored == [Keys -> Strings \cup {None}]
Nothing == [k \in Keys |-> None]

ASSUME WifiAssumption ==
    /\ None \notin Strings \cup Pairs
    /\ Empty \in Strings /\ Long \subseteq Strings \ {Empty}
    /\ Cut \in [Strings -> Strings] /\ \A s \in Strings : Cut[s] = Empty <=> s = Empty
    /\ Entries \subseteq Pairs /\ Compiled \in Pairs
    /\ MaxRetry \in Nat /\ MaxSubmits \in Nat /\ MaxFaults \in Nat /\ MaxCuts \in Nat

VARIABLES
    flash,        \* the two keys in NVS
    pending,      \* what nvs_set_str has taken and nvs_commit has not yet written
    pc, entered,  \* the handler of /wifiConnect, and the pair it stores, if any
    config,       \* wifi_config.sta; None before boot has set it
    link,         \* the driver: not started, or the state of the station
    events,       \* of the default event loop
    s_retry_num,
    drops,        \* history: disconnects since the last address
    refused,      \* history: esp_wifi_connect has returned an error
    acknowledged, \* history: the last pair stored without an error
    torn,         \* history: a later store was cut or failed
    submits, faults, cuts

nvs == <<flash, pending>>
handler == <<pc, entered>>
station == <<config, link, events, s_retry_num, drops, refused>>
history == <<acknowledged, torn>>
bounds == <<submits, faults, cuts>>
butFaults == <<nvs, handler, station, history, submits, cuts>>
vars == <<nvs, handler, station, history, bounds>>

TypeOK ==
    /\ flash \in Stored /\ pending \in Stored
    /\ pc \in {"idle", "open", "ssid", "password", "commit", "reply"}
    /\ entered \in Pairs \cup {None} /\ (pc = "idle" <=> entered = None)
    /\ config \in Pairs \cup {None}
    /\ link \in {"stopped", "off", "connecting", "associated", "up"}
    /\ events \in Seq({"STA_START", "STA_DISCONNECTED", "GOT_IP"})
    /\ s_retry_num \in 0..MaxRetry /\ drops \in Nat /\ refused \in BOOLEAN
    /\ acknowledged \in Pairs \cup {None} /\ torn \in BOOLEAN
    /\ submits \in Nat /\ faults \in Nat /\ cuts \in Nat

-----------------------------------------------------------------------------
(* Boot.                                                                    *)

\* The code ends each string one byte behind the terminator that NVS counts in
\* its length: with a password of 63 characters, behind the caller's array.
\* Where the compiler puts the array of the ssid there, the ssid is gone; after
\* the ssid the password is still to be read, so that way nothing is lost.
Overrun(pair) ==
    IF pair["_password"] \in Long THEN {pair, [pair EXCEPT !["_ssid"] = Empty]} ELSE {pair}

\* nvs_storage_get_wifi_credentials: a missing password is left empty, an
\* empty ssid, which NVS keeps with its terminator, counts as there.
Credentials ==
    IF flash["_ssid"] = None THEN {Compiled}
    ELSE Overrun([k \in Keys |-> IF flash[k] = None THEN Empty ELSE flash[k]])

\* nvs_storage_init with the pages used up or of another version.
EraseNvs ==
    /\ config = None /\ faults' = faults + 1
    /\ flash' = Nothing /\ acknowledged' = None /\ torn' = FALSE
    /\ UNCHANGED <<pending, handler, station, submits, cuts>>

\* sta.ssid has room for 32 characters, sta.password for 64.
Fitted(pair) == [pair EXCEPT !["_ssid"] = Cut[pair["_ssid"]]]

\* If NVS cannot be read the pair compiled into the firmware is used.  The
\* scan fails, because the driver has not been started.
wifi_init_sta ==
    /\ config = None
    /\ \/ \E pair \in Credentials : config' = Fitted(pair) /\ UNCHANGED faults
       \/ faults < MaxFaults /\ faults' = faults + 1 /\ config' = Fitted(Compiled)
    /\ UNCHANGED <<nvs, handler, link, events, s_retry_num, drops, refused, history, submits, cuts>>

\* The driver starts the station and the access point.
esp_wifi_start ==
    /\ config # None /\ link = "stopped"
    /\ link' = "off" /\ events' = <<"STA_START">>
    /\ UNCHANGED <<nvs, handler, config, s_retry_num, drops, refused, history, bounds>>

\* Whatever was not in flash is lost.
Reset ==
    /\ pending' = Nothing /\ pc' = "idle" /\ entered' = None
    /\ torn' = (torn \/ pc \in {"ssid", "password", "commit"})
    /\ config' = None /\ link' = "stopped" /\ events' = <<>> /\ s_retry_num' = 0
    /\ drops' = 0 /\ refused' = FALSE
    /\ UNCHANGED <<flash, acknowledged, submits>>

\* Power fails, or the timer of a firmware update restarts the device.
PowerCut == cuts < MaxCuts /\ cuts' = cuts + 1 /\ Reset /\ UNCHANGED faults

\* A failed ESP_ERROR_CHECK or assert, and a failure that this module does not
\* notice.
Abort == Reset /\ faults' \in {faults, faults + 1} /\ UNCHANGED cuts
Elsewhere == faults' = faults + 1 /\ UNCHANGED butFaults

-----------------------------------------------------------------------------
(* POST /wifiConnect, in httpd's task.                                      *)

\* The headers are cut to 63 characters.  app.js refuses empty fields, a client
\* without the headers does not.
Submit ==
    /\ link # "stopped" /\ pc = "idle" /\ submits < MaxSubmits
    /\ submits' = submits + 1
    /\ entered' \in Entries /\ pc' = "open"
    /\ UNCHANGED <<nvs, station, history, faults, cuts>>

\* Any error ends the store; nvs_close drops what is pending, and the handler
\* answers as after a success.
NvsFails ==
    /\ pc \in {"open", "ssid", "password", "commit"}
    /\ faults < MaxFaults /\ faults' = faults + 1
    /\ pc' = "reply" /\ pending' = Nothing
    /\ torn' = (torn \/ pc # "open")
    /\ UNCHANGED <<flash, entered, station, acknowledged, submits, cuts>>

nvs_open ==
    /\ pc = "open" /\ pc' = "ssid"
    /\ UNCHANGED <<nvs, entered, station, history, bounds>>

\* Values are written by nvs_commit, or before ("Implementations may write to
\* storage at other times").
nvs_set_str(key) ==
    /\ \/ flash' = [flash EXCEPT ![key] = entered[key]] /\ UNCHANGED pending
       \/ pending' = [pending EXCEPT ![key] = entered[key]] /\ UNCHANGED flash
    /\ UNCHANGED <<entered, station, history, bounds>>

WriteSsid == pc = "ssid" /\ pc' = "password" /\ nvs_set_str("_ssid")
\* Mutant: the ssid is written twice.
WritePassword_ssid == pc = "password" /\ pc' = "commit" /\ nvs_set_str("_ssid")
WritePassword == pc = "password" /\ pc' = "commit" /\ nvs_set_str("_password")

\* nvs_commit may itself be cut half way.
CommitPartly ==
    /\ pc = "commit" /\ UNCHANGED pc
    /\ \E k \in Keys : /\ pending[k] # None
                       /\ flash' = [flash EXCEPT ![k] = pending[k]]
                       /\ pending' = [pending EXCEPT ![k] = None]
    /\ UNCHANGED <<entered, station, history, bounds>>

nvs_commit ==
    /\ pc = "commit" /\ pending = Nothing /\ pc' = "reply"
    /\ acknowledged' = entered /\ torn' = FALSE
    /\ UNCHANGED <<nvs, entered, station, bounds>>

\* The answer repeats the credentials, stored or not; nothing reconnects.
Reply ==
    /\ pc = "reply" /\ pc' = "idle" /\ entered' = None
    /\ UNCHANGED <<nvs, station, history, bounds>>

-----------------------------------------------------------------------------
(* The WiFi driver: whether an attempt succeeds is up to the air and to the  *)
(* credentials.                                                             *)

Unmoved == UNCHANGED <<nvs, handler, config, s_retry_num, refused, history, bounds>>
Post(e) == events' = Append(events, e)
\* The history counts no further than to one more than there may be.
Dropped ==
    /\ link' = "off" /\ Post("STA_DISCONNECTED")
    /\ drops' = IF drops > MaxRetry + 1 THEN drops ELSE drops + 1

Associate ==
    /\ link = "connecting" /\ link' = "associated"
    /\ UNCHANGED <<events, drops>> /\ Unmoved

AttemptFails == link = "connecting" /\ Dropped /\ Unmoved
LinkLost == link \in {"associated", "up"} /\ Dropped /\ Unmoved

GetAddress ==
    /\ link = "associated" /\ link' = "up" /\ Post("GOT_IP") /\ drops' = 0
    /\ Unmoved

-----------------------------------------------------------------------------
(* event_handler, in the event loop's task.                                 *)

Handled(e) ==
    /\ events # <<>> /\ Head(events) = e /\ events' = Tail(events)
    /\ UNCHANGED <<nvs, handler, config, drops, history, submits, cuts>>

\* A call whose result is ignored: on an error, which it always is without an
\* ssid, nothing is attempted and so no event follows.
esp_wifi_connect ==
    \/ config["_ssid"] # Empty /\ link' = "connecting" /\ UNCHANGED <<refused, faults>>
    \/ config["_ssid"] = Empty /\ refused' = TRUE /\ UNCHANGED <<link, faults>>
    \/ faults < MaxFaults /\ faults' = faults + 1 /\ refused' = TRUE /\ UNCHANGED link

StationStarted == Handled("STA_START") /\ esp_wifi_connect /\ UNCHANGED s_retry_num

\* Mutant: an attempt is not counted.
Retry_uncounted ==
    /\ Handled("STA_DISCONNECTED") /\ s_retry_num < MaxRetry
    /\ esp_wifi_connect /\ UNCHANGED s_retry_num

\* Mutant: one retry too many.
Retry_more ==
    /\ Handled("STA_DISCONNECTED") /\ s_retry_num <= MaxRetry
    /\ esp_wifi_connect /\ s_retry_num' = s_retry_num + 1

Retry ==
    /\ Handled("STA_DISCONNECTED") /\ s_retry_num < MaxRetry
    /\ esp_wifi_connect /\ s_retry_num' = s_retry_num + 1

GiveUp ==
    /\ Handled("STA_DISCONNECTED") /\ s_retry_num >= MaxRetry
    /\ UNCHANGED <<link, s_retry_num, refused, faults>>

\* Mutant: an address does not end the count.
GotIp_counting == Handled("GOT_IP") /\ UNCHANGED <<link, s_retry_num, refused, faults>>

GotIp == Handled("GOT_IP") /\ s_retry_num' = 0 /\ UNCHANGED <<link, refused, faults>>

-----------------------------------------------------------------------------
Init ==
    /\ flash = Nothing /\ pending = Nothing
    /\ pc = "idle" /\ entered = None
    /\ config = None /\ link = "stopped" /\ events = <<>>
    /\ s_retry_num = 0 /\ drops = 0 /\ refused = FALSE
    /\ acknowledged = None /\ torn = FALSE
    /\ submits = 0 /\ faults = 0 /\ cuts = 0

Store == NvsFails \/ nvs_open \/ WriteSsid \/ WritePassword \/ CommitPartly \/ nvs_commit \/ Reply
Driver == Associate \/ AttemptFails \/ LinkLost \/ GetAddress
event_handler == StationStarted \/ Retry \/ GiveUp \/ GotIp

Next ==
    \/ EraseNvs \/ wifi_init_sta \/ esp_wifi_start \/ PowerCut \/ Abort \/ Elsewhere
    \/ Submit \/ Store \/ Driver \/ event_handler

Spec == Init /\ [][Next]_vars

\* The event loop's task runs when it can, and the driver ends every attempt one
\* way or the other.  Nothing ends an association: DHCP may never answer.
Fairness == WF_vars(event_handler) /\ WF_vars(Associate \/ AttemptFails)

-----------------------------------------------------------------------------
(* Properties.                                                              *)

\* The station has nothing to wait for any more.
Resting == link = "off" /\ events = <<>>

\* "Automatic retry on connection failure" (README): the station rests only
\* after the first attempt and MaxRetry retries have failed in a row since
\* the last address, however events queue up behind each other; or at once
\* when the driver has refused an attempt, which nobody notices.
RestsOnlyAfterRetries == Resting => drops = MaxRetry + 1 \/ refused

\* However the link comes and goes, without an address there is no endless
\* circle of association and loss, because only an address resets the counter:
\* in the end the station is at rest, or stays associated and waits for an
\* address, or gets an address again and again.
Settles == <>[]Resting \/ <>[](link = "associated") \/ []<>(link = "up")

\* At boot the station gets the pair that was last stored, and the compiled one
\* only if none was or NVS cannot be read: never, as long as no later store was
\* interrupted, the ssid of one pair with the password of another.  Of an ssid
\* it gets the first 32 characters, although 63 are stored and confirmed, and a
\* password that fills its array may cost the ssid.
UsesStored ==
    [][config = None /\ config' # None /\ ~torn =>
          \/ config' = Fitted(Compiled) /\ (acknowledged = None \/ faults' # faults)
          \/ acknowledged # None /\ config' = Fitted(acknowledged)
          \/ /\ acknowledged # None /\ acknowledged["_password"] \in Long
             /\ config' = [acknowledged EXCEPT !["_ssid"] = Empty]]_vars
=============================================================================
