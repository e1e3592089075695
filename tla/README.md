# Captive portal firmware: specifications and proofs

TLA+ models of the ESP32 captive portal in this repository, the TLC runs that
check them on small instances, and TLAPS proofs of their main invariants for
every instance. Paths are relative to the repository.

## The system

| Part | State | Operations | Works with |
|---|---|---|---|
| `components/rfid_manager` | `rfid_mutex`; two SPIFFS files, the header (`card_count`, `max_cards`, `checksum`) and the array of cards | init, load_defaults, add, remove, check, count, list, save, load, format, reset, is_database_valid | called by `app_main` at boot and by the HTTP handlers; reads and writes through spiffs_storage |
| `components/spiffs_storage` | the mounted file system | read, write, append, delete, exists, size | rfid_manager |
| `app_local_server.c`, update | OTA partitions and OTA data, `fw_update_status`, the monitor's queue, the restart timer | upload handler, status handler, monitor, timer callback | httpd runs the handlers in one task; `app_main` runs the monitor; the queue joins them |
| `app_local_server.c`, other handlers | `http_server_buffer`, `g_is_local_time_set` | `/cards/*`, `/wifiConnect`, `/localTime`, static files | rfid_manager, nvs_storage |
| `dns_server.c` | its socket | one task: socket, bind, receive, reply, remake the socket on errors | shares lwIP's 16 descriptors with httpd |
| `main/main.c` | - | start of every part in order, then the monitor loop | everything |
| `components/app_time_sync` | the clock | a wait of up to 20 times 2 s | holds `app_main` back from the monitor |
| `components/app_wifi` | retry counter, station and AP configuration | event handler | nvs_storage, event loop task |
| `components/nvs_storage` | ssid and password in NVS | set, get | `/wifiConnect`, app_wifi |
| `webpage/rfid.js`, `app.js` | the view in the browser | asynchronous requests, polling | the HTTP handlers |

What is hard to test here, and why:

- *Atomicity.* A database update is two or three file writes. A mutex makes them
  one step for other tasks, but not for a power cut, nor for a write that fails
  half way. Every function has half a dozen early returns.
- *Flash and reboot.* An upload erases a partition, streams chunks whose results
  nobody looks at, and flips the OTA data; power may fail anywhere.
- *Tasks.* The update's outcome travels from httpd through a bounded queue to
  `app_main`, which may be busy with the time for 40 seconds, and from there to a
  timer that restarts the device while the next upload may be running.
- *The pages.* `rfid.js` has several requests under way, shows answers in the order
  they arrive, and changes parts of its state when it asks and parts when it is told.
  `app.js` asks for the update's status with a synchronous request, while its own
  upload keeps the server busy, and never again once the upload is over.
- *Two keys.* Ssid and password are two NVS keys with one commit.
- *Start-up.* Some failures restart the device, others are logged or ignored, and
  what runs later must cope with what is then missing.
- *Shared tables.* The DNS task closes and reopens its socket in a table that
  httpd fills with sessions.

What makes each part correct: the two database files agree whenever nobody holds
the mutex, every call behaves as one step on a set of cards and returns, and a
reset repairs what crashes broke; the device always boots, installs and announces
only complete images, and restarts into a completed one; the page announces a restart
only when one is to come; the DNS task neither leaks sockets nor touches
httpd's; no request removes the admin card, and the page comes to rest on the database
as it is; whatever fails at start-up, `app_main` reaches its loop and the database is
served; a boot uses a pair of credentials that was stored as such, the station gives
up only after all its retries, and the clock gets set when there is a link. The full
list of hazards, each with its line and the properties that watch it, is in
`PROJECT.json`.

## Modules

| Module | Models | |
|---|---|---|
| `RfidManager` | rfid_manager.c, the used part of spiffs_storage.c, boot in main.c | detailed specification |
| `RfidDb` | what rfid_manager promises its callers | abstract specification |
| `Ota` | upload handler, queue, monitor, timers; app_main's loop; flash and boot loader | detailed specification |
| `OtaPage` | the firmware part of app.js, `/OTAstatus`, other clients that upload, with `Ota` as the device | composition |
| `DnsServer` | dns_server.c and the descriptor table | detailed specification |
| `RfidHttp` | the `/cards` handlers of app_local_server.c | operators on the database |
| `RfidWeb` | rfid.js, the network, other clients, with `RfidHttp` as the device | detailed specification |
| `WifiSta` | nvs_storage.c, `/wifiConnect`, wifi_init_sta and event_handler of app_wifi.c | detailed specification |
| `Startup` | app_main of main.c, the init functions it calls, app_time_sync.c, with `WifiSta` | composition |
| `RfidManager_proofs`, `RfidConsistency_proofs`, `Ota_proofs`, `OtaPage_proofs`, `DnsServer_proofs`, `RfidWeb_proofs`, `WifiSta_proofs`, `Startup_proofs` | theorems | |
| `MCRfid`, `MCOta`, `MCOtaPage`, `MCDns`, `MCWeb`, `MCWifi` | instances for TLC | |

An operator whose comment begins with "Mutant" is a deliberately broken variant
of the definition after it. It belongs to no specification: substituting it shows
that a property notices such a bug.

### RfidManager

A step is one thing another task, a fault or a power cut can fall behind: taking
the mutex, reading both files, `fopen` for writing (which empties a file opened
with "wb"), the write, `unlink`, giving the mutex. Each thread has a program
point `pc`; `top` is the public function it is in and `fn` the function it is
executing, so reset is `top = "reset"` with `fn` going through "format",
"defaults" and "add". The read of both files is one step because nothing writes
them outside the mutex, which `CreationIsAlone` and `Consistent` justify.

*Data.* A card is its id and its active flag; names and timestamps never decide
anything. A header is its two counts. A header emptied by `fopen` is `Torn`, as is
a record of which only a part was written: everything behind it is misaligned
(`Aligned`). After a short read the caller's buffer holds arbitrary values
(`HdrReads`, `CardReads`), because `spiffs_storage_read_file` succeeds. `count`, `list`
and `json` change nothing; what they write into the caller's buffer is left out, the ways
they end are not.

*Faults.* "open", "short" (fwrite returns less), "flush" (fclose loses data and
nobody looks), "read" (fread is short although the file is whole), "stat" (fails, which
`spiffs_storage_file_exists` takes for an absent file), "unlink", "malloc". A run names
the kinds that may happen; `failures` counts them, and a step meets at most one. Where
the code is not told of a fault, the thread is in `silent` until its call returns: a lost
flush, a short read, and in `format_database` the stat or unlink that keeps the old cards
file. (`remove_card` reports its own failed unlink.) `ResetRestores` claims a repair only
where nothing silent happened in the reset, and `rfid_unlink` shows what happens otherwise.

*The unlocked creation.* `rfid_manager_init` and `load_defaults` create a header they do
not see, outside the mutex (rfid_manager.c:68, 96). `MkExists` is that look. When stat
fails for a header that is there, the thread is `misled` and empties it: at boot alone,
in a reset beside the calls of other tasks. `CreationIsAlone` says that nothing but such
a stat leads a task there.

*Threads.* `Main` is `app_main`, which boots the database and ignores the results
of `rfid_manager_init` and `load_defaults`. `Tasks` call the API afterwards. In the
present firmware the only such task is httpd's; the component promises "Mutex-
protected thread-safe operations" (README.md:434) to any number of callers, and
that promise is what the runs with two tasks and the proofs are about.

The `checksum` field is not modelled: nothing reads it.

### Ota

A partition is the image it holds and how many of its parts have been written;
it is complete when a whole good image is there, which is what `esp_ota_end`,
`esp_ota_set_boot_partition` and the boot loader verify. `Recv` is
`httpd_req_recv` with its four kinds of result, and one action follows for each
branch of the handler. `Write` may lose the data (its result is ignored). A form
of `Parts` chunks carries one more with the form's trailer. `NoBody` and `Panic`
are line 464, where `strstr` finds nothing. `leaked` counts handles that were begun
and never ended, because an uninitialised `ota_handle` may repeat the number of
one (`End`). Rollback is off (sdkconfig:369), so the boot loader takes what the OTA
data names unless it is invalid (`BootChoice`). ESP-IDF's calls are external and
modelled from how the handler uses them.

### OtaPage

The page's thread is `page`: while it is in the synchronous `getUpdateStatus` it runs
neither clicks nor timers. `Load` and `updateProgress` are the only places that ask;
`events` says that progress events of an upload may still come. httpd serves one
request at a time, so `Load`, `Serve` and `Take` need its handler to be idle. `Take` is `Ota!Upload` for the page's form,
`Others` the same for another client. `Show` is the rest of `getUpdateStatus`; each 1
starts another chain of `otaRebootTimer`, which share one counter of seconds, so two
chains count twice as fast and the page may reload before the device restarts.
`Restarts` breaks all connections. `due` and `timely` are history: a countdown that began
with a status the device still has, and an answer given with the monitor's queue empty.

The device may start yet another upload within the eight seconds of the timer, which
erases the new image; the timer then restarts it into the old one (`Ota`), with the
page counting down. `CountdownMeansRestart` says that the restart comes, and into the new
image unless such an upload is under way or has failed; `CompleteRestarts` of `Ota` says
the same of the restart itself: it runs the new image, or a later upload was begun and has
left that partition incomplete.

### DnsServer

`table` is lwIP's descriptor table without the three sockets httpd keeps for
itself; a new socket gets the lowest free descriptor, and closing a descriptor
closes whatever it names now. httpd may hold all the others: 13 sessions plus 3
plus the task's own are one more than CONFIG_LWIP_MAX_SOCKETS (sdkconfig:1277).
`parse_dns_request` keeps what decides the reply: whether the flags that
OPCODE_MASK really covers are set, whether all lengths fit, and which of the
answer records get filled. The reply is a copy of the whole request, the additional
record (EDNS OPT) of most of today's resolvers included, with the answer records behind
it; only `an_count` is set. `Answers` is what the receiver takes for the answer section,
and `PlainQueryRedirected` says that it is the address exactly when there is no such
record.

### RfidHttp and RfidWeb

`RfidHttp` has one operator per handler: the set of its outcomes, each a database
and an answer. That a handler is one step is what `ImplementsRfidDb` shows, httpd
running one handler at a time. An outcome may be the failure of malloc; file
system faults are `RfidManager`'s subject. Numbers go through the conversions of the
code: cJSON's `valueint` saturates before the cast to `uint32_t` (add), `strtoul`
saturates and negates modulo 2^32 (remove, check). `Half` stands for 2^31. A list has
status 200 whether or not it could be made; when the cards do not fit the buffer it
has none.

In `RfidWeb` a request is sent, handled (`Serve`) and answered (the callbacks) in
three steps, in any order with other requests, and may be lost before or after it
is handled (`Lose`). Each event handler and each callback of rfid.js is one action,
with all the calls it makes: a change that succeeds fetches the count and then
repeats the search or loads the view. `currentView` is what the user asked for,
`onclick` the view that the toggle loads when it is clicked, `table` what the page shows.
The toggle's label is left out: `updateViewButton` sets the text of an `<input>`
(rfid.html:75), whose label is its value and so never changes. `Client` is any other program that
uses the API, which the page's own checks do not bind. `overtook` and `missed` are
history: an answer was shown after one to a later request, and a change of which the
page was not told. Both happen and the page is then wrong until the next refresh;
`ViewSettles` and `Current` say that nothing else makes it wrong.

### WifiSta

Three tasks: the handler of `/wifiConnect`, which opens NVS, sets two keys and
commits, each with its error; the driver, which ends an attempt, loses the link or
gets an address, and posts events; and the event loop, which runs `event_handler`. A
key that was set may reach the flash at once or with the commit. `entered`,
`acknowledged` and `torn` follow the pair that is being stored, the last pair stored
and whether a later store was interrupted; `drops` counts disconnects since the last
address. The handler answers the same whether or not it has stored anything, and
nothing reconnects before the next boot.

The results of `esp_wifi_connect` are ignored (app_wifi.c:89, 175). A refused attempt,
and without an ssid each one is, brings no event, and the station rests; `refused` is the
history of it. An association that gets no address may last for ever.

Lengths matter in two places. The handler and NVS take an ssid of up to 63 characters, of
which `wifi_init_sta` copies 32 (app_wifi.c:217): `Cut` is that, `Fitted` what becomes of a
pair. And `nvs_get_str` returns the length with the terminator, and
nvs_storage.c:154 and its like write one zero behind it; a password of 63 characters
(`Long`) fills the array of `wifi_init_sta`, so the zero lands in whatever the compiler
put there. `Overrun` lets it be the ssid, or nothing that matters.

### Startup

`main` is the point app_main is at, one for each call whose failure is dealt with in
its own way: `Checked` calls stand under `ESP_ERROR_CHECK` and restart the device;
`spiffs_storage_init`, `rfid_manager_init`, `rfid_manager_load_defaults` and
`start_webserver` return an error nobody looks at; `xQueueCreate` is not looked at
until `xQueueReceive` asserts in the main loop (`NoQueue`). `Mount` is
`spiffs_storage_init` for the first and the second time: when a check fails after the
file system was registered, it is mounted although the flag says it is not, which the
second call notices and calls a success. `Init` of `WifiSta` is the power-on state, and
`Running` are its steps beside app_main's; requests need a server. `CreateHeader` is the
creation of the database's header when it is missing or, stat having failed, seems to be;
a failed one may leave the file behind. `sntp` is off, on, or "failed": the result of
`esp_netif_sntp_init` is ignored (app_time_sync.c:83), the wait then ends at once, and
nothing starts it again. `obtain_time` is one round of the wait; SNTP goes on asking after
the last.

The failure of `esp_spiffs_format` in `spiffs_storage_init` is not told from its
success; the file system is then found broken by the next call that uses it.

### Met while modelling

Not the subject of a run, because no property of these modules tells it apart, or
because a reader sees it at once:

- ids above 2^31 - 1 that the page accepts (rfid.js:188) are all stored as 2^31 - 1
  (app_local_server.c:1066); the decimal id 12345678 is taken for the hexadecimal id of
  the admin card (rfid.js:68); a name with a quote makes every list unreadable
  (rfid_manager.c:789); changing the search type clears the search before it is
  repeated (rfid.html:60, rfid.js:394);
- a stat error for the header at boot makes `rfid_manager_init` write an empty one over a
  good database (spiffs_storage.c:226, rfid_manager.c:64), and one in a reset makes
  `load_defaults` do so outside the mutex (rfid_manager.c:92);
- an upload begun in the eight seconds after a completed one erases the new image, and
  the announced restart runs the old one (app_local_server.c:410);
- an A query with an EDNS record gets its answer in the wrong section (dns_server.c:101,
  117), so README.md:419 ("Redirects all DNS A-type queries to AP IP") holds for plain
  ones only;
- the view toggle always says "View All Cards" (rfid.html:75, rfid.js:165): `text()`
  does not change an input;
- a refused `esp_wifi_connect` goes unnoticed and ends the retries (app_wifi.c:89, 175);
  an ssid of 33 to 63 characters is stored, confirmed and cut (app_wifi.c:217); a failed
  start of SNTP goes unnoticed (app_time_sync.c:83);
- "Device reconnects automatically" (README.md:253): nothing calls `esp_wifi_connect`
  with new credentials before the next boot;
- "System performs automatic WiFi scan on boot" (README.md:256): the scan runs before
  `esp_wifi_start` and fails;
- the access point gets `CONFIG_ESP_WIFI_PASSWORD`, the station's password
  (app_wifi.c:243), not `CONFIG_ESP_WIFI_AP_PASSWORD` (README.md:179);
- nothing sends `HTTP_MSG_TIME_SERVICE_INITIALIZED` or the messages about WiFi that the
  monitor can take (app_local_server.h:24), so `g_is_local_time_set` stays false; nothing
  reads it, and `/localTime` shows the clock as it is;
- `/wifiConnectInfo` and `/wifiDisconnect`, which app.js asks for, have no handler.

## Runs

| Run | Question | Bounds |
|---|---|---|
| `rfid_api` | Do concurrent calls keep the files together and act as one step each? | 2 tasks, all ten functions, 3 ids (2 of them defaults, one the admin), room for 2 cards, one failing malloc |
| `rfid_crash` | Does a reset repair the database after cuts and failures, does every call return whatever fails in it, and what leads to the unlocked creation of the header? | 1 task, all ten functions, 2 ids, room for 2, all seven kinds of fault, two of them, one cut, uninitialised counts 0 or 1 |
| `rfid_unlink` | violated: the failed unlink is "not a critical error" | one failing unlink |
| `rfid_checksum` | violated: a database judged valid had its header written | one cut |
| `ota` | Does the device always boot, install only whole images, and restart into them? | 2 good images and a bad one, 2 chunks, queue of 2, 3 uploads, one cut |
| `ota_timeout` | violated: a receive timeout is retried | 1 upload |
| `page` | Does the page tell the truth about updates and restarts, and does its request always return? | 3 images, 1 chunk, queue of 1, 2 uploads by the page or others, one cut |
| `page_status` | violated: the page learns of a failed or completed upload | 1 upload |
| `dns` | Are sockets neither leaked nor shared, and are queries answered? | 3 descriptors, all errors, 40 kinds of datagram |
| `web` | Does the page settle on what was asked for and on what the database holds, and does the admin card stay? | ids of 3 bits, numbers below 0, 0, and at both limits; 2 default cards, room for 3, lists of at most 2; 3 clicks or calls, 2 requests of the user's under way |
| `wifi` | Does app_main reach its loop with the database served? Does the station get a stored pair, give up only after its retries, and the clock get set? | 1 retry, 2 requests of two pairs, one with a long ssid and a long password, 2 failing calls, one cut, 2 rounds of time sync |
| `dns_recovery` | violated: the server recovers from socket errors | send errors only |

*Why the bounds are enough.* Two tasks show every interleaving of a mutex with one
holder and one waiter. With room for two cards "full" and "last card removed" both
happen, with three the shift of `remove_card` has a middle. One cut and one fault
reach every half-written pair, and a second fault the failure of a revert; with room
for two, in `rfid_crash`, a reset meets a full database. Its second id is the other
default card: what a reset has to repair does not depend on which ids the files hold.
Its one task still meets app_main's mutex, and its own in the next section of a reset, which
is what a call that kept the mutex would wait for. Two chunks distinguish the first, a middle and the trailer; three uploads
allow success, failure and success before the first timer fires, and fill the
queue of two while `app_main` waits. Three descriptors let httpd take everything
the task leaves. Two requests of the user's under way, with the two that follow each
change, overtake each other in every way; three clicks allow a search, a change
and a click between them; a list of two of three cards lets the list fail. Two uploads let one begin in the countdown of the other, on the
page or by another client, and one chunk with the form's trailer gives a progress event
before, in and after each step. One
retry lets an address come between two failures, and two requests store one pair
over another. Two failing calls are what it takes to leave the flag of SPIFFS wrong,
or a database behind a missing mutex; any third failure repeats the first or ends in a restart. What does not depend on such a bound is proved (below).

*Deadlock* is checked in all runs but `ota`, `page`, `web` and `wifi`: their uploads,
clicks and requests are bounded, and an idle device or page just waits for more.

The five violated runs are disagreements between the code and what a comment or
the README says of it; `PROJECT.json` quotes both under "findings".

### Fairness

- `RfidManager`: `WF(Step(t))`, FreeRTOS runs every ready task (no task spins, and
  equal priorities are time-sliced); `SF(Take(t))`, a FreeRTOS mutex hands over to
  its longest waiter of the highest priority, so a waiter is not passed over for ever.
  `EveryCallReturns` (in `rfid_crash`) uses both.
- `Ota`: weak fairness of the handler's next step (`httpd_req_recv` returns at the
  latest with its socket timeout), of `app_main` (time sync is bounded by 20
  waits, the loop by `vTaskDelay`), and of the timer. Neither a next upload nor
  a cut is fair. `CompleteRestarts` and `HandlerReturns` use them.

- `WifiSta`: weak fairness of the event loop's task, and of the driver: an attempt ends
  one way or the other. Nothing obliges an attempt to succeed, an association to end or
  DHCP to answer: `Settles`, which uses them, has an association that lasts for ever among
  its outcomes.
- `OtaPage` adds weak fairness of `Serve`: httpd's task goes through its sockets in
  turn, so a request that waits is served once the handler before it has returned. The
  user, the browser's events and other clients are not fair. `PageThaws` uses it
  together with `Ota`'s, because the handler before it may wait for the queue.
- `Startup` adds weak fairness of app_main, a task like any other; `LoopRuns` uses it.
  That an SNTP server answers is not assumed of the specification: it is the hypothesis
  of `ClockGetsSet`, which says what the firmware owes when one does.
- `RfidWeb` states none; its properties are about states.

### Refinement

`RfidManager!ImplementsRfidDb` maps the two files to the set of ids in the cards file
(while `remove_card` rewrites that file: what it had before) and checks that each
call is invocation, one atomic effect, and response: linearizability of the API,
with reset as a documented sequence of such effects. It holds without disk
faults and crashes, where it is claimed; `rfid_api` checks it for two tasks, and
`Refinement` proves it for any number.

The two compositions implement the module they compose: every behaviour of `PageSpec` is
one of `Ota!Spec`, and every behaviour of `StartupSpec` one of `WifiSta!Spec`. Both
are proved, so the page and app_main add no step to the device that was not checked
and proved of it alone.

## Proofs

Checked by tlapm 1.4.5 (Z3, Zenon, LS4). The assumptions are the named ASSUMEs of
the modules: distinct model values, natural bounds, and for `Defaults` that there is
a default card and no id twice, which the table at rfid_manager.c:29-32 fixes. Two
hypotheses are stated where they are used:

- `NoDiskFaults` (malloc may fail, files and power do not), in what is proved of
  consistency and atomicity: with a disk fault between the two writes
  the code does not keep the promise, as the violated runs show;
- `OneCaller`, in `ResetIsRemedy`: reset is not atomic, so another task's add may fall
  between its format and its end. The firmware has one caller, httpd's task.

| Theorem | Statement |
|---|---|
| `RfidManager_proofs!TypeCorrect` | `Spec => []TypeOK` |
| `RfidManager_proofs!CreationAlone` | `Spec => []CreationIsAlone` |
| `RfidManager_proofs!ResetIsRemedy` | `ASSUME OneCaller PROVE Spec => []ResetRestores` |
| `RfidConsistency_proofs!Consistency` | `ASSUME NoDiskFaults PROVE Spec => []Consistent` |
| `RfidConsistency_proofs!Refinement` | `ASSUME NoDiskFaults PROVE Spec => ImplementsRfidDb` |
| `RfidConsistency_proofs!NeverTooMany`, `NoCardLost` | what the refinement says of the cards: at most `MaxCards` at every moment; each stays until a task formats, resets or removes it |
| `Ota_proofs!OtaTypeCorrect`, `NeverBricked`, `AnnouncementsAreTrue`, `UpdateIsNext`, `UpdateIsShown` | the invariants of `ota` |
| `Ota_proofs!BootsComplete` | `Spec => BootsOnlyComplete`, an action property |
| `OtaPage_proofs!PageImplementsOta` | `PageSpec => Spec` |
| `OtaPage_proofs!PageTypeCorrect`, `CountdownIsTrue`, `CompletionIsAnnounced` | the invariants of `page` |
| `DnsServer_proofs!DnsTypeCorrect`, `NoSocketLeak`, `SocketsApart`, `Redirects` | the invariants of `dns` |
| `RfidWeb_proofs!WebTypeCorrect`, `AdminProtected`, `ToggleRight`, `ViewSettled`, `PageCurrent` | the invariants of `web` |
| `WifiSta_proofs!WifiTypeCorrect`, `RestsAfterRetries` | invariants of `wifi`, of the station alone |
| `WifiSta_proofs!BootUsesStored` | `Spec => UsesStored`, an action property |
| `Startup_proofs!StartupImplementsWifi` | `StartupSpec => Spec` |
| `Startup_proofs!StartupTypeCorrect`, `CardsAreServed` | invariants of `wifi`, of the start-up |
| `Startup_proofs!StationKeepsItsPromises` | `StartupSpec => []RestsOnlyAfterRetries /\ UsesStored` |

*RfidManager.* `TypeOK` is not inductive: that `card_count - 1` is a natural
number when an append fails needs to know that add's `db.count` is positive
(`Counted`), which needs mutual exclusion (`Mutex`: the thread inside a section is
the owner), because `db` is the owner's. `CreationIsAlone` needs that the header
is there whenever a reset's `load_defaults` looks for it, so that only a stat that
failed (`misled`) leads a task into the creation (`HeaderThere`), and that tasks
wait for boot (`BootFirst`). `Inv` is their conjunction; each action has a lemma.

*Consistency.* Without disk faults and crashes nobody is misled (`Told`), and the proof
carries a second invariant that says for each point of a section how far the two files are apart: before
the header's write not at all, after it by the one record in `db` or the one
missing from `buf`. `Without` is shown to keep ids distinct and to lose exactly one record.

*Reset.* `ResetIsRemedy` allows every kind of fault, any number of them and of power
cuts, and only of the reset itself that nothing silent happened in it; so nothing is known of the files when a reset begins. `Restoring` says
what it has made of them: from the moment the fresh header is written, how many
default cards are in (`Holds(n)`), and while the n-th is added, which of the two files
has it already. A fault sets a result other than OK, and no later step of the reset
turns it back; after a format without fault the database has no default card yet, so the
"exists" answer that load_defaults passes over cannot hide a missing one.

*Refinement.* `Linked` says what each call is about to answer: at "give" the result against
the database (an OK of add means that the card is in, a "full" that there is no room or
no heap), at a write of `remove_card` that its copy is the database without the
card, of app_main that the default cards it has passed are in. With it one lemma
per action (`ReadAddDoes` to `CallDoes`) shows which step of `RfidDb` the action is,
or that it is none. Add and remove take effect with their write of
the cards file, format and the removal of the last card with its deletion, a check
or a refusal where the files are read. While `remove_card` rewrites
the file, its copy and its card stand for what the file held. `NeverTooMany` and `NoCardLost`
then follow from `RfidDb` alone, without looking at the code's steps again.

*Ota.* The invariant ties each point of the handler to the flash: the running
partition is complete; the OTA data names it or a complete other one; at
"set_boot" the update partition is complete; a success in the queue, in the
status or on a timer implies that the OTA data names the other partition. When a
later upload erases that partition, `boot` still names it, and the boot loader's
fall-back to the running image keeps `BootChoice` complete.

*OtaPage.* With `PageImplementsOta` the invariant of `Ota` holds under the page. On top
of it, `Armed` says that a status of 1, on the device or in an answer on its way, goes
with an armed timer, and `Timely` that after a timely answer the device is idle and the
page has turned the answer into what it shows, or is about to. `Ended` says that a
message or a timer comes from an upload that ended, so that with a timer armed and the
handler idle the last upload completed or failed, which is where `CompleteIsNext` of `Ota`
names the image of the restart.

*DnsServer.* At each point of the task the invariant says whose `sock` is; until
the first receive error `held` and `table` agree. `Redirects` computes the first record of
a reply from the two sequences it is made of.

*RfidWeb.* One lemma per handler shows that each of its outcomes is a database of
typed cards that still has the admin card, with a typed answer; for a reset because
the first default card is the admin card and is added without heap. The other
lemmas carry the types of the requests through every event of the page.

Requests overtake each other, so `ViewSettles` and `Current` are far from inductive: what
will be shown is up to the newest request under way that fills the table (or the count).
`Newest` is that request, and `Chosen` says it asks for the view the page is set to, or,
when there is none, that the table shows it. `Tracked` says that what the device answered to
it is what the database still holds, as long as no change has been answered that the
page is about to hear of: hearing of it sends a newer request. The lemmas on `Newest` say
what sending a request and taking out an answered one do to it; it
is lost only when it is answered while an older one waits, and that is `overtook`.

*WifiSta.* `Counted` relates the queue of events to the counters: at most an address
waits in front of a disconnect, because the driver does nothing after a disconnect
until it has been handled; and once nothing is queued at a station that is off, either
all attempts have been made or one was refused. `InNvs` says what NVS holds at each point of a store:
every key written so far is in the flash or pending.

*Startup.* `StartupImplementsWifi` has one lemma per group of app_main's steps, that it
takes a step of `WifiSta` or none. `Paid` says which failures must have happened for
app_main to be where it is: without a mutex one, and with a file system whose
flag is wrong after the second `Mount` two; a missing mutex beside a database in the second
half two as well, because `add_card` asserts unless another failure has kept
`load_defaults` from calling it.

Only model-checked: liveness (`EveryCallReturns`, `CompleteRestarts`, `HandlerReturns`,
`PageThaws`, `Settles`, `LoopRuns`, `ClockGetsSet`), which is outside what the prover
does; and the five violated runs, whose point is a counterexample.

## Not modelled, and the plan

1. Proof that every outcome of a handler of `RfidHttp` is an effect of the operation of `RfidDb`
   it calls, which ties the database that `RfidWeb` works on to the code under it.
2. Proof of which power cuts and faults leave the two files in agreement, beyond the
   reset.

Not modelled, and not planned: the boot of the database with the cards of an earlier
boot in front of `RfidWeb`, and a restart of the device while its requests are under
way, because a restart changes nothing in the database but what `RfidManager` already
shows, and for the page is the loss of its requests, which `RfidWeb` has.

Left out for good: static files, the random sensor values and logging (no state);
the demonstrations `nvs_storage_test`, `wifi_credentials_test`, `spiffs_storage_test` and
`nvs_custom_partition_test`, of which only the last is called, for a key nothing else
uses; `spiffs_storage_deinit`, rename, and reading lines, which nothing calls; wording and
layout of the JSON; SPIFFS, NVS, lwIP, httpd and the OTA library themselves, which are
ESP-IDF's.
