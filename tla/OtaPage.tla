------------------------------ MODULE OtaPage ------------------------------
(* The firmware part of the web page (webpage/app.js) and the /OTAstatus    *)
(* handler, composed with the device of module Ota.                         *)
(*                                                                          *)
(* The page asks for the status with a synchronous request: until httpd,    *)
(* which serves one request at a time, has answered it, the page runs       *)
(* neither clicks nor timers.  It asks when it loads and at every progress  *)
(* event of its upload, and never again.  The browser is external.          *)
EXTENDS Ota

VARIABLES
    page,    \* the page's thread: not loaded, idle, or in getUpdateStatus
    answer,  \* ota_update_status of the last answer
    shown,   \* what #ota_update_status says
    chains,  \* pending timeouts of otaRebootTimer: none, one, or several (2)
    events,  \* progress events of an upload may still come
    posts,   \* uploads of the page that httpd has not taken up
    due,     \* history: the countdown runs, and no restart since it began
    timely   \* history: the last answer was given with the queue empty, and
             \* nothing was uploaded since

text == <<shown, chains, due>>
pageVars == <<page, answer, text, events, posts, timely>>
allVars == <<vars, pageVars>>

Texts == {"blank", "progress", "countdown", "error"}

PageTypeOK ==
    /\ page \in {"away", "ready", "asking", "answered", "late"}
    /\ answer \in Statuses
    /\ shown \in Texts
    /\ chains \in 0..2
    /\ events \in BOOLEAN /\ posts \in Nat
    /\ due \in BOOLEAN /\ timely \in BOOLEAN

-----------------------------------------------------------------------------
(* The page.                                                                *)

\* $(document).ready: httpd has sent the page, which asks at once.
Load ==
    /\ page = "away" /\ pc = "idle" /\ page' = "asking"
    /\ UNCHANGED <<vars, answer, text, events, posts, timely>>

\* The page is left or reloaded.  An upload that httpd has not taken up may
\* already be in its socket.
Unload ==
    /\ page' = "away" /\ shown' = "blank" /\ chains' = 0 /\ due' = FALSE
    /\ events' = FALSE /\ posts' \in {0, posts} /\ timely' = FALSE
    /\ UNCHANGED <<vars, answer>>

Leave == page = "ready" /\ Unload

\* updateFirmware; nothing keeps the user from a second click.
updateFirmware ==
    /\ page = "ready" /\ uploads + posts < MaxUploads
    /\ posts' = posts + 1 /\ events' = TRUE /\ shown' = "progress"
    /\ UNCHANGED <<vars, page, answer, chains, due, timely>>

\* updateProgress asks for the status at each progress event; the last one
\* comes when the socket has the whole file, of which httpd has taken the most.
updateProgress ==
    /\ page = "ready" /\ events
    /\ page' = "asking" /\ events' \in {TRUE, posts > 0}
    /\ UNCHANGED <<vars, answer, text, posts, timely>>

\* The connection of an upload breaks before it reports more progress.
NoMoreProgress ==
    /\ events /\ posts = 0 /\ events' = FALSE
    /\ UNCHANGED <<vars, page, answer, text, posts, timely>>

\* The status request fails: send() throws, and the text stays.
StatusLost ==
    /\ page = "asking" /\ page' = "ready"
    /\ UNCHANGED <<vars, answer, text, events, posts, timely>>

\* Mutant: only a page that is uploading shows the outcome.
ShowOwn ==
    /\ page \in {"answered", "late"} /\ page' = "ready"
    /\ IF shown = "progress" /\ answer = 1
         THEN shown' = "countdown" /\ chains' = 1 /\ due' = (page = "answered")
         ELSE UNCHANGED text
    /\ UNCHANGED <<vars, answer, events, posts, timely>>

\* Mutant: every chain is counted.
ShowCounting ==
    /\ page \in {"answered", "late"} /\ page' = "ready"
    /\ IF answer = 1
         THEN shown' = "countdown" /\ chains' = chains + 1 /\ due' = (due \/ page = "answered")
         ELSE UNCHANGED text
    /\ UNCHANGED <<vars, answer, events, posts, timely>>

\* The rest of getUpdateStatus.  Every 1 starts another chain of timeouts.
Show ==
    /\ page \in {"answered", "late"} /\ page' = "ready"
    /\ CASE answer = 1 -> /\ shown' = "countdown"
                          /\ chains' = IF chains = 0 THEN 1 ELSE 2
                          /\ due' = (due \/ page = "answered")
         [] answer = -1 -> shown' = "error" /\ UNCHANGED <<chains, due>>
         [] OTHER -> UNCHANGED text
    /\ UNCHANGED <<vars, answer, events, posts, timely>>

\* otaRebootTimer writes its text once a second, whatever stands there.
Tick ==
    /\ page = "ready" /\ chains > 0 /\ shown # "countdown" /\ shown' = "countdown"
    /\ UNCHANGED <<vars, page, answer, chains, due, events, posts, timely>>

\* The last second: window.location.reload().  One chain takes 9 seconds, the
\* device's timer 8, and it was armed first; several chains count faster.
CountdownEnds == page = "ready" /\ chains > 0 /\ (chains > 1 \/ ~due) /\ Unload

-----------------------------------------------------------------------------
(* The device, as the page sees it.                                         *)

\* http_server_ota_status_handler, between two other requests.
Serve ==
    /\ page = "asking" /\ pc = "idle"
    /\ page' = "answered" /\ answer' = fw_update_status
    /\ timely' = (queue = <<>>)
    /\ UNCHANGED <<vars, text, events, posts>>

\* httpd takes up the page's upload, or that of another client.
Take ==
    /\ posts > 0 /\ posts' = posts - 1
    /\ Upload /\ form'
    /\ timely' = FALSE
    /\ UNCHANGED <<page, answer, text, events>>

Others ==
    /\ uploads + posts < MaxUploads /\ Upload
    /\ timely' = FALSE
    /\ UNCHANGED <<page, answer, text, events, posts>>

Device == (Handle \/ TimeSync \/ Monitor \/ Delay) /\ UNCHANGED pageVars

\* A restart breaks every connection; an answer may be on its way.
Restarts ==
    /\ Panic \/ TimerFires \/ PowerCut
    /\ page' = CASE page = "asking" -> "ready"
                 [] page = "answered" -> "late"
                 [] OTHER -> page
    /\ posts' = 0 /\ due' = FALSE /\ timely' = FALSE
    /\ UNCHANGED <<answer, shown, chains, events>>

PageInit ==
    /\ Init
    /\ page = "away" /\ answer = 0 /\ shown = "blank" /\ chains = 0
    /\ events = FALSE /\ posts = 0 /\ due = FALSE /\ timely = FALSE

PageNext ==
    \/ Load \/ Leave \/ updateFirmware \/ updateProgress \/ NoMoreProgress
    \/ StatusLost \/ Show \/ Tick \/ CountdownEnds
    \/ Serve \/ Take \/ Others \/ Device \/ Restarts

PageSpec == PageInit /\ [][PageNext]_allVars

\* httpd serves the sockets that have a request in turn.
PageFairness == Fairness /\ WF_allVars(Serve)
FairPageSpec == PageSpec /\ PageFairness

-----------------------------------------------------------------------------
(* Properties.                                                              *)

\* While the page counts down, the restart it announces is still to come: a
\* timer is armed and the OTA data names the other partition, whatever this
\* page or another client uploads meanwhile.  The restart runs that partition's
\* image, unless such an upload is being written over it, or has failed.
CountdownMeansRestart ==
    due => /\ timers > 0 /\ boot # running
           /\ pc \in {"idle", "send"} /\ outcome # "failed" => BootChoice # running

\* Nothing is uploading, queued or asked: the page stays as it is.
AtRest ==
    pc = "idle" /\ queue = <<>> /\ page = "ready" /\ posts = 0 /\ ~events

\* A page whose last answer was given after the monitor had caught up counts
\* down when the last upload completed, whatever it showed before, whoever
\* uploaded, and in whatever order the status was asked and the text redrawn.
CompleteIsAnnounced ==
    AtRest /\ timely /\ outcome = "complete" => chains > 0 /\ due

\* The page never freezes for good: its synchronous request is answered, even
\* while httpd is busy with the page's own upload, its queue full, and app_main
\* not yet in its loop.
PageThaws == page = "asking" ~> page # "asking"

\* "If flashing was complete it will return a 1, else -1" (app.js:93): once the
\* upload is over, the page no longer says that it is in progress.
ProgressEnds == AtRest => shown # "progress"
=============================================================================
