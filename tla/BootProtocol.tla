---------------------------- MODULE BootProtocol ----------------------------
(***************************************************************************)
(* The hand-over between musicbox and downloader through NVS: app_main of  *)
(* downloader_main.cpp and the boot manager, over the keys of              *)
(* simibox_nvs_protocol.h.  A boot of the downloader counts itself, reads  *)
(* the request, connects, downloads, stores a verdict key by key and       *)
(* switches the boot partition back to musicbox.  It may crash at the      *)
(* points in CrashPoints; NVS and the boot partition survive.              *)
(*                                                                         *)
(* WiFi is its outcome (see Wifi).  The folder download takes the steps of *)
(* FolderContract, which FolderInstall implements, on the folder requested *)
(* and may be cut short at any of them.  Musicbox is another firmware:     *)
(* only its use of the boot manager protocol is here.  Of the nine keys,   *)
(* the four that carry the protocol are kept; volume, SSID, size and       *)
(* progress decide nothing.                                                *)
(***************************************************************************)
EXTENDS Integers, Sequences

CONSTANTS Folders,          \* folder names
          NoFolder,         \* the empty string
          MaxBootFailures,  \* MAX_BOOT_FAILURES
          MaxRetries,       \* the 3 of app_main
          CrashPoints,      \* control points at which the firmware may crash
          Wrap,             \* values of a uint8_t (2^8)
          NvsFaults,        \* whether NVS may need recovery at boot, or refuse
                            \* writes of the downloader
          MaxRequests       \* bound: requests made by musicbox

ASSUME FolderAssumption   == NoFolder \notin Folders
ASSUME LimitsAssumption   == /\ Wrap \in Nat
                             /\ MaxBootFailures \in 1..(Wrap - 1)
                             /\ MaxRetries \in 1..(Wrap - 1)
ASSUME FaultsAssumption   == NvsFaults \in BOOLEAN
ASSUME RequestsAssumption == MaxRequests \in Nat

VARIABLES
    \* persistent: protocol keys, boot counter, boot partition
    nvs, boot_cnt, boot_part,
    \* the firmware running ("off": restarting) and its control point
    app, pc,
    \* g_current_state, and the keys boot_mgr_save_state has still to write
    g_current_state, save_todo, save_next,
    \* the card, per folder; the download call in progress and its outcome
    card, dl_phase, dl_outcome,
    \* history: downloads begun since musicbox last ran or a boot last
    \* gave up at the limit (counted up to MaxBootFailures), whether this boot
    \* gave up there, whether NVS ever refused a write, requests made
    tries, bailed, refused, requests

persistVars == <<nvs, boot_cnt, boot_part>>
stateVars   == <<g_current_state, save_todo, save_next>>
dlVars      == <<card, dl_phase, dl_outcome>>
histVars    == <<tries, bailed, refused, requests>>
vars == <<persistVars, app, pc, stateVars, dlVars, histVars>>

\* handle_download_with_retry, working on the folder of g_current_state.
FD == INSTANCE FolderContract WITH phase <- dl_phase, outcome <- dl_outcome,
                                   folder <- card[g_current_state.folder]

Reasons == {"NORMAL", "DOWNLOAD_REQUEST", "DOWNLOAD_SUCCESS",
            "DOWNLOAD_FAILED"}
Errors  == {"NONE", "WIFI_CONNECT", "DOWNLOAD_FAILED", "SD_CARD"}
Keys    == {"reason", "folder", "retry", "error"}

\* The defaults of boot_mgr_load_state for keys that are not there.
Clean == [reason |-> "NORMAL", folder |-> NoFolder, retry |-> 0,
          error |-> "NONE"]

Init ==
    /\ nvs = Clean /\ boot_cnt = 0 /\ boot_part = "musicbox"
    /\ app = "musicbox" /\ pc = "run"
    /\ g_current_state = Clean /\ save_todo = <<>> /\ save_next = "run"
    /\ card \in [Folders -> FD!States]
    /\ dl_phase = "idle" /\ dl_outcome = "none"
    /\ tries = 0 /\ bailed = FALSE
    /\ refused = FALSE /\ requests = 0

-----------------------------------------------------------------------------
(* boot_mgr_save_state: each nvs_set is in flash before the next one *)

MutFolderFirst == <<"folder", "reason", "retry", "error">>
SaveOrder == <<"reason", "folder", "retry", "error">>

\* Save state s, then go on at next.
Save(s, next) ==
    /\ g_current_state' = s
    /\ save_todo' = SaveOrder
    /\ save_next' = next
    /\ pc' = "save"

\* NVS refuses a write of the downloader.  No caller looks at the result.
Refuse == NvsFaults /\ app = "downloader" /\ refused' = TRUE

\* A refused write is or-ed into ret and the next key is tried.
SaveKey ==
    /\ pc = "save" /\ save_todo # <<>>
    /\ \/ /\ nvs' = [nvs EXCEPT ![Head(save_todo)] =
                                   g_current_state[Head(save_todo)]]
          /\ UNCHANGED refused
       \/ Refuse /\ UNCHANGED nvs
    /\ save_todo' = Tail(save_todo)
    /\ pc' = IF Tail(save_todo) = <<>> THEN save_next ELSE "save"
    /\ UNCHANGED <<boot_cnt, boot_part, app, g_current_state, save_next,
                   dlVars, tries, bailed, requests>>

-----------------------------------------------------------------------------
(* Downloader: app_main *)

\* NVS comes up.
NvsOk ==
    /\ pc = "nvs"
    /\ pc' = "count"
    /\ UNCHANGED <<persistVars, app, stateVars, dlVars, histVars>>

\* NVS reports no free pages or a new version: the namespaces that can be
\* opened are erased, or, if that does not help, everything is.
NvsRecover ==
    /\ pc = "nvs" /\ NvsFaults
    /\ nvs' = Clean /\ boot_cnt' = 0
    /\ pc' = "count"
    /\ UNCHANGED <<boot_part, app, stateVars, dlVars, histVars>>

\* boot_count >= MAX_BOOT_FAILURES
MutAboveLimit(n) == n > MaxBootFailures
AtLimit(n) == n >= MaxBootFailures

\* boot_cnt is set to n, unless the write is refused.
SetCount(n) == \/ boot_cnt' = n /\ UNCHANGED refused
               \/ Refuse /\ UNCHANGED boot_cnt

\* Count this boot before anything else can fail.
CountBoot ==
    /\ pc = "count"
    /\ LET boot_count == (boot_cnt + 1) % Wrap
       IN  /\ SetCount(boot_count)
           /\ pc' = IF AtLimit(boot_count) THEN "bail" ELSE "led"
    /\ UNCHANGED <<nvs, boot_part, app, stateVars, dlVars, tries, bailed,
                   requests>>

\* NVS cannot be opened: the boot is not counted and the limit not tested.
CountSkipped ==
    /\ pc = "count" /\ Refuse
    /\ pc' = "led"
    /\ UNCHANGED <<persistVars, app, stateVars, dlVars, tries, bailed,
                   requests>>

\* At the limit: reset the counter, show the error, return to musicbox.
MutBailWithoutReturn ==
    /\ pc = "bail"
    /\ SetCount(0)
    /\ bailed' = TRUE /\ tries' = 0
    /\ pc' = "led"
    /\ UNCHANGED <<nvs, boot_part, app, stateVars, dlVars, requests>>
BailOut ==
    /\ pc = "bail"
    /\ SetCount(0)
    /\ bailed' = TRUE /\ tries' = 0
    /\ pc' = "bail_led"
    /\ UNCHANGED <<nvs, boot_part, app, stateVars, dlVars, requests>>

BailLed ==
    /\ pc = "bail_led"
    /\ pc' = "handover"
    /\ UNCHANGED <<persistVars, app, stateVars, dlVars, histVars>>

LedInit ==
    /\ pc = "led"
    /\ pc' = "load"
    /\ UNCHANGED <<persistVars, app, stateVars, dlVars, histVars>>

LoadState ==
    /\ pc = "load"
    /\ g_current_state' = nvs
    /\ pc' = "decide"
    /\ UNCHANGED <<persistVars, app, save_todo, save_next, dlVars, histVars>>

\* boot_mgr_needs_download
MutNeedsAnyFolder == g_current_state.folder # NoFolder
NeedsDownload == /\ g_current_state.reason = "DOWNLOAD_REQUEST"
                 /\ g_current_state.folder # NoFolder

\* boot_mgr_report_failure; retry_count is a uint8_t.
MutRetryCountdown(error) ==
    [g_current_state EXCEPT !.reason = "DOWNLOAD_FAILED", !.error = error,
                            !.retry = @ - 1]
Failed(error) == [g_current_state EXCEPT !.reason = "DOWNLOAD_FAILED",
                                         !.error = error,
                                         !.retry = (@ + 1) % Wrap]

\* boot_mgr_report_success
Succeeded == [g_current_state EXCEPT !.reason = "DOWNLOAD_SUCCESS",
                                     !.error = "NONE"]

NotRequested ==
    /\ pc = "decide" /\ ~NeedsDownload
    /\ pc' = "handover"
    /\ UNCHANGED <<persistVars, app, stateVars, dlVars, histVars>>

GiveUp ==
    /\ pc = "decide" /\ NeedsDownload
    /\ g_current_state.retry >= MaxRetries
    /\ Save(Failed("DOWNLOAD_FAILED"), "handover")
    /\ UNCHANGED <<persistVars, app, dlVars, histVars>>

StartWifi ==
    /\ pc = "decide" /\ NeedsDownload
    /\ g_current_state.retry < MaxRetries
    /\ pc' = "wifi"
    /\ UNCHANGED <<persistVars, app, stateVars, dlVars, histVars>>

MutWifiFailsSilently ==
    /\ pc = "wifi"
    /\ pc' = "handover"
    /\ UNCHANGED <<persistVars, app, stateVars, dlVars, histVars>>
WifiFails ==
    /\ pc = "wifi"
    /\ Save(Failed("WIFI_CONNECT"), "handover")
    /\ UNCHANGED <<persistVars, app, dlVars, histVars>>

WifiConnected ==
    /\ pc = "wifi"
    /\ pc' = "download"
    /\ tries' = IF tries < MaxBootFailures THEN tries + 1 ELSE tries
    /\ UNCHANGED <<persistVars, app, stateVars, card, bailed, refused,
                   requests>>
    /\ FD!Begin

\* A step of handle_download_with_retry on the folder requested.
DownloadStep ==
    /\ pc = "download"
    /\ UNCHANGED <<persistVars, app, pc, stateVars, histVars>>
    /\ \E content \in FD!States :
          card' = [card EXCEPT ![g_current_state.folder] = content]
    /\ FD!Work

\* It has failed: the card does not mount or fails, or anything else goes
\* wrong.
DownloadFails(error) ==
    /\ pc = "download" /\ dl_outcome = error
    /\ Save(Failed(error), "handover")
    /\ UNCHANGED <<persistVars, app, dlVars, histVars>>

DownloadOk ==
    /\ pc = "download" /\ dl_outcome = "OK"
    /\ Save(Succeeded, "reset")
    /\ UNCHANGED <<persistVars, app, dlVars, histVars>>

ResetCount ==
    /\ pc = "reset"
    /\ SetCount(0)
    /\ pc' = "handover"
    /\ UNCHANGED <<nvs, boot_part, app, stateVars, dlVars, tries, bailed,
                   requests>>

\* boot_musicbox_and_restart
Handover ==
    /\ pc = "handover"
    /\ boot_part' = "musicbox"
    /\ app' = "off" /\ pc' = "off"
    /\ UNCHANGED <<nvs, boot_cnt, stateVars, dlVars, histVars>>

Crash ==
    /\ app = "downloader" /\ pc \in CrashPoints
    /\ app' = "off" /\ pc' = "off"
    /\ save_todo' = <<>>
    /\ dl_phase' = "idle" /\ dl_outcome' = "none"
    /\ UNCHANGED <<persistVars, g_current_state, save_next, card, histVars>>

-----------------------------------------------------------------------------
(* Outside the downloader *)

\* The bootloader starts the firmware in the boot partition; RAM is as at
\* power-on.
Boot ==
    /\ app = "off"
    /\ app' = boot_part
    /\ g_current_state' = Clean /\ save_next' = "run"
    /\ dl_phase' = "idle" /\ dl_outcome' = "none"
    /\ IF boot_part = "downloader"
         THEN pc' = "nvs" /\ bailed' = FALSE /\ UNCHANGED tries
         ELSE pc' = "run" /\ tries' = 0 /\ UNCHANGED bailed
    /\ UNCHANGED <<persistVars, save_todo, card, refused, requests>>

\* boot_mgr_request_download, for a tag whose folder is not on the card.
Request(folder) ==
    /\ pc = "run" /\ requests < MaxRequests
    /\ requests' = requests + 1
    /\ Save([reason |-> "DOWNLOAD_REQUEST", folder |-> folder, retry |-> 0,
             error |-> "NONE"], "leave")
    /\ UNCHANGED <<persistVars, app, dlVars, tries, bailed, refused>>

\* Musicbox asks once more for a folder whose download failed and leaves the
\* retry count for the downloader to test.
RequestAgain ==
    /\ pc = "run" /\ requests < MaxRequests
    /\ nvs.reason = "DOWNLOAD_FAILED"
    /\ requests' = requests + 1
    /\ Save([nvs EXCEPT !.reason = "DOWNLOAD_REQUEST"], "leave")
    /\ UNCHANGED <<persistVars, app, dlVars, tries, bailed, refused>>

\* boot_mgr_clear_state, once the verdict has been shown.
ClearState ==
    /\ pc = "run" /\ nvs.reason # "NORMAL"
    /\ Save(Clean, "run")
    /\ UNCHANGED <<persistVars, app, dlVars, histVars>>

Leave ==
    /\ pc = "leave"
    /\ boot_part' = "downloader"
    /\ app' = "off" /\ pc' = "off"
    /\ UNCHANGED <<nvs, boot_cnt, stateVars, dlVars, histVars>>

\* Power loss while musicbox is running or saving.
MusicboxPowerLoss ==
    /\ app = "musicbox"
    /\ app' = "off" /\ pc' = "off"
    /\ save_todo' = <<>>
    /\ UNCHANGED <<persistVars, g_current_state, save_next, dlVars, histVars>>

Downloader ==
    \/ NvsOk \/ NvsRecover \/ CountBoot \/ CountSkipped \/ BailOut
    \/ BailLed \/ LedInit \/ LoadState \/ NotRequested \/ GiveUp \/ StartWifi
    \/ WifiFails \/ WifiConnected \/ DownloadStep \/ DownloadOk \/ ResetCount
    \/ Handover \/ SaveKey
    \/ \E e \in FD!Failures : DownloadFails(e)

Musicbox ==
    \/ ClearState \/ Leave \/ MusicboxPowerLoss
    \/ \E x \in Folders \cup {NoFolder} : Request(x)
    \/ RequestAgain

Next == Downloader \/ Musicbox \/ Boot \/ Crash

Spec == Init /\ [][Next]_vars

\* A boot of the downloader goes on unless it crashes, and a restart boots.
\* Nothing obliges musicbox to request, or a crash to happen or not.
FairSpec == Spec /\ WF_vars(Downloader) /\ WF_vars(Boot)

-----------------------------------------------------------------------------
(* Properties *)

Points == {"run", "leave", "off", "nvs", "count", "bail", "bail_led", "led",
           "load", "decide", "wifi", "download", "save", "reset", "handover"}
States == [reason : Reasons, folder : Folders \cup {NoFolder},
           retry : 0..(Wrap - 1), error : Errors]

\* The counters stay in their width, the keys in their ranges, and musicbox
\* and downloader control points belong to the firmware that runs.
TypeOK ==
    /\ nvs \in States /\ g_current_state \in States
    /\ boot_cnt \in 0..(Wrap - 1)
    /\ boot_part \in {"musicbox", "downloader"}
    /\ app \in {"off", "musicbox", "downloader"} /\ pc \in Points
    /\ app = "off" <=> pc = "off"
    /\ app = "musicbox" => pc \in {"run", "save", "leave"}
    /\ save_todo \in Seq(Keys) /\ save_next \in Points
    /\ card \in [Folders -> FD!States] /\ dl_phase \in FD!Phases
    /\ dl_outcome \in {"none", "OK"} \cup FD!Failures
    /\ tries \in 0..MaxBootFailures
    /\ bailed \in BOOLEAN /\ refused \in BOOLEAN /\ requests \in 0..MaxRequests

\* Whenever NVS says SUCCESS, the folder it names is on the card and usable:
\* at no crash point, and in no order of verdicts and requests, does the reason
\* meet the folder of another request or a folder whose swap was cut short.
SuccessTruth ==
    nvs.reason = "DOWNLOAD_SUCCESS" =>
        nvs.folder \in Folders /\ card[nvs.folder] = "usable"

\* A crash loop starts fewer than MAX_BOOT_FAILURES downloads before musicbox
\* gets the device back or a boot gives up at the limit, unless NVS refused a
\* write.  Needs "bail" \notin CrashPoints: crashes there count up to the wrap.
TriesBounded == refused \/ tries < MaxBootFailures

\* The downloader goes back with a request unanswered only after bailing out,
\* when the request named no folder, or when NVS refused the verdict.
UnansweredOnlyByBailOut ==
    (pc = "handover" /\ nvs.reason = "DOWNLOAD_REQUEST") =>
        bailed \/ nvs.folder = NoFolder \/ refused

\* A download works on the request that is in NVS; one that already has a
\* verdict is never started again, whatever crashed in between.
NoRepeat ==
    pc \in {"wifi", "download"} =>
        nvs.reason = "DOWNLOAD_REQUEST" /\ nvs.folder = g_current_state.folder

\* The steps the boot counter does not protect against: a crash before the boot
\* is counted, on the bail-out path or during the hand-over, an erased counter,
\* and a count that NVS does not take.
Unprotected ==
    \/ Crash /\ pc \in {"nvs", "count", "bail", "bail_led", "handover"}
    \/ NvsRecover
    \/ pc = "count" /\ UNCHANGED boot_cnt

\* With FairSpec: however often the downloader crashes, musicbox gets the
\* device back, unless unprotected steps go on for ever.
AntiBrick == []<><<Unprotected>>_vars \/ (app = "downloader" ~> app = "musicbox")

\* "Anti-brick mechanism" (downloader_main.cpp:407), without exceptions: a
\* downloader that keeps crashing gives the device back.  Violated by a crash
\* in led_init, which the bail-out path calls after it has reset the counter.
DeviceComesBack == app = "downloader" ~> app = "musicbox"
=============================================================================
