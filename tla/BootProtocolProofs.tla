------------------------- MODULE BootProtocolProofs -------------------------
(***************************************************************************)
(* Proofs that the safety properties of BootProtocol hold for every set of *)
(* folders, every number of requests, every pair of limits and every set   *)
(* of crash points.                                                        *)
(*                                                                         *)
(* The verdict and the request are keys written one after the other, and   *)
(* any of them may be the last before a crash.  The invariant says which   *)
(* mixtures of old and new keys NVS can hold (Saving, Loaded), what the    *)
(* download has done to the card (Download), and how the boot counter      *)
(* bounds the downloads begun (Counted).                                   *)
(***************************************************************************)
EXTENDS BootProtocol, SequenceTheorems, TLAPS

\* A save in progress has written the reason first.  Musicbox starts a request
\* or clears a verdict; the downloader answers the request that is in NVS,
\* whose folder it does not change.
Suffixes == {<<"reason", "folder", "retry", "error">>,
             <<"folder", "retry", "error">>, <<"retry", "error">>,
             <<"error">>}
Saving ==
    pc = "save" =>
      /\ save_todo \in Suffixes
      /\ \/ /\ app = "musicbox" /\ save_next \in {"run", "leave"}
            /\ g_current_state.reason \in {"NORMAL", "DOWNLOAD_REQUEST"}
            /\ save_todo = SaveOrder \/ nvs.reason = g_current_state.reason
         \/ /\ app = "downloader" /\ save_next \in {"handover", "reset"}
            /\ g_current_state.reason \in {"DOWNLOAD_SUCCESS", "DOWNLOAD_FAILED"}
            /\ \/ save_todo = SaveOrder \/ refused
               \/ nvs.reason = g_current_state.reason
            /\ nvs.reason \in {"DOWNLOAD_REQUEST", g_current_state.reason}
            /\ g_current_state.folder \in Folders
            /\ nvs.folder = g_current_state.folder
            /\ g_current_state.reason = "DOWNLOAD_SUCCESS" =>
                  card[g_current_state.folder] = "usable"

\* Until its verdict a boot works on the keys it has loaded.
Loaded ==
    /\ pc \in {"decide", "wifi", "download"} => g_current_state = nvs
    /\ pc \in {"wifi", "download"} => NeedsDownload

\* A download is in progress only there, and has put a usable folder in place
\* when it says so.
Download ==
    /\ dl_phase # "idle" => pc = "download" /\ dl_outcome = "none"
    /\ pc = "download" /\ (dl_phase = "placed" \/ dl_outcome = "OK") =>
          card[g_current_state.folder] = "usable"

\* Which firmware runs, and that it got where it is for a reason.
Control ==
    /\ pc \in {"run", "leave"} => app = "musicbox"
    /\ pc = "bail_led" => bailed
    /\ pc = "reset" => nvs.reason # "DOWNLOAD_REQUEST" \/ refused

IInv == /\ TypeOK /\ Saving /\ Loaded /\ Download /\ Control
        /\ SuccessTruth /\ UnansweredOnlyByBailOut

\* While a request stands, the boots counted cover the downloads begun.
Counted ==
    refused \/
      /\ tries < MaxBootFailures
      /\ boot_cnt < MaxBootFailures \/ pc = "bail"
      /\ nvs.reason = "DOWNLOAD_REQUEST" =>
            /\ tries <= boot_cnt
            /\ pc \in {"led", "load", "decide", "wifi"} => tries < boot_cnt
      /\ app = "musicbox" => tries = 0

USE FolderAssumption, LimitsAssumption, FaultsAssumption, RequestsAssumption
    DEF persistVars, stateVars, dlVars, histVars, Reasons, Errors, Keys, Points,
        States, FD!States, FD!Phases, FD!Failures

-----------------------------------------------------------------------------
(* Lemmas about the operators *)

\* boot_mgr_save_state writes the keys of SaveOrder, first to last.
LEMMA SuffixProperties ==
  ASSUME NEW s \in Suffixes
  PROVE  /\ s \in Seq(Keys) /\ s # <<>> /\ Head(s) \in Keys
         /\ s = SaveOrder <=> Head(s) = "reason"
         /\ Tail(s) \in Suffixes \cup {<<>>} /\ Tail(s) \in Seq(Keys)
         /\ Tail(s) # SaveOrder
<1>1. CASE s = <<"reason", "folder", "retry", "error">>
  BY <1>1 DEF Suffixes, SaveOrder
<1>2. CASE s = <<"folder", "retry", "error">>
  BY <1>2 DEF Suffixes, SaveOrder
<1>3. CASE s = <<"retry", "error">>
  BY <1>3 DEF Suffixes, SaveOrder
<1>4. CASE s = <<"error">>
  BY <1>4 DEF Suffixes, SaveOrder
<1> QED BY <1>1, <1>2, <1>3, <1>4 DEF Suffixes

\* Writing one key changes that key alone.
LEMMA WriteKey ==
  ASSUME nvs \in States, g_current_state \in States, NEW k \in Keys,
         nvs' = [nvs EXCEPT ![k] = g_current_state[k]]
  PROVE  /\ nvs' \in States
         /\ nvs'.reason = IF k = "reason" THEN g_current_state.reason
                                          ELSE nvs.reason
         /\ nvs'.folder = IF k = "folder" THEN g_current_state.folder
                                          ELSE nvs.folder
<1>1. CASE k = "reason"
  BY <1>1
<1>2. CASE k = "folder"
  BY <1>2
<1>3. CASE k = "retry"
  BY <1>3
<1>4. CASE k = "error"
  BY <1>4
<1> QED BY <1>1, <1>2, <1>3, <1>4

\* The verdicts keep the folder of the request, and their counter its width.
LEMMA VerdictType ==
  ASSUME g_current_state \in States, NEW e \in Errors
  PROVE  /\ Failed(e) \in States /\ Failed(e).reason = "DOWNLOAD_FAILED"
         /\ Failed(e).folder = g_current_state.folder
         /\ Succeeded \in States /\ Succeeded.reason = "DOWNLOAD_SUCCESS"
         /\ Succeeded.folder = g_current_state.folder
<1>1. (g_current_state.retry + 1) % Wrap \in 0..(Wrap - 1)
  OBVIOUS
<1> QED BY <1>1 DEF Failed, Succeeded

-----------------------------------------------------------------------------
(* Every action preserves the invariant *)

\* One key of a save: NVS may hold any prefix of the new keys, and less when
\* writes are refused, but never the reason of one request with the folder of
\* another.
LEMMA SaveKeyStep ==
  ASSUME IInv, SaveKey
  PROVE  IInv'
<1> DEFINE k == Head(save_todo)
<1>1. /\ save_todo \in Suffixes /\ pc = "save" /\ k \in Keys
      /\ save_todo = SaveOrder <=> k = "reason"
      /\ save_todo' \in Suffixes \cup {<<>>} /\ save_todo' \in Seq(Keys)
      /\ save_todo' # SaveOrder
      /\ pc' = IF save_todo' = <<>> THEN save_next ELSE "save"
      /\ UNCHANGED <<boot_cnt, boot_part, app, g_current_state, save_next,
                     dlVars, tries, bailed, requests>>
  BY SuffixProperties DEF SaveKey, IInv, Saving
<1>2. nvs \in States /\ g_current_state \in States
  BY DEF IInv, TypeOK
<1>3. \/ /\ UNCHANGED refused
         /\ nvs' = [nvs EXCEPT ![k] = g_current_state[k]]
      \/ app = "downloader" /\ refused' = TRUE /\ nvs' = nvs
  BY DEF SaveKey, Refuse
<1> HIDE DEF k
<1>4. \/ /\ UNCHANGED refused /\ nvs' \in States
         /\ nvs'.reason = IF k = "reason" THEN g_current_state.reason
                                          ELSE nvs.reason
         /\ nvs'.folder = IF k = "folder" THEN g_current_state.folder
                                          ELSE nvs.folder
      \/ app = "downloader" /\ refused' = TRUE /\ nvs' = nvs
  BY <1>1, <1>2, <1>3, WriteKey
<1>5. CASE app = "musicbox"
  <2>1. /\ save_next \in {"run", "leave"}
        /\ g_current_state.reason \in {"NORMAL", "DOWNLOAD_REQUEST"}
        /\ save_todo = SaveOrder \/ nvs.reason = g_current_state.reason
    BY <1>1, <1>5 DEF IInv, Saving
  <2>2. TypeOK'
    BY <1>1, <1>4, <1>5, <2>1 DEF IInv, TypeOK
  <2>3. nvs'.reason = g_current_state.reason
    BY <1>1, <1>4, <1>5, <2>1
  <2> QED BY <1>1, <1>4, <1>5, <2>1, <2>2, <2>3
          DEF IInv, Saving, Loaded, Download, Control, SuccessTruth,
              UnansweredOnlyByBailOut
<1>6. CASE app = "downloader"
  <2>1. /\ save_next \in {"handover", "reset"}
        /\ g_current_state.reason \in {"DOWNLOAD_SUCCESS", "DOWNLOAD_FAILED"}
        /\ \/ save_todo = SaveOrder \/ refused
           \/ nvs.reason = g_current_state.reason
        /\ nvs.reason \in {"DOWNLOAD_REQUEST", g_current_state.reason}
        /\ g_current_state.folder \in Folders
        /\ nvs.folder = g_current_state.folder
        /\ g_current_state.reason = "DOWNLOAD_SUCCESS" =>
              card[g_current_state.folder] = "usable"
    BY <1>1, <1>6 DEF IInv, Saving
  <2>2. TypeOK'
    <3>1. refused' \in BOOLEAN
      BY <1>4, Zenon DEF IInv, TypeOK
    <3>2. nvs' \in States
      BY <1>2, <1>4
    <3>3. pc' \in Points /\ pc' # "off"
      BY <1>1, <2>1
    <3> QED BY <1>1, <1>6, <3>1, <3>2, <3>3 DEF IInv, TypeOK
  <2>3. /\ refused' \/ nvs'.reason = g_current_state.reason
        /\ nvs'.reason \in {"DOWNLOAD_REQUEST", g_current_state.reason}
        /\ nvs'.folder = g_current_state.folder
    BY <1>1, <1>4, <2>1
  <2>4. Saving' /\ SuccessTruth'
    BY <1>1, <1>6, <2>1, <2>3 DEF Saving, SuccessTruth
  <2>5. Loaded' /\ Download' /\ Control' /\ UnansweredOnlyByBailOut'
    BY <1>1, <1>6, <2>1, <2>3 DEF IInv, Loaded, Download, Control,
                                  UnansweredOnlyByBailOut
  <2> QED BY <2>2, <2>4, <2>5 DEF IInv
<1> QED BY <1>1, <1>5, <1>6 DEF IInv, TypeOK

\* A verdict on the request that was loaded begins to be saved; SUCCESS only
\* for a folder that is in place.
LEMMA VerdictSteps ==
  ASSUME IInv,
         GiveUp \/ WifiFails \/ DownloadOk \/ \E e \in FD!Failures : DownloadFails(e)
  PROVE  IInv'
<1>1. /\ g_current_state \in States /\ g_current_state = nvs /\ NeedsDownload
      /\ app = "downloader"
  BY DEF GiveUp, WifiFails, DownloadOk, DownloadFails, IInv, TypeOK, Loaded
<1>2. /\ pc' = "save" /\ save_todo' = SaveOrder
      /\ UNCHANGED <<persistVars, app, dlVars, histVars>>
      /\ dl_phase = "idle"
  BY DEF GiveUp, WifiFails, DownloadOk, DownloadFails, Save, IInv, Download
<1>3. /\ g_current_state' \in States
      /\ g_current_state'.folder = g_current_state.folder
      /\ save_next' \in {"handover", "reset"}
      /\ \/ g_current_state'.reason = "DOWNLOAD_FAILED"
         \/ /\ g_current_state'.reason = "DOWNLOAD_SUCCESS"
            /\ card[g_current_state.folder] = "usable"
  <2>1. CASE GiveUp
    BY <1>1, <2>1, VerdictType DEF GiveUp, Save
  <2>2. CASE WifiFails
    BY <1>1, <2>2, VerdictType DEF WifiFails, Save
  <2>3. CASE DownloadOk
    BY <1>1, <2>3, VerdictType DEF DownloadOk, Save, IInv, Download
  <2>4. CASE \E e \in FD!Failures : DownloadFails(e)
    BY <1>1, <2>4, VerdictType DEF DownloadFails, Save
  <2> QED BY <2>1, <2>2, <2>3, <2>4
<1>4. SaveOrder \in Suffixes /\ SaveOrder \in Seq(Keys)
  BY DEF SaveOrder, Suffixes
<1>5. g_current_state.folder \in Folders /\ nvs.reason = "DOWNLOAD_REQUEST"
  BY <1>1 DEF NeedsDownload
<1>6. TypeOK'
  BY <1>1, <1>2, <1>3, <1>4 DEF IInv, TypeOK
<1> QED BY <1>1, <1>2, <1>3, <1>4, <1>5, <1>6
        DEF IInv, Saving, Loaded, Download, Control, SuccessTruth,
            UnansweredOnlyByBailOut

\* Musicbox begins to save a request or to clear a verdict.
LEMMA MusicboxSaves ==
  ASSUME IInv,
         \/ ClearState \/ RequestAgain
         \/ \E x \in Folders \cup {NoFolder} : Request(x)
  PROVE  IInv'
<1>1. /\ pc = "run" /\ app = "musicbox" /\ pc' = "save"
      /\ save_todo' = SaveOrder /\ save_next' \in {"run", "leave"}
      /\ UNCHANGED <<persistVars, app, dlVars, tries, bailed, refused>>
  BY DEF ClearState, RequestAgain, Request, Save, IInv, Control
<1>2. /\ g_current_state' \in States
      /\ g_current_state'.reason \in {"NORMAL", "DOWNLOAD_REQUEST"}
  <2>1. 0 \in 0..(Wrap - 1)
    OBVIOUS
  <2>2. nvs \in States
    BY DEF IInv, TypeOK
  <2>3. CASE ClearState
    BY <2>1, <2>3 DEF ClearState, Save, Clean
  <2>4. CASE RequestAgain
    BY <2>2, <2>4 DEF RequestAgain, Save
  <2>5. ASSUME NEW x \in Folders \cup {NoFolder}, Request(x)
        PROVE  /\ g_current_state' \in States
               /\ g_current_state'.reason \in {"NORMAL", "DOWNLOAD_REQUEST"}
    BY <2>1, <2>5 DEF Request, Save
  <2> QED BY <2>3, <2>4, <2>5
<1>3. SaveOrder \in Suffixes /\ SaveOrder \in Seq(Keys)
  BY DEF SaveOrder, Suffixes
<1>4. requests' \in 0..MaxRequests
  <2>1. /\ requests \in 0..MaxRequests
        /\ \/ requests' = requests
           \/ requests < MaxRequests /\ requests' = requests + 1
    BY DEF ClearState, RequestAgain, Request, IInv, TypeOK
  <2> QED BY <2>1
<1>5. TypeOK'
  BY <1>1, <1>2, <1>3, <1>4 DEF IInv, TypeOK
<1> QED BY <1>1, <1>2, <1>3, <1>5
        DEF IInv, Saving, Loaded, Download, Control, SuccessTruth,
            UnansweredOnlyByBailOut

\* The device goes off and comes up again; NVS and the card stay.
LEMMA PowerSteps ==
  ASSUME IInv, Leave \/ MusicboxPowerLoss \/ Boot \/ Handover \/ Crash
  PROVE  IInv'
<1>1. TypeOK'
  <2>1. <<>> \in Seq(Keys)
    OBVIOUS
  <2>2. bailed' \in BOOLEAN /\ refused' \in BOOLEAN
    BY Zenon DEF Leave, MusicboxPowerLoss, Boot, Handover, Crash, IInv, TypeOK
  <2>3. tries' \in 0..MaxBootFailures /\ requests' \in 0..MaxRequests
    <3>1. tries' \in {0, tries} /\ requests' = requests
      BY DEF Leave, MusicboxPowerLoss, Boot, Handover, Crash
    <3> QED BY <3>1 DEF IInv, TypeOK
  <2>4. /\ UNCHANGED <<nvs, boot_cnt, card>>
        /\ g_current_state' \in {Clean, g_current_state}
        /\ save_next' \in {"run", save_next}
        /\ save_todo' \in {<<>>, save_todo}
        /\ dl_phase' \in {"idle", dl_phase}
        /\ dl_outcome' \in {"none", dl_outcome}
    BY DEF Leave, MusicboxPowerLoss, Boot, Handover, Crash
  <2>5. boot_part' \in {"musicbox", "downloader"}
    BY DEF Leave, MusicboxPowerLoss, Boot, Handover, Crash, IInv, TypeOK
  <2>6. \/ app' = "off" /\ pc' = "off"
        \/ app' = "musicbox" /\ pc' = "run"
        \/ app' = "downloader" /\ pc' = "nvs"
    BY DEF Leave, MusicboxPowerLoss, Boot, Handover, Crash, IInv, TypeOK
  <2>7. /\ save_todo' \in Seq(Keys) /\ dl_phase' \in FD!Phases
        /\ dl_outcome' \in {"none", "OK"} \cup FD!Failures
        /\ g_current_state' \in States /\ save_next' \in Points
    <3>1. Clean \in States
      <4>1. 0 \in 0..(Wrap - 1)
        OBVIOUS
      <4> QED BY <4>1 DEF Clean
    <3> QED BY <2>1, <2>4, <3>1 DEF IInv, TypeOK
  <2> QED BY <2>2, <2>3, <2>4, <2>5, <2>6, <2>7 DEF IInv, TypeOK
<1>2. pc' \in {"off", "nvs", "run"} /\ UNCHANGED <<nvs, card>>
  BY DEF Leave, MusicboxPowerLoss, Boot, Handover, Crash
<1>3. dl_phase' = "idle"
  BY DEF Leave, MusicboxPowerLoss, Boot, Handover, Crash, IInv, TypeOK, Download
<1>4. Control'
  BY <1>1, <1>2 DEF Boot, Leave, MusicboxPowerLoss, Handover, Crash, IInv,
                    TypeOK, Control
<1> QED BY <1>1, <1>2, <1>3, <1>4
        DEF IInv, Saving, Loaded, Download, SuccessTruth,
            UnansweredOnlyByBailOut

\* A boot counts itself, or gives up at the limit.
LEMMA CountSteps ==
  ASSUME IInv,
         \/ NvsOk \/ NvsRecover \/ CountBoot \/ CountSkipped \/ BailOut
         \/ BailLed \/ LedInit
  PROVE  IInv'
<1>1. TypeOK'
  <2>1. 0 \in 0..(Wrap - 1) /\ (boot_cnt + 1) % Wrap \in 0..(Wrap - 1)
    BY DEF IInv, TypeOK
  <2>2. boot_cnt' \in 0..(Wrap - 1) /\ tries' \in 0..MaxBootFailures
    BY <2>1 DEF NvsOk, NvsRecover, CountBoot, CountSkipped, BailOut, BailLed,
                LedInit, SetCount, IInv, TypeOK
  <2>3. nvs' \in States
    BY <2>1 DEF NvsOk, NvsRecover, CountBoot, CountSkipped, BailOut, BailLed,
                LedInit, Clean, IInv, TypeOK
  <2>4. refused' \in BOOLEAN /\ bailed' \in BOOLEAN
    BY DEF NvsOk, NvsRecover, CountBoot, CountSkipped, BailOut, BailLed,
           LedInit, SetCount, Refuse, IInv, TypeOK
  <2> QED BY <2>2, <2>3, <2>4
          DEF NvsOk, NvsRecover, CountBoot, CountSkipped, BailOut, BailLed,
              LedInit, IInv, TypeOK
<1>2. /\ pc' \in {"count", "bail", "bail_led", "led", "load", "handover"}
      /\ pc' \in {"bail_led", "handover"} => bailed'
      /\ pc \notin {"save", "download"} /\ UNCHANGED <<dlVars, app>>
      /\ nvs' = nvs \/ nvs'.reason = "NORMAL"
  BY DEF NvsOk, NvsRecover, CountBoot, CountSkipped, BailOut, BailLed, LedInit,
         Clean, IInv, Control
<1> QED BY <1>1, <1>2
        DEF IInv, Saving, Loaded, Download, Control, SuccessTruth,
            UnansweredOnlyByBailOut

\* The request is loaded and judged; the end of a successful boot.
LEMMA DecideSteps ==
  ASSUME IInv, LoadState \/ NotRequested \/ StartWifi \/ ResetCount
  PROVE  IInv'
<1>1. TypeOK'
  <2>1. CASE ResetCount
    <3>1. refused' \in BOOLEAN
      BY <2>1, Zenon DEF ResetCount, SetCount, Refuse, IInv, TypeOK
    <3>2. boot_cnt' \in {0, boot_cnt}
      BY <2>1 DEF ResetCount, SetCount
    <3>3. boot_cnt' \in 0..(Wrap - 1)
      BY <3>2 DEF IInv, TypeOK
    <3> QED BY <2>1, <3>1, <3>3 DEF ResetCount, IInv, TypeOK
  <2>2. CASE LoadState \/ NotRequested \/ StartWifi
    BY <2>2 DEF LoadState, NotRequested, StartWifi, IInv, TypeOK
  <2> QED BY <2>1, <2>2
<1>2. CASE LoadState
  BY <1>1, <1>2 DEF LoadState, IInv, Saving, Loaded, Download, Control,
                    SuccessTruth, UnansweredOnlyByBailOut
<1>3. CASE NotRequested
  BY <1>1, <1>3 DEF NotRequested, NeedsDownload, IInv, TypeOK, Saving, Loaded,
                    Download, Control, SuccessTruth, UnansweredOnlyByBailOut
<1>4. CASE StartWifi
  BY <1>1, <1>4 DEF StartWifi, NeedsDownload, IInv, Saving, Loaded, Download,
                    Control, SuccessTruth, UnansweredOnlyByBailOut
<1>5. CASE ResetCount
  BY <1>1, <1>5 DEF ResetCount, SetCount, Refuse, IInv, Saving, Loaded,
                    Download, Control, SuccessTruth, UnansweredOnlyByBailOut
<1> QED BY <1>2, <1>3, <1>4, <1>5

\* The download begins, and takes a step of FolderContract on its folder.
LEMMA DownloadSteps ==
  ASSUME IInv, WifiConnected \/ DownloadStep
  PROVE  IInv'
<1>1. CASE WifiConnected
  <2>1. dl_phase' = "working" /\ dl_outcome' = "none" /\ UNCHANGED card
    BY <1>1 DEF WifiConnected, FD!Begin
  <2>2. tries' \in 0..MaxBootFailures
    BY <1>1 DEF WifiConnected, IInv, TypeOK
  <2>3. TypeOK'
    BY <1>1, <2>1, <2>2 DEF WifiConnected, IInv, TypeOK
  <2> QED BY <1>1, <2>1, <2>3
          DEF WifiConnected, NeedsDownload, IInv, Saving, Loaded, Download,
              Control, SuccessTruth, UnansweredOnlyByBailOut
<1>2. CASE DownloadStep
  <2>1. /\ pc = "download" /\ app = "downloader"
        /\ UNCHANGED <<persistVars, app, pc, stateVars, histVars>>
        /\ nvs.reason = "DOWNLOAD_REQUEST" /\ g_current_state.folder \in Folders
    BY <1>2 DEF DownloadStep, IInv, TypeOK, Loaded, NeedsDownload
  <2>2. PICK content \in FD!States :
          card' = [card EXCEPT ![g_current_state.folder] = content]
    BY <1>2 DEF DownloadStep
  <2>3. card' \in [Folders -> FD!States]
    BY <2>2 DEF IInv, TypeOK
  <2>4. /\ dl_phase' \in FD!Phases
        /\ dl_outcome' \in {"none", "OK"} \cup FD!Failures
        /\ dl_phase' # "idle" => dl_outcome' = "none"
        /\ (dl_phase' = "placed" \/ dl_outcome' = "OK") =>
              card'[g_current_state.folder] = "usable"
    BY <1>2, <2>1 DEF DownloadStep, FD!Work, FD!StartSwap, FD!Degrade, FD!Place,
         FD!GiveUp, FD!Succeed, FD!Fail, IInv, TypeOK, Download
  <2>5. TypeOK'
    BY <2>1, <2>3, <2>4 DEF IInv, TypeOK
  <2> QED BY <2>1, <2>4, <2>5
          DEF NeedsDownload, IInv, Saving, Loaded, Download, Control,
              SuccessTruth, UnansweredOnlyByBailOut
<1> QED BY <1>1, <1>2

LEMMA InitInv == Init => IInv
<1> SUFFICES ASSUME Init PROVE IInv
  OBVIOUS
<1>1. TypeOK
  <2>1. 0 \in 0..(Wrap - 1) /\ 0 \in 0..MaxBootFailures /\ 0 \in 0..MaxRequests
    OBVIOUS
  <2>2. Clean \in States /\ <<>> \in Seq(Keys)
    BY <2>1 DEF Clean
  <2>3. bailed \in BOOLEAN /\ refused \in BOOLEAN
    BY Zenon DEF Init
  <2> QED BY <2>1, <2>2, <2>3 DEF Init, TypeOK
<1>2. nvs.reason = "NORMAL"
  BY DEF Init, Clean
<1> QED BY <1>1, <1>2 DEF Init, IInv, Saving, Loaded, Download, Control,
                          SuccessTruth, UnansweredOnlyByBailOut

LEMMA StepInv == IInv /\ [Next]_vars => IInv'
<1> SUFFICES ASSUME IInv, [Next]_vars PROVE IInv'
  OBVIOUS
<1>1. CASE UNCHANGED vars
  BY <1>1 DEF vars, IInv, TypeOK, NeedsDownload, Saving, Loaded, Download,
              Control, SuccessTruth, UnansweredOnlyByBailOut
<1>2. CASE Next
  BY <1>2, SaveKeyStep, VerdictSteps, MusicboxSaves, PowerSteps, CountSteps,
     DecideSteps, DownloadSteps DEF Next, Downloader, Musicbox
<1> QED BY <1>1, <1>2

LEMMA Invariance == Spec => []IInv
  BY InitInv, StepInv, PTL DEF Spec

-----------------------------------------------------------------------------
(* The boot counter bounds the downloads begun *)

\* What the history remembers it does not forget.
LEMMA OnceRefused ==
  ASSUME Next, refused
  PROVE  refused'
  BY DEF Next, Downloader, Musicbox, NvsOk, NvsRecover, CountBoot, CountSkipped,
         BailOut, BailLed, LedInit, LoadState, NotRequested, GiveUp, StartWifi,
         WifiFails, WifiConnected, DownloadStep, DownloadOk, ResetCount,
         Handover, SaveKey, DownloadFails, ClearState, Leave,
         MusicboxPowerLoss, Request, RequestAgain, Boot, Crash, SetCount, Refuse

LEMMA CountedInit == Init => Counted
  BY DEF Init, Counted, Clean

LEMMA CountedStep ==
  ASSUME IInv, Counted, Next, "bail" \notin CrashPoints
  PROVE  Counted'
<1>1. /\ boot_cnt \in Nat /\ tries \in Nat
      /\ MaxBootFailures \in Nat /\ MaxBootFailures < Wrap
      /\ app = "off" <=> pc = "off"
      /\ app = "musicbox" => pc \in {"run", "save", "leave"}
  BY DEF IInv, TypeOK
<1>2. SUFFICES ASSUME ~refused, ~refused'
               PROVE  Counted'
  BY OnceRefused DEF Counted
<1>3. CASE SaveKey
  <2>1. /\ pc = "save" /\ pc' \in {"save", "run", "leave", "handover", "reset"}
        /\ UNCHANGED <<boot_cnt, app, tries>>
    BY <1>3 DEF SaveKey, IInv, Saving
  <2>2. CASE app = "musicbox"
    BY <1>1, <1>2, <2>1, <2>2 DEF Counted
  <2>3. CASE app = "downloader"
    <3>1. nvs'.reason \in {nvs.reason, "DOWNLOAD_SUCCESS", "DOWNLOAD_FAILED"}
      <4>1. /\ Head(save_todo) \in Keys
            /\ nvs' = [nvs EXCEPT ![Head(save_todo)] =
                                     g_current_state[Head(save_todo)]]
        BY <1>2, <1>3, SuffixProperties DEF SaveKey, Refuse, IInv, Saving
      <4>2. /\ nvs \in States /\ g_current_state \in States
            /\ g_current_state.reason \in {"DOWNLOAD_SUCCESS", "DOWNLOAD_FAILED"}
        BY <2>1, <2>3 DEF IInv, TypeOK, Saving
      <4> QED BY <4>1, <4>2, WriteKey
    <3> QED BY <1>1, <1>2, <2>1, <2>3, <3>1 DEF Counted
  <2> QED BY <1>1, <2>1, <2>2, <2>3 DEF IInv, Saving
<1>4. CASE CountBoot
  <2>1. /\ pc = "count" /\ boot_cnt' = (boot_cnt + 1) % Wrap
        /\ pc' = IF AtLimit((boot_cnt + 1) % Wrap) THEN "bail" ELSE "led"
        /\ UNCHANGED <<nvs, app, tries>>
    BY <1>2, <1>4 DEF CountBoot, SetCount, Refuse
  <2>2. boot_cnt < MaxBootFailures /\ boot_cnt' = boot_cnt + 1
    BY <1>1, <1>2, <2>1 DEF Counted
  <2>3. boot_cnt' < MaxBootFailures \/ pc' = "bail"
    BY <1>1, <2>1, <2>2 DEF AtLimit
  <2> QED BY <1>1, <1>2, <2>1, <2>2, <2>3 DEF Counted
<1>5. CASE WifiConnected
  <2>1. /\ nvs.reason = "DOWNLOAD_REQUEST" /\ pc = "wifi" /\ pc' = "download"
        /\ UNCHANGED <<nvs, boot_cnt, app>>
        /\ tries' = IF tries < MaxBootFailures THEN tries + 1 ELSE tries
    BY <1>5 DEF WifiConnected, IInv, Loaded, NeedsDownload
  <2> QED BY <1>1, <1>2, <2>1 DEF Counted
<1>6. CASE BailOut \/ NvsRecover
  BY <1>1, <1>2, <1>6 DEF BailOut, NvsRecover, SetCount, Refuse, Clean, Counted
<1>7. CASE ResetCount
  BY <1>1, <1>2, <1>7 DEF ResetCount, SetCount, Refuse, IInv, Control, Counted
<1>8. CASE NvsOk \/ BailLed \/ LedInit \/ LoadState \/ NotRequested \/ StartWifi
  BY <1>1, <1>2, <1>8 DEF NvsOk, BailLed, LedInit, LoadState, NotRequested,
                          StartWifi, Counted
<1>9. CASE \/ GiveUp \/ WifiFails \/ DownloadOk \/ DownloadStep
           \/ \E e \in FD!Failures : DownloadFails(e)
  BY <1>1, <1>2, <1>9 DEF GiveUp, WifiFails, DownloadOk, DownloadStep,
                          DownloadFails, Save, Counted
<1>10. CASE Handover \/ Crash \/ Leave \/ MusicboxPowerLoss
  BY <1>1, <1>2, <1>10 DEF Handover, Crash, Leave, MusicboxPowerLoss, Counted
<1>11. CASE Boot
  BY <1>1, <1>2, <1>11 DEF Boot, IInv, TypeOK, Counted
<1>12. CASE \/ ClearState \/ RequestAgain
            \/ \E x \in Folders \cup {NoFolder} : Request(x)
  BY <1>1, <1>2, <1>12 DEF ClearState, RequestAgain, Request, Save, Counted
<1>13. ~CountSkipped
  BY <1>2 DEF CountSkipped, Refuse
<1> QED BY <1>3, <1>4, <1>5, <1>6, <1>7, <1>8, <1>9, <1>10, <1>11, <1>12, <1>13
        DEF Next, Downloader, Musicbox

-----------------------------------------------------------------------------
(* Theorems *)

\* Keys, counters and control points stay in their ranges: neither boot_cnt nor
\* retry_count leaves its uint8_t, and musicbox is never at a control point of
\* the downloader.
THEOREM TypeCorrect == Spec => []TypeOK
  BY Invariance, PTL DEF IInv

\* The verdict boot_mgr_save_state stores key by key is true at every crash
\* point: SUCCESS is never read next to the folder of another request, or of a
\* folder whose swap was cut short.
THEOREM VerdictIsTrue == Spec => []SuccessTruth
  BY Invariance, PTL DEF IInv

\* app_main leaves a request unanswered only by its bail-out, for an empty
\* folder name, or because NVS refused the verdict.
THEOREM RequestIsAnswered == Spec => []UnansweredOnlyByBailOut
  BY Invariance, PTL DEF IInv

\* WiFi and download work on the request that NVS still holds.
THEOREM RequestIsCurrent == Spec => []NoRepeat
<1>1. IInv => NoRepeat
  BY DEF IInv, Loaded, NeedsDownload, NoRepeat
<1> QED BY <1>1, Invariance, PTL

\* A crash loop begins fewer than MAX_BOOT_FAILURES downloads, provided no
\* crash hits the few instructions between counting the boot and resetting the
\* counter at the limit: enough crashes there in a row would wrap the uint8_t.
THEOREM CrashLoopIsBounded ==
  ASSUME "bail" \notin CrashPoints
  PROVE  Spec => []TriesBounded
<1>1. IInv /\ Counted /\ [Next]_vars => Counted'
  <2>1. ASSUME Counted, UNCHANGED vars PROVE Counted'
    BY <2>1 DEF vars, Counted
  <2> QED BY <2>1, CountedStep
<1>2. Counted => TriesBounded
  BY DEF Counted, TriesBounded
<1> QED BY <1>1, <1>2, CountedInit, Invariance, PTL DEF Spec
=============================================================================
