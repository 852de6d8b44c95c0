---------------------------- MODULE FolderInstall ----------------------------
(***************************************************************************)
(* handle_download_with_retry: mount the card, download_simi_folder,       *)
(* unmount.  download_simi_folder fetches the file list, downloads every   *)
(* file into /sdcard/<folder>.tmp, verifies it against manifest.json,      *)
(* deletes the installed folder, renames .tmp into its place and writes    *)
(* the .ok marker.  The device may lose power or be reset between any two  *)
(* steps; what is on the card stays and a later boot calls again.          *)
(*                                                                         *)
(* The outcome of one file is the contract of FileFetch.  The contents of  *)
(* a file are abstracted to where they come from: "new" (complete, of this *)
(* call), "short" (of this call, but a byte is missing), "stale" (left in  *)
(* .tmp by an earlier call), "old" (installed by an earlier call).         *)
(***************************************************************************)
EXTENDS Integers

CONSTANTS Files,      \* names the server may list
          Manifest,   \* "manifest.json"
          Listed,     \* names in the manifest's "files" array
          Ladder,     \* SD_FREQ_LADDER as a set of kHz
          MountRungs, \* the clocks mount_sd falls back to, in kHz
          SD_SPI_FREQ_KHZ, \* the clock it tries first
          UnlinkMayFail, \* whether unlink and rmdir may fail silently
          MaxCalls    \* bound: calls over all boots

ASSUME ManifestAssumption == Manifest \in Files
ASSUME ListedAssumption   == Listed \subseteq Files
ASSUME LadderAssumption   == Ladder \subseteq Nat \ {0}
ASSUME RungsAssumption    ==
          MountRungs \cup {SD_SPI_FREQ_KHZ} \subseteq Nat \ {0}
ASSUME NamesAssumption    == ".ok" \notin Files /\ ".part" \notin Files
ASSUME UnlinkAssumption   == UnlinkMayFail \in BOOLEAN
ASSUME CallsAssumption    == MaxCalls \in Nat

VARIABLES
    pc, calls,
    served, todo, name,         \* the list; files left; file in progress
    s_card, s_spi_bus_initialized, spi,   \* card handle and bus flag are set;
                                \* the driver's bus really is initialised
    host_khz, s_sd_freq_khz,    \* clock of the mount attempt; clock in use
    all_ok, sd_failed,
    ret, cause,                 \* return value; why it is false (history)
    reported,                   \* outcome of handle_download_with_retry
    del_dir, del_todo, del_next,  \* delete_tree: directory, entries, return
    exists, dir,                \* the card: per directory, exists and contents
    installed                   \* history: the folder was usable when the
                                \* call began

busVars  == <<s_card, s_spi_bus_initialized, spi, host_khz>>
loopVars == <<served, todo, name, s_sd_freq_khz, all_ok, sd_failed>>
retVars  == <<ret, cause, reported>>
delVars  == <<del_dir, del_todo, del_next>>
cardVars == <<exists, dir>>
vars == <<pc, calls, busVars, loopVars, retVars, delVars, cardVars, installed>>

Names    == Files \cup {".ok", ".part"}
Contents == {"none", "old", "stale", "new", "short"}
Dirs     == {"tmp", "final"}
Empty    == [n \in Names |-> "none"]

\* The card before the first call: no folder, or a complete one; no .tmp.
Init ==
    /\ pc = "idle" /\ calls = 0
    /\ served = {} /\ todo = {} /\ name = Manifest
    /\ s_card = FALSE /\ s_spi_bus_initialized = FALSE /\ spi = FALSE
    /\ host_khz = SD_SPI_FREQ_KHZ /\ s_sd_freq_khz = SD_SPI_FREQ_KHZ
    /\ all_ok = FALSE /\ sd_failed = FALSE
    /\ ret = "none" /\ cause = "none" /\ reported = "none"
    /\ del_dir = "tmp" /\ del_todo = {} /\ del_next = "idle"
    /\ installed \in BOOLEAN
    /\ exists = [d \in Dirs |-> d = "final" /\ installed]
    /\ dir = [d \in Dirs |-> [n \in Names |->
                IF d = "final" /\ installed /\ n # ".part" THEN "old"
                                                          ELSE "none"]]

\* The directory holds the manifest and every file it lists, complete and of
\* this call.
Complete(d) == exists[d] /\ \A n \in Listed \cup {Manifest} : dir[d][n] = "new"

\* A folder the player can use: nothing the manifest lists is missing or short.
Usable == /\ exists["final"]
          /\ \A n \in Listed \cup {Manifest} :
               dir["final"][n] \in {"old", "new"}

\* download_simi_folder returns; unmount_sd comes next.
Return(r, why) == /\ pc' = "unmount" /\ ret' = r /\ cause' = why
                  /\ UNCHANGED reported

Highest(S) == CHOOSE h \in S : \A g \in S : g <= h

-----------------------------------------------------------------------------
(* delete_tree(d): unlink entry by entry, then rmdir; no result is looked at *)

Delete(d, next) ==
    /\ pc' = "delete"
    /\ del_dir' = d
    /\ del_todo' = {n \in Names : dir[d][n] # "none"}
    /\ del_next' = next

DeleteEntry(n) ==
    /\ pc = "delete" /\ n \in del_todo
    /\ del_todo' = del_todo \ {n}
    /\ \/ dir' = [dir EXCEPT ![del_dir][n] = "none"]
       \/ UnlinkMayFail /\ UNCHANGED dir
    /\ UNCHANGED <<pc, calls, busVars, loopVars, retVars, del_dir, del_next,
                   exists, installed>>

\* rmdir refuses a directory that is not empty.
RemoveDir ==
    /\ pc = "delete" /\ del_todo = {}
    /\ \/ dir[del_dir] = Empty /\ exists' = [exists EXCEPT ![del_dir] = FALSE]
       \/ (UnlinkMayFail \/ dir[del_dir] # Empty) /\ UNCHANGED exists
    /\ IF del_next = "fail" THEN Return("false", cause)
                            ELSE pc' = del_next /\ UNCHANGED retVars
    /\ UNCHANGED <<calls, busVars, loopVars, delVars, dir, installed>>

\* Entered once per boot, with the RAM of a fresh boot: force_clean_sd_bus
\* finds nothing to unmount or free.  What an earlier call left on the card is
\* relabelled.
CallFolder ==
    /\ pc = "idle" /\ calls < MaxCalls
    /\ calls' = calls + 1
    /\ pc' = "mount_init"
    /\ ret' = "none" /\ cause' = "none" /\ reported' = "none"
    /\ all_ok' = TRUE /\ sd_failed' = FALSE
    /\ host_khz' = SD_SPI_FREQ_KHZ /\ s_sd_freq_khz' = SD_SPI_FREQ_KHZ
    /\ dir' = [d \in Dirs |-> [n \in Names |->
                 IF dir[d][n] = "none" THEN "none"
                 ELSE IF d = "tmp" THEN "stale"
                 ELSE IF dir[d][n] = "new" THEN "old" ELSE dir[d][n]]]
    /\ installed' = Usable
    /\ UNCHANGED <<s_card, s_spi_bus_initialized, spi, served, todo, name,
                   delVars, exists>>

-----------------------------------------------------------------------------
(* mount_sd and unmount_sd *)

\* spi_bus_initialize; a bus that is already there is freed first.
BusInit ==
    /\ pc = "mount_init"
    /\ spi' = TRUE /\ s_spi_bus_initialized' = TRUE
    /\ pc' = "mount"
    /\ UNCHANGED <<calls, s_card, host_khz, loopVars, retVars, delVars,
                   cardVars, installed>>

BusInitFails ==
    /\ pc = "mount_init"
    /\ spi' = FALSE
    /\ Return("false", "mount")
    /\ UNCHANGED <<calls, s_card, s_spi_bus_initialized, host_khz, loopVars,
                   delVars, cardVars, installed>>

MountOk ==
    /\ pc = "mount"
    /\ s_card' = TRUE
    /\ s_sd_freq_khz' = host_khz
    /\ pc' = "list"
    /\ UNCHANGED <<calls, s_spi_bus_initialized, spi, host_khz, served, todo,
                   name, all_ok, sd_failed, retVars, delVars, cardVars,
                   installed>>

\* The rungs left to mount_sd: it only steps downward.
LowerRungs == {h \in MountRungs : h < host_khz}

MountRetry ==
    /\ pc = "mount" /\ LowerRungs # {}
    /\ host_khz' = Highest(LowerRungs)
    /\ UNCHANGED <<pc, calls, s_card, s_spi_bus_initialized, spi, loopVars,
                   retVars, delVars, cardVars, installed>>

MutFlagStays ==
    /\ pc = "mount" /\ LowerRungs = {}
    /\ spi' = FALSE
    /\ Return("false", "mount")
    /\ UNCHANGED <<calls, s_card, s_spi_bus_initialized, host_khz, loopVars,
                   delVars, cardVars, installed>>
MountFails ==
    /\ pc = "mount" /\ LowerRungs = {}
    /\ spi' = FALSE /\ s_spi_bus_initialized' = FALSE
    /\ Return("false", "mount")
    /\ UNCHANGED <<calls, s_card, host_khz, loopVars, delVars, cardVars,
                   installed>>

\* Free the card and the bus, and report what the flags say.
MutReportsByCard ==
    /\ pc = "unmount"
    /\ s_card' = FALSE
    /\ spi' = (spi /\ ~s_spi_bus_initialized) /\ s_spi_bus_initialized' = FALSE
    /\ reported' = IF s_card /\ ~sd_failed THEN "OK" ELSE "SD_CARD"
    /\ pc' = "idle"
    /\ UNCHANGED <<calls, host_khz, loopVars, ret, cause, delVars, cardVars,
                   installed>>
Unmount ==
    /\ pc = "unmount"
    /\ s_card' = FALSE
    /\ spi' = (spi /\ ~s_spi_bus_initialized) /\ s_spi_bus_initialized' = FALSE
    /\ reported' = IF ret = "true" THEN "OK"
                   ELSE IF ~s_card \/ sd_failed THEN "SD_CARD"
                   ELSE "DOWNLOAD_FAILED"
    /\ pc' = "idle"
    /\ UNCHANGED <<calls, host_khz, loopVars, ret, cause, delVars, cardVars,
                   installed>>

-----------------------------------------------------------------------------
(* download_simi_folder, 1) and 2): the list and the temporary directory *)

\* The request fails or the answer is no JSON array.
ListFails ==
    /\ pc = "list"
    /\ Return("false", "net")
    /\ UNCHANGED <<calls, busVars, loopVars, delVars, cardVars, installed>>

\* The list must name manifest.json.  A .tmp left behind is deleted.
MutFreeSpaceFirst(s) ==
    /\ pc = "list"
    /\ served' = s
    /\ IF Manifest \notin s
         THEN Return("false", "net") /\ UNCHANGED delVars
         ELSE /\ UNCHANGED retVars
              /\ IF exists["final"] THEN Delete("final", "mkdir")
                                    ELSE pc' = "mkdir" /\ UNCHANGED delVars
    /\ UNCHANGED <<calls, busVars, todo, name, s_sd_freq_khz, all_ok,
                   sd_failed, cardVars, installed>>
FetchList(s) ==
    /\ pc = "list"
    /\ served' = s
    /\ IF Manifest \notin s
         THEN Return("false", "net") /\ UNCHANGED delVars
         ELSE /\ UNCHANGED retVars
              /\ IF exists["tmp"] THEN Delete("tmp", "mkdir")
                                  ELSE pc' = "mkdir" /\ UNCHANGED delVars
    /\ UNCHANGED <<calls, busVars, todo, name, s_sd_freq_khz, all_ok,
                   sd_failed, cardVars, installed>>

Mkdir ==
    /\ pc = "mkdir" /\ ~exists["tmp"]
    /\ exists' = [exists EXCEPT !["tmp"] = TRUE]
    /\ todo' = served
    /\ pc' = "loop"
    /\ UNCHANGED <<calls, busVars, served, name, s_sd_freq_khz, all_ok,
                   sd_failed, retVars, delVars, dir, installed>>

\* It fails on a card error, and when .tmp could not be deleted.
MutMkdirIgnored ==
    /\ pc = "mkdir" /\ exists["tmp"]
    /\ todo' = served
    /\ pc' = "loop"
    /\ UNCHANGED <<calls, busVars, served, name, s_sd_freq_khz, all_ok,
                   sd_failed, retVars, delVars, cardVars, installed>>
MkdirFails ==
    /\ pc = "mkdir"
    /\ Return("false", "sd")
    /\ UNCHANGED <<calls, busVars, loopVars, delVars, cardVars, installed>>

-----------------------------------------------------------------------------
(* 3): the file loop *)

NextFile(n) ==
    /\ pc = "loop" /\ n \in todo
    /\ name' = n
    /\ pc' = "fetch"
    /\ UNCHANGED <<calls, busVars, served, todo, s_sd_freq_khz, all_ok,
                   sd_failed, retVars, delVars, cardVars, installed>>

\* download_file_standalone returns OK.  The file is short when the tail was
\* lost in the final flush, or no length was announced and the server closed.
FetchOk(c) ==
    /\ pc = "fetch"
    /\ dir' = [dir EXCEPT !["tmp"][name] = c, !["tmp"][".part"] = "none"]
    /\ todo' = todo \ {name}
    /\ pc' = "loop"
    /\ UNCHANGED <<calls, busVars, served, name, s_sd_freq_khz, all_ok,
                   sd_failed, retVars, delVars, exists, installed>>

\* It returns NET_FAILED or OTHER_FAILED: the loop ends.  A .part is left only
\* when the writer task could not be started.
FetchFails(part) ==
    /\ pc = "fetch"
    /\ dir' = [dir EXCEPT !["tmp"][".part"] = part]
    /\ all_ok' = FALSE
    /\ cause' = "net"
    /\ pc' = "cleanup"
    /\ UNCHANGED <<calls, busVars, served, todo, name, s_sd_freq_khz,
                   sd_failed, ret, reported, delVars, exists, installed>>

\* It returns SD_FAILED, with or without a .part left.
FetchSdFails(part) ==
    /\ pc = "fetch"
    /\ dir' = [dir EXCEPT !["tmp"][".part"] = part]
    /\ pc' = "lower"
    /\ UNCHANGED <<calls, busVars, loopVars, retVars, delVars, exists,
                   installed>>

\* sd_next_lower_freq: the frequencies strictly below cur.
MutNoFloor(cur) == {h \in Ladder \cup {-1} : h < cur}
MutAnyOther(cur) == {h \in Ladder : h # cur}
MutLowerOrEqual(cur) == {h \in Ladder : h <= cur}
Lower(cur) == {h \in Ladder : h < cur}

\* Step the clock down to the next rung, remove the .part and retry ...
LowerClock ==
    /\ pc = "lower"
    /\ Lower(s_sd_freq_khz) # {}
    /\ s_sd_freq_khz' = Highest(Lower(s_sd_freq_khz))
    /\ \/ dir' = [dir EXCEPT !["tmp"][".part"] = "none"]
       \/ UnlinkMayFail /\ UNCHANGED dir
    /\ pc' = "fetch"
    /\ UNCHANGED <<calls, busVars, served, todo, name, all_ok, sd_failed,
                   retVars, delVars, exists, installed>>

\* ... or give up: the floor is reached, or the host cannot change the clock.
GiveUp ==
    /\ pc = "lower"
    /\ all_ok' = FALSE /\ sd_failed' = TRUE
    /\ cause' = "sd"
    /\ pc' = "cleanup"
    /\ UNCHANGED <<calls, busVars, served, todo, name, s_sd_freq_khz, ret,
                   reported, delVars, cardVars, installed>>

LoopDone ==
    /\ pc = "loop" /\ todo = {}
    /\ pc' = "cleanup"
    /\ UNCHANGED <<calls, busVars, loopVars, retVars, delVars, cardVars,
                   installed>>

\* cleanup_http_pool, stop_sd_writer_task and free_pingpong_buffers (see
\* PingPong), then the failure exit: .tmp is deleted unless the card failed.
Cleanup ==
    /\ pc = "cleanup"
    /\ \/ all_ok /\ pc' = "verify" /\ UNCHANGED <<retVars, delVars>>
       \/ ~all_ok /\ sd_failed /\ Return("false", cause) /\ UNCHANGED delVars
       \/ ~all_ok /\ ~sd_failed /\ Delete("tmp", "fail") /\ UNCHANGED retVars
    /\ UNCHANGED <<calls, busVars, loopVars, cardVars, installed>>

-----------------------------------------------------------------------------
(* 4) to 6): verify, swap, marker *)

\* verify_download_integrity: the manifest parses and every file it lists has
\* the size listed.  Contents are not looked at, so a leftover would do.
MutNotVerified == exists["tmp"]
MutVerifyManifestOnly == dir["tmp"][Manifest] \notin {"none", "short"}
Verified == \A n \in Listed \cup {Manifest} :
               dir["tmp"][n] \notin {"none", "short"}

\* The swap begins with the deletion of the installed folder.
VerifyOk ==
    /\ pc = "verify" /\ Verified
    /\ IF exists["final"] THEN Delete("final", "rename")
                          ELSE pc' = "rename" /\ UNCHANGED delVars
    /\ UNCHANGED <<calls, busVars, loopVars, retVars, cardVars, installed>>

\* A file is missing or has the wrong size, or the card cannot be read.
VerifyFails ==
    /\ pc = "verify"
    /\ cause' = "verify"
    /\ Delete("tmp", "fail")
    /\ UNCHANGED <<calls, busVars, loopVars, ret, reported, cardVars,
                   installed>>

RenameDir ==
    /\ pc = "rename" /\ ~exists["final"]
    /\ dir' = [d \in Dirs |-> IF d = "final" THEN dir["tmp"] ELSE Empty]
    /\ exists' = [d \in Dirs |-> d = "final"]
    /\ pc' = "marker"
    /\ UNCHANGED <<calls, busVars, loopVars, retVars, delVars, installed>>

\* It fails on a card error, and when the old folder could not be deleted;
\* then the new one is deleted too.
RenameDirFails ==
    /\ pc = "rename"
    /\ cause' = "sd"
    /\ Delete("tmp", "fail")
    /\ UNCHANGED <<calls, busVars, loopVars, ret, reported, cardVars,
                   installed>>

\* The marker is written if it can be opened; the call succeeds either way.
WriteMarker ==
    /\ pc = "marker"
    /\ \/ dir' = [dir EXCEPT !["final"][".ok"] = "new"]
       \/ UNCHANGED dir
    /\ Return("true", "none")
    /\ UNCHANGED <<calls, busVars, loopVars, delVars, exists, installed>>

-----------------------------------------------------------------------------
\* Power loss or reset: only the card survives.
Crash ==
    /\ pc # "idle"
    /\ pc' = "idle" /\ ret' = "none" /\ cause' = "crash" /\ reported' = "none"
    /\ s_card' = FALSE /\ s_spi_bus_initialized' = FALSE /\ spi' = FALSE
    /\ UNCHANGED <<calls, host_khz, loopVars, delVars, cardVars, installed>>

Step ==
    \/ CallFolder \/ BusInit \/ BusInitFails \/ MountOk \/ MountRetry
    \/ MountFails \/ Unmount \/ ListFails \/ Mkdir \/ MkdirFails \/ LowerClock
    \/ GiveUp \/ LoopDone \/ Cleanup \/ VerifyOk \/ VerifyFails \/ RenameDir
    \/ RenameDirFails \/ WriteMarker \/ RemoveDir
    \/ \E s \in SUBSET Files : FetchList(s)
    \/ \E n \in Files : NextFile(n)
    \/ \E c \in {"new", "short"} : FetchOk(c)
    \/ \E p \in {"none", "new"} : FetchFails(p) \/ FetchSdFails(p)
    \/ \E n \in Names : DeleteEntry(n)

Next == Step \/ Crash

Spec == Init /\ [][Next]_vars

\* The task runs; every call it makes returns (driver and client timeouts).
FairSpec == Spec /\ WF_vars(Step)
-----------------------------------------------------------------------------
(* Properties *)

\* Every variable keeps its range; in particular sd_next_lower_freq never
\* hands a frequency that is not on the ladder to set_sd_freq.
TypeOK ==
    /\ pc \in {"idle", "mount_init", "mount", "unmount", "list", "delete",
               "mkdir", "loop", "fetch", "lower", "cleanup", "verify",
               "rename", "marker"}
    /\ calls \in 0..MaxCalls
    /\ served \subseteq Files /\ todo \subseteq Files /\ name \in Files
    /\ {s_card, s_spi_bus_initialized, spi} \subseteq BOOLEAN
    /\ host_khz \in MountRungs \cup {SD_SPI_FREQ_KHZ}
    /\ s_sd_freq_khz \in Ladder \cup MountRungs \cup {SD_SPI_FREQ_KHZ}
    /\ all_ok \in BOOLEAN /\ sd_failed \in BOOLEAN /\ installed \in BOOLEAN
    /\ ret \in {"none", "true", "false"}
    /\ cause \in {"none", "net", "sd", "verify", "mount", "crash"}
    /\ reported \in {"none", "OK", "SD_CARD", "DOWNLOAD_FAILED"}
    /\ del_dir \in Dirs /\ del_todo \subseteq Names
    /\ del_next \in {"idle", "mkdir", "rename", "fail"}
    /\ exists \in [Dirs -> BOOLEAN]
    /\ dir \in [Dirs -> [Names -> Contents]]

\* When download_simi_folder returns true, the folder in place is complete and
\* entirely of this call.
SuccessMeansInstalled ==
    ret = "true" => Complete("final") /\ dir["final"][".part"] = "none"

\* The installed folder is deleted, and .tmp renamed, only when .tmp holds a
\* complete verified download, whatever an earlier call left on the card.
SwapOnlyVerified ==
    (pc = "rename" \/ (pc = "delete" /\ del_dir = "final")) => Complete("tmp")

\* Whatever crashed, failed or was left behind, the installed folder never
\* holds a .part or a leftover of an earlier call, under any name, and holds a
\* truncated file only under a name the manifest does not list.  Such a file,
\* which the server lists and the manifest does not, is installed as it came:
\* verify_download_integrity (simibox_download.cpp:587-647) never looks at it.
FinalAsVerified ==
    /\ \A n \in Names : dir["final"][n] # "stale"
    /\ \A n \in Names : dir["final"][n] = "short" => n \notin Listed \cup {Manifest}
    /\ dir["final"][".part"] = "none"

\* A call that fails in the mount, in the network or in the verification, and
\* every call until it has verified its download, leaves a usable folder usable.
KeepOld ==
    (/\ installed
     /\ \/ pc \in {"mount_init", "mount", "list", "mkdir", "loop", "fetch",
                   "lower", "cleanup", "verify"}
        \/ pc \in {"unmount", "idle"} /\ cause \in {"mount", "net", "verify"})
      => Usable

\* The flag mount_sd and unmount_sd go by is the state of the bus: it is never
\* freed twice or left behind, and files are only touched on a mounted card.
BusReleased ==
    /\ s_spi_bus_initialized = spi
    /\ s_card => spi
    /\ pc = "idle" => ~spi /\ ~s_card
    /\ pc \notin {"idle", "mount_init", "mount", "unmount"} => s_card

\* The runtime fallback never drives the card faster than the clock mount_sd
\* had to come down to.
ClockNeverRises ==
    pc \notin {"idle", "mount_init", "mount", "unmount"} =>
        s_sd_freq_khz <= host_khz

\* With FairSpec: a call returns, however often the card fails: both clock
\* fallbacks end at the bottom of their ladders.
CallReturns == pc = "mount_init" ~> pc = "idle"

\* handle_download_with_retry keeps the contract BootProtocol builds on: the
\* installed folder changes only in the swap, and OK comes with a usable one.
FC == INSTANCE FolderContract WITH
        phase <-
          IF pc = "idle" THEN "idle"
          ELSE IF pc = "rename" \/ (pc = "delete" /\ del_dir = "final")
            THEN "swapping"
          ELSE IF pc = "marker" \/ (pc = "unmount" /\ ret = "true")
            THEN "placed"
          ELSE IF pc = "unmount" \/ (pc = "delete" /\ del_next = "fail")
            THEN "failing"
          ELSE "working",
        folder <- IF Usable THEN "usable" ELSE "broken",
        outcome <- reported
Promise == FC!Spec

\* simibox_download.h:13: the new folder is put in place "atomically".
\* Violated: the installed folder is deleted first, entry by entry.
NeverLoseInstalled == pc = "idle" /\ installed => Usable

\* simibox_download.h:15: out_sd_failed is "true when the SD card itself
\* failed".  Violated: a failed mkdir or rename of the folder reports false.
SdFailureReported == ret = "false" /\ cause = "sd" => sd_failed
=============================================================================
