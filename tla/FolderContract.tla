--------------------------- MODULE FolderContract ---------------------------
(***************************************************************************)
(* What handle_download_with_retry promises its caller about one folder:   *)
(* it works beside the installed folder, may damage it only in the swap    *)
(* that follows a complete download, and reports OK only with a usable     *)
(* folder in place.  A reset ends a call at any point and leaves the       *)
(* folder as it is.  FolderInstall implements this contract; BootProtocol  *)
(* is built on it.                                                         *)
(***************************************************************************)

VARIABLES phase,    \* of the call in progress
          folder,   \* "usable", or "broken": missing or incomplete
          outcome   \* of the last call, "none" if it did not end

vars == <<phase, folder, outcome>>

Phases   == {"idle", "working", "swapping", "placed", "failing"}
States   == {"usable", "broken"}
Failures == {"SD_CARD", "DOWNLOAD_FAILED"}

Init == phase = "idle" /\ folder \in States /\ outcome = "none"

Begin ==
    /\ phase = "idle"
    /\ phase' = "working" /\ outcome' = "none"
    /\ UNCHANGED folder

\* The new folder is complete beside the old one; the old one is deleted.
StartSwap ==
    /\ phase = "working"
    /\ phase' = "swapping"
    /\ UNCHANGED <<folder, outcome>>

Degrade ==
    /\ phase = "swapping"
    /\ folder' = "broken"
    /\ UNCHANGED <<phase, outcome>>

Place ==
    /\ phase = "swapping"
    /\ phase' = "placed"
    /\ folder' = "usable"
    /\ UNCHANGED outcome

GiveUp ==
    /\ phase \in {"working", "swapping"}
    /\ phase' = "failing"
    /\ UNCHANGED <<folder, outcome>>

Succeed ==
    /\ phase = "placed"
    /\ phase' = "idle" /\ outcome' = "OK"
    /\ UNCHANGED folder

Fail(error) ==
    /\ phase = "failing"
    /\ phase' = "idle" /\ outcome' = error
    /\ UNCHANGED folder

Crash ==
    /\ phase # "idle"
    /\ phase' = "idle" /\ outcome' = "none"
    /\ UNCHANGED folder

\* The steps of a call in progress.
Work == \/ StartSwap \/ Degrade \/ Place \/ GiveUp \/ Succeed
        \/ \E error \in Failures : Fail(error)

Next == Begin \/ Work \/ Crash

Spec == Init /\ [][Next]_vars
=============================================================================
