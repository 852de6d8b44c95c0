------------------------- MODULE FolderInstallProofs -------------------------
(***************************************************************************)
(* Proofs that the safety properties of FolderInstall hold, and that it    *)
(* implements FolderContract, for every set of files, every manifest, both *)
(* clock ladders and every number of calls.                                *)
(*                                                                         *)
(* The invariant follows the two directories on the card through a call:   *)
(* only a directory that exists has contents (Card), from mkdir to the     *)
(* swap .tmp holds nothing but files of this call (Temporary), and the     *)
(* installed folder is not touched before the swap (Old).  So what passes  *)
(* the size check is complete, although the check would take a leftover of *)
(* the right size.                                                         *)
(***************************************************************************)
EXTENDS FolderInstall, WellFoundedInduction, TLAPS

\* The swap: from the deletion of the installed folder to the rename.
Swapping == pc = "rename" \/ (pc = "delete" /\ del_dir = "final")

\* A directory that does not exist holds nothing, so mkdir gives an empty one.
\* The deletion of the installed folder leads to the rename and no other does.
Card ==
    /\ \A d \in Dirs : ~exists[d] => dir[d] = Empty
    /\ pc = "delete" => (del_dir = "final") = (del_next = "rename")
    /\ pc = "delete" => del_next \in {"mkdir", "rename", "fail"}

\* From mkdir to the rename every file in .tmp is of this call; between two
\* files, and after a loop that went well, there is no .part among them.
Temporary ==
    /\ (pc \in {"loop", "fetch", "lower", "cleanup", "verify"} \/ Swapping) =>
          exists["tmp"] /\ \A n \in Names : dir["tmp"][n] \in {"none", "new", "short"}
    /\ (pc \in {"loop", "verify"} \/ (pc = "cleanup" /\ all_ok) \/ Swapping) =>
          dir["tmp"][".part"] = "none"

\* The folder that was usable when the call began still is: before the swap,
\* and on the way out of a failure before it.
Old ==
    (/\ installed
     /\ \/ pc \in {"mount_init", "mount", "list", "mkdir", "loop", "fetch",
                   "lower", "cleanup", "verify"}
        \/ /\ pc = "delete" /\ del_dir = "tmp"
           /\ del_next = "mkdir" \/ cause \in {"mount", "net", "verify"}
        \/ pc \in {"unmount", "idle"} /\ cause \in {"mount", "net", "verify"})
      => Usable

\* The call returns true only from behind the rename.
Placed ==
    /\ ret = "true" => pc \in {"unmount", "idle"}
    /\ pc = "marker" => Complete("final")

\* The bus and the card at the two control points of mount_sd.
Mounting ==
    /\ pc = "mount_init" => ~spi /\ ~s_card
    /\ pc = "mount" => spi /\ ~s_card

IInv == /\ TypeOK /\ Card /\ Temporary /\ Old /\ Placed /\ Mounting
        /\ SuccessMeansInstalled /\ SwapOnlyVerified /\ FinalAsVerified
        /\ BusReleased /\ ClockNeverRises

-----------------------------------------------------------------------------
(* Lemmas about the operators *)

USE ManifestAssumption, ListedAssumption, LadderAssumption, RungsAssumption,
    NamesAssumption, UnlinkAssumption, CallsAssumption
    DEF busVars, loopVars, retVars, delVars, cardVars, Names, Contents, Dirs,
        TypeOK, Swapping

\* A bounded set of naturals has a highest member: the least of its bounds.
LEMMA HighestProperties ==
  ASSUME NEW S \in SUBSET Nat, S # {}, NEW b \in Nat, \A g \in S : g <= b
  PROVE  Highest(S) \in S /\ \A g \in S : g <= Highest(S)
<1> DEFINE T == {k \in Nat : \A g \in S : g <= k}
           R == OpToRel(<, Nat)
<1>1. T \subseteq Nat /\ T # {}
  OBVIOUS
<1>2. IsWellFoundedOn(R, Nat)
  BY NatLessThanWellFounded
<1> HIDE DEF R, T
<1>3. PICK x \in T : \A y \in T : ~(<<y, x>> \in R)
  BY <1>1, <1>2, WFMin
<1>4. \A y \in T : ~(y < x)
  BY <1>1, <1>3 DEF R, OpToRel
<1>5. x \in S
  <2> SUFFICES ASSUME x \notin S PROVE FALSE
    OBVIOUS
  <2>1. x \in Nat /\ \A g \in S : g <= x /\ g # x
    BY <1>3 DEF T
  <2>2. PICK g \in S : TRUE
    OBVIOUS
  <2>3. x - 1 \in Nat /\ \A h \in S : h <= x - 1
    BY <2>1, <2>2
  <2>4. x - 1 \in T
    BY <2>3 DEF T
  <2> QED BY <1>4, <2>1, <2>4
<1>6. \A g \in S : g <= x
  BY <1>3 DEF T
<1> QED BY <1>5, <1>6 DEF Highest

\* sd_next_lower_freq gives a rung strictly below the clock in use.
LEMMA ClockGoesDown ==
  ASSUME TypeOK, LowerClock
  PROVE  /\ s_sd_freq_khz' \in Ladder /\ s_sd_freq_khz' \in Nat
         /\ s_sd_freq_khz' < s_sd_freq_khz
<1>1. s_sd_freq_khz \in Nat /\ Lower(s_sd_freq_khz) \in SUBSET Nat
  BY DEF Lower
<1>2. \A g \in Lower(s_sd_freq_khz) : g <= s_sd_freq_khz
  BY <1>1 DEF Lower
<1>3. Highest(Lower(s_sd_freq_khz)) \in Lower(s_sd_freq_khz)
  BY <1>1, <1>2, HighestProperties DEF LowerClock
<1> QED BY <1>1, <1>3 DEF LowerClock, Lower

-----------------------------------------------------------------------------
(* Every action preserves the invariant *)

\* A call finds the card as an earlier one left it; what it relabels stays usable.
LEMMA CallFolderStep ==
  ASSUME IInv, CallFolder
  PROVE  IInv'
<1>1. TypeOK'
  <2>1. calls' \in 0..MaxCalls
    BY DEF CallFolder, IInv
  <2>2. dir' \in [Dirs -> [Names -> Contents]]
    BY DEF CallFolder, IInv
  <2>3. all_ok' \in BOOLEAN /\ sd_failed' \in BOOLEAN /\ installed' \in BOOLEAN
    BY DEF CallFolder, Usable
  <2> QED BY <2>1, <2>2, <2>3 DEF CallFolder, IInv
<1>2. BusReleased' /\ Mounting' /\ ClockNeverRises'
  BY DEF CallFolder, IInv, BusReleased, Mounting, ClockNeverRises
<1>3. Card' /\ Temporary' /\ Placed'
  <2>1. \A d \in Dirs : ~exists'[d] => dir'[d] = Empty
    BY DEF CallFolder, IInv, Card, Empty
  <2> QED BY <2>1 DEF CallFolder, Card, Temporary, Placed
<1>4. SuccessMeansInstalled' /\ SwapOnlyVerified' /\ FinalAsVerified'
  BY DEF CallFolder, IInv, Card, Temporary, Placed, SuccessMeansInstalled,
         SwapOnlyVerified, FinalAsVerified, Complete
<1>5. Old'
  BY DEF CallFolder, IInv, Card, Old, Usable
<1> QED BY <1>1, <1>2, <1>3, <1>4, <1>5 DEF IInv

\* The bus comes up before the card.
LEMMA BusInitStep ==
  ASSUME IInv, BusInit
  PROVE  IInv'
<1>1. TypeOK'
  BY DEF BusInit, IInv
<1>2. BusReleased' /\ Mounting' /\ ClockNeverRises'
  BY DEF BusInit, IInv, BusReleased, Mounting, ClockNeverRises
<1>3. Card' /\ Temporary' /\ Placed'
  BY DEF BusInit, IInv, Card, Temporary, Placed, SwapOnlyVerified, Complete
<1>4. SuccessMeansInstalled' /\ SwapOnlyVerified' /\ FinalAsVerified'
  BY DEF BusInit, IInv, Card, Temporary, Placed, SuccessMeansInstalled,
         SwapOnlyVerified, FinalAsVerified, Complete
<1>5. Old'
  BY DEF BusInit, IInv, Card, Old, Usable
<1> QED BY <1>1, <1>2, <1>3, <1>4, <1>5 DEF IInv

\* Nothing is mounted and nothing on the card has changed.
LEMMA BusInitFailsStep ==
  ASSUME IInv, BusInitFails
  PROVE  IInv'
<1>1. TypeOK'
  BY DEF BusInitFails, Return, IInv
<1>2. BusReleased' /\ Mounting' /\ ClockNeverRises'
  BY DEF BusInitFails, Return, IInv, BusReleased, Mounting, ClockNeverRises
<1>3. Card' /\ Temporary' /\ Placed'
  BY DEF BusInitFails, Return, IInv, Card, Temporary, Placed,
         SwapOnlyVerified, Complete
<1>4. SuccessMeansInstalled' /\ SwapOnlyVerified' /\ FinalAsVerified'
  BY DEF BusInitFails, Return, IInv, Card, Temporary, Placed,
         SuccessMeansInstalled, SwapOnlyVerified, FinalAsVerified, Complete
<1>5. Old'
  BY DEF BusInitFails, Return, IInv, Card, Old, Usable
<1> QED BY <1>1, <1>2, <1>3, <1>4, <1>5 DEF IInv

\* The download starts at the clock the card mounted at.
LEMMA MountOkStep ==
  ASSUME IInv, MountOk
  PROVE  IInv'
<1>1. TypeOK'
  BY DEF MountOk, IInv
<1>2. BusReleased' /\ Mounting' /\ ClockNeverRises'
  BY DEF MountOk, IInv, BusReleased, Mounting, ClockNeverRises
<1>3. Card' /\ Temporary' /\ Placed'
  BY DEF MountOk, IInv, Card, Temporary, Placed, SwapOnlyVerified, Complete
<1>4. SuccessMeansInstalled' /\ SwapOnlyVerified' /\ FinalAsVerified'
  BY DEF MountOk, IInv, Card, Temporary, Placed, SuccessMeansInstalled,
         SwapOnlyVerified, FinalAsVerified, Complete
<1>5. Old'
  BY DEF MountOk, IInv, Card, Old, Usable
<1> QED BY <1>1, <1>2, <1>3, <1>4, <1>5 DEF IInv

\* mount_sd steps down to a lower clock.
LEMMA MountRetryStep ==
  ASSUME IInv, MountRetry
  PROVE  IInv'
<1>1. TypeOK'
  <2>1. LowerRungs \in SUBSET Nat /\ host_khz \in Nat
    BY DEF IInv, LowerRungs
  <2>2. \A g \in LowerRungs : g <= host_khz
    BY <2>1 DEF LowerRungs
  <2>3. Highest(LowerRungs) \in MountRungs
    BY <2>1, <2>2, HighestProperties DEF MountRetry, LowerRungs
  <2> QED BY <2>3 DEF MountRetry, IInv
<1>2. BusReleased' /\ Mounting' /\ ClockNeverRises'
  BY DEF MountRetry, LowerRungs, IInv, BusReleased, Mounting, ClockNeverRises
<1>3. Card' /\ Temporary' /\ Placed'
  BY DEF MountRetry, LowerRungs, IInv, Card, Temporary, Placed,
         SwapOnlyVerified, Complete
<1>4. SuccessMeansInstalled' /\ SwapOnlyVerified' /\ FinalAsVerified'
  BY DEF MountRetry, LowerRungs, IInv, Card, Temporary, Placed,
         SuccessMeansInstalled, SwapOnlyVerified, FinalAsVerified, Complete
<1>5. Old'
  BY DEF MountRetry, LowerRungs, IInv, Card, Old, Usable
<1> QED BY <1>1, <1>2, <1>3, <1>4, <1>5 DEF IInv

\* The bus and its flag are freed together.
LEMMA MountFailsStep ==
  ASSUME IInv, MountFails
  PROVE  IInv'
<1>1. TypeOK'
  BY DEF MountFails, Return, IInv
<1>2. BusReleased' /\ Mounting' /\ ClockNeverRises'
  BY DEF MountFails, Return, IInv, BusReleased, Mounting, ClockNeverRises
<1>3. Card' /\ Temporary' /\ Placed'
  BY DEF MountFails, Return, IInv, Card, Temporary, Placed, SwapOnlyVerified,
         Complete
<1>4. SuccessMeansInstalled' /\ SwapOnlyVerified' /\ FinalAsVerified'
  BY DEF MountFails, Return, IInv, Card, Temporary, Placed,
         SuccessMeansInstalled, SwapOnlyVerified, FinalAsVerified, Complete
<1>5. Old'
  BY DEF MountFails, Return, IInv, Card, Old, Usable
<1> QED BY <1>1, <1>2, <1>3, <1>4, <1>5 DEF IInv

\* The bus is freed once: the flag says whether it is there.
LEMMA UnmountStep ==
  ASSUME IInv, Unmount
  PROVE  IInv'
<1>1. TypeOK'
  <2>1. {s_card', s_spi_bus_initialized', spi'} \subseteq BOOLEAN
    BY DEF Unmount
  <2>2. reported' \in {"none", "OK", "SD_CARD", "DOWNLOAD_FAILED"}
    BY DEF Unmount
  <2> QED BY <2>1, <2>2 DEF Unmount, IInv
<1>2. BusReleased' /\ Mounting' /\ ClockNeverRises'
  BY DEF Unmount, IInv, BusReleased, Mounting, ClockNeverRises
<1>3. Card' /\ Temporary' /\ Placed'
  BY DEF Unmount, IInv, Card, Temporary, Placed, SwapOnlyVerified, Complete
<1>4. SuccessMeansInstalled' /\ SwapOnlyVerified' /\ FinalAsVerified'
  BY DEF Unmount, IInv, Card, Temporary, Placed, SuccessMeansInstalled,
         SwapOnlyVerified, FinalAsVerified, Complete
<1>5. Old'
  BY DEF Unmount, IInv, Card, Old, Usable
<1> QED BY <1>1, <1>2, <1>3, <1>4, <1>5 DEF IInv

\* No list, no change to the card.
LEMMA ListFailsStep ==
  ASSUME IInv, ListFails
  PROVE  IInv'
<1>1. TypeOK'
  BY DEF ListFails, Return, IInv
<1>2. BusReleased' /\ Mounting' /\ ClockNeverRises'
  BY DEF ListFails, Return, IInv, BusReleased, Mounting, ClockNeverRises
<1>3. Card' /\ Temporary' /\ Placed'
  BY DEF ListFails, Return, IInv, Card, Temporary, Placed, SwapOnlyVerified,
         Complete
<1>4. SuccessMeansInstalled' /\ SwapOnlyVerified' /\ FinalAsVerified'
  BY DEF ListFails, Return, IInv, Card, Temporary, Placed,
         SuccessMeansInstalled, SwapOnlyVerified, FinalAsVerified, Complete
<1>5. Old'
  BY DEF ListFails, Return, IInv, Card, Old, Usable
<1> QED BY <1>1, <1>2, <1>3, <1>4, <1>5 DEF IInv

\* A leftover .tmp is deleted first.
LEMMA FetchListStep ==
  ASSUME IInv, NEW s \in SUBSET Files, FetchList(s)
  PROVE  IInv'
<1>1. TypeOK'
  BY DEF FetchList, Return, Delete, IInv
<1>2. BusReleased' /\ Mounting' /\ ClockNeverRises'
  BY DEF FetchList, Return, Delete, IInv, BusReleased, Mounting,
         ClockNeverRises
<1>3. Card' /\ Temporary' /\ Placed'
  BY DEF FetchList, Return, Delete, IInv, Card, Temporary, Placed,
         SwapOnlyVerified, Complete
<1>4. SuccessMeansInstalled' /\ SwapOnlyVerified' /\ FinalAsVerified'
  BY DEF FetchList, Return, Delete, IInv, Card, Temporary, Placed,
         SuccessMeansInstalled, SwapOnlyVerified, FinalAsVerified, Complete
<1>5. Old'
  BY DEF FetchList, Return, Delete, IInv, Card, Old, Usable
<1> QED BY <1>1, <1>2, <1>3, <1>4, <1>5 DEF IInv

\* The new .tmp is empty.
LEMMA MkdirStep ==
  ASSUME IInv, Mkdir
  PROVE  IInv'
<1>1. TypeOK'
  BY DEF Mkdir, Empty, IInv
<1>2. BusReleased' /\ Mounting' /\ ClockNeverRises'
  BY DEF Mkdir, Empty, IInv, BusReleased, Mounting, ClockNeverRises
<1>3. Card' /\ Temporary' /\ Placed'
  BY DEF Mkdir, Empty, IInv, Card, Temporary, Placed, SwapOnlyVerified,
         Complete
<1>4. SuccessMeansInstalled' /\ SwapOnlyVerified' /\ FinalAsVerified'
  BY DEF Mkdir, Empty, IInv, Card, Temporary, Placed, SuccessMeansInstalled,
         SwapOnlyVerified, FinalAsVerified, Complete
<1>5. Old'
  BY DEF Mkdir, Empty, IInv, Card, Old, Usable
<1> QED BY <1>1, <1>2, <1>3, <1>4, <1>5 DEF IInv

\* The call fails before it has downloaded anything.
LEMMA MkdirFailsStep ==
  ASSUME IInv, MkdirFails
  PROVE  IInv'
<1>1. TypeOK'
  BY DEF MkdirFails, Return, IInv
<1>2. BusReleased' /\ Mounting' /\ ClockNeverRises'
  BY DEF MkdirFails, Return, IInv, BusReleased, Mounting, ClockNeverRises
<1>3. Card' /\ Temporary' /\ Placed'
  BY DEF MkdirFails, Return, IInv, Card, Temporary, Placed, SwapOnlyVerified,
         Complete
<1>4. SuccessMeansInstalled' /\ SwapOnlyVerified' /\ FinalAsVerified'
  BY DEF MkdirFails, Return, IInv, Card, Temporary, Placed,
         SuccessMeansInstalled, SwapOnlyVerified, FinalAsVerified, Complete
<1>5. Old'
  BY DEF MkdirFails, Return, IInv, Card, Old, Usable
<1> QED BY <1>1, <1>2, <1>3, <1>4, <1>5 DEF IInv

\* Only the file in progress changes.
LEMMA NextFileStep ==
  ASSUME IInv, NEW n \in Files, NextFile(n)
  PROVE  IInv'
<1>1. TypeOK'
  BY DEF NextFile, IInv
<1>2. BusReleased' /\ Mounting' /\ ClockNeverRises'
  BY DEF NextFile, IInv, BusReleased, Mounting, ClockNeverRises
<1>3. Card' /\ Temporary' /\ Placed'
  BY DEF NextFile, IInv, Card, Temporary, Placed, SwapOnlyVerified, Complete
<1>4. SuccessMeansInstalled' /\ SwapOnlyVerified' /\ FinalAsVerified'
  BY DEF NextFile, IInv, Card, Temporary, Placed, SuccessMeansInstalled,
         SwapOnlyVerified, FinalAsVerified, Complete
<1>5. Old'
  BY DEF NextFile, IInv, Card, Old, Usable
<1> QED BY <1>1, <1>2, <1>3, <1>4, <1>5 DEF IInv

\* A complete or short file of this call joins .tmp, and its .part is gone.
LEMMA FetchOkStep ==
  ASSUME IInv, NEW c \in {"new", "short"}, FetchOk(c)
  PROVE  IInv'
<1>1. TypeOK'
  BY DEF FetchOk, IInv
<1>2. BusReleased' /\ Mounting' /\ ClockNeverRises'
  BY DEF FetchOk, IInv, BusReleased, Mounting, ClockNeverRises
<1>3. Card' /\ Temporary' /\ Placed'
  BY DEF FetchOk, IInv, Card, Temporary, Placed, SwapOnlyVerified, Complete
<1>4. SuccessMeansInstalled' /\ SwapOnlyVerified' /\ FinalAsVerified'
  BY DEF FetchOk, IInv, Card, Temporary, Placed, SuccessMeansInstalled,
         SwapOnlyVerified, FinalAsVerified, Complete
<1>5. Old'
  BY DEF FetchOk, IInv, Card, Old, Usable
<1> QED BY <1>1, <1>2, <1>3, <1>4, <1>5 DEF IInv

\* A network failure leaves at most a .part in .tmp.
LEMMA FetchFailsStep ==
  ASSUME IInv, NEW p \in {"none", "new"}, FetchFails(p)
  PROVE  IInv'
<1>1. TypeOK'
  <2>1. dir' \in [Dirs -> [Names -> Contents]]
    BY DEF FetchFails, IInv
  <2> QED BY <2>1 DEF FetchFails, IInv
<1>2. BusReleased' /\ Mounting' /\ ClockNeverRises'
  BY DEF FetchFails, IInv, BusReleased, Mounting, ClockNeverRises
<1>3. Card' /\ Temporary' /\ Placed'
  BY DEF FetchFails, IInv, Card, Temporary, Placed, SwapOnlyVerified, Complete
<1>4. SuccessMeansInstalled' /\ SwapOnlyVerified' /\ FinalAsVerified'
  BY DEF FetchFails, IInv, Card, Temporary, Placed, SuccessMeansInstalled,
         SwapOnlyVerified, FinalAsVerified, Complete
<1>5. Old'
  BY DEF FetchFails, IInv, Card, Old, Usable
<1> QED BY <1>1, <1>2, <1>3, <1>4, <1>5 DEF IInv

\* A card failure leaves at most a .part in .tmp.
LEMMA FetchSdFailsStep ==
  ASSUME IInv, NEW p \in {"none", "new"}, FetchSdFails(p)
  PROVE  IInv'
<1>1. TypeOK'
  BY DEF FetchSdFails, IInv
<1>2. BusReleased' /\ Mounting' /\ ClockNeverRises'
  BY DEF FetchSdFails, IInv, BusReleased, Mounting, ClockNeverRises
<1>3. Card' /\ Temporary' /\ Placed'
  BY DEF FetchSdFails, IInv, Card, Temporary, Placed, SwapOnlyVerified,
         Complete
<1>4. SuccessMeansInstalled' /\ SwapOnlyVerified' /\ FinalAsVerified'
  BY DEF FetchSdFails, IInv, Card, Temporary, Placed, SuccessMeansInstalled,
         SwapOnlyVerified, FinalAsVerified, Complete
<1>5. Old'
  BY DEF FetchSdFails, IInv, Card, Old, Usable
<1> QED BY <1>1, <1>2, <1>3, <1>4, <1>5 DEF IInv

\* The clock goes down to a rung of the ladder.
LEMMA LowerClockStep ==
  ASSUME IInv, LowerClock
  PROVE  IInv'
<1>1. TypeOK'
  <2>1. s_sd_freq_khz' \in Ladder
    BY ClockGoesDown DEF IInv
  <2>2. dir' \in [Dirs -> [Names -> Contents]]
    BY DEF LowerClock, IInv
  <2> QED BY <2>1, <2>2 DEF LowerClock, IInv
<1>2. BusReleased' /\ Mounting' /\ ClockNeverRises'
  <2>1. s_sd_freq_khz' \in Nat /\ s_sd_freq_khz' < s_sd_freq_khz
    BY ClockGoesDown DEF IInv
  <2>2. s_sd_freq_khz \in Nat /\ host_khz \in Nat
    BY DEF IInv
  <2> QED BY <2>1, <2>2 DEF LowerClock, IInv, BusReleased, Mounting,
                            ClockNeverRises
<1>3. Card' /\ Temporary' /\ Placed'
  BY DEF LowerClock, Lower, IInv, Card, Temporary, Placed, SwapOnlyVerified,
         Complete
<1>4. SuccessMeansInstalled' /\ SwapOnlyVerified' /\ FinalAsVerified'
  BY DEF LowerClock, Lower, IInv, Card, Temporary, Placed,
         SuccessMeansInstalled, SwapOnlyVerified, FinalAsVerified, Complete
<1>5. Old'
  BY DEF LowerClock, Lower, IInv, Card, Old, Usable
<1> QED BY <1>1, <1>2, <1>3, <1>4, <1>5 DEF IInv

\* The failure of the card is noted.
LEMMA GiveUpStep ==
  ASSUME IInv, GiveUp
  PROVE  IInv'
<1>1. TypeOK'
  BY DEF GiveUp, IInv
<1>2. BusReleased' /\ Mounting' /\ ClockNeverRises'
  BY DEF GiveUp, IInv, BusReleased, Mounting, ClockNeverRises
<1>3. Card' /\ Temporary' /\ Placed'
  BY DEF GiveUp, IInv, Card, Temporary, Placed, SwapOnlyVerified, Complete
<1>4. SuccessMeansInstalled' /\ SwapOnlyVerified' /\ FinalAsVerified'
  BY DEF GiveUp, IInv, Card, Temporary, Placed, SuccessMeansInstalled,
         SwapOnlyVerified, FinalAsVerified, Complete
<1>5. Old'
  BY DEF GiveUp, IInv, Card, Old, Usable
<1> QED BY <1>1, <1>2, <1>3, <1>4, <1>5 DEF IInv

\* All files are there.
LEMMA LoopDoneStep ==
  ASSUME IInv, LoopDone
  PROVE  IInv'
<1>1. TypeOK'
  BY DEF LoopDone, IInv
<1>2. BusReleased' /\ Mounting' /\ ClockNeverRises'
  BY DEF LoopDone, IInv, BusReleased, Mounting, ClockNeverRises
<1>3. Card' /\ Temporary' /\ Placed'
  BY DEF LoopDone, IInv, Card, Temporary, Placed, SwapOnlyVerified, Complete
<1>4. SuccessMeansInstalled' /\ SwapOnlyVerified' /\ FinalAsVerified'
  BY DEF LoopDone, IInv, Card, Temporary, Placed, SuccessMeansInstalled,
         SwapOnlyVerified, FinalAsVerified, Complete
<1>5. Old'
  BY DEF LoopDone, IInv, Card, Old, Usable
<1> QED BY <1>1, <1>2, <1>3, <1>4, <1>5 DEF IInv

\* Go on to the verification, or leave.
LEMMA CleanupStep ==
  ASSUME IInv, Cleanup
  PROVE  IInv'
<1>1. TypeOK'
  BY DEF Cleanup, Return, Delete, IInv
<1>2. BusReleased' /\ Mounting' /\ ClockNeverRises'
  BY DEF Cleanup, Return, Delete, IInv, BusReleased, Mounting, ClockNeverRises
<1>3. Card' /\ Temporary' /\ Placed'
  BY DEF Cleanup, Return, Delete, IInv, Card, Temporary, Placed,
         SwapOnlyVerified, Complete
<1>4. SuccessMeansInstalled' /\ SwapOnlyVerified' /\ FinalAsVerified'
  BY DEF Cleanup, Return, Delete, IInv, Card, Temporary, Placed,
         SuccessMeansInstalled, SwapOnlyVerified, FinalAsVerified, Complete
<1>5. Old'
  BY DEF Cleanup, Return, Delete, IInv, Card, Old, Usable
<1> QED BY <1>1, <1>2, <1>3, <1>4, <1>5 DEF IInv

\* What passes the size check is complete, since nothing in .tmp is a leftover.
LEMMA VerifyOkStep ==
  ASSUME IInv, VerifyOk
  PROVE  IInv'
<1>1. TypeOK'
  BY DEF VerifyOk, Verified, Delete, IInv
<1>2. BusReleased' /\ Mounting' /\ ClockNeverRises'
  BY DEF VerifyOk, Verified, Delete, IInv, BusReleased, Mounting,
         ClockNeverRises
<1>3. Card' /\ Temporary' /\ Placed'
  BY DEF VerifyOk, Verified, Delete, IInv, Card, Temporary, Placed,
         SwapOnlyVerified, Complete
<1>4. SuccessMeansInstalled' /\ SwapOnlyVerified' /\ FinalAsVerified'
  BY DEF VerifyOk, Verified, Delete, IInv, Card, Temporary, Placed,
         SuccessMeansInstalled, SwapOnlyVerified, FinalAsVerified, Complete
<1>5. Old'
  BY DEF VerifyOk, Verified, Delete, IInv, Card, Old, Usable
<1> QED BY <1>1, <1>2, <1>3, <1>4, <1>5 DEF IInv

\* A folder that is not complete is deleted.
LEMMA VerifyFailsStep ==
  ASSUME IInv, VerifyFails
  PROVE  IInv'
<1>1. TypeOK'
  BY DEF VerifyFails, Delete, IInv
<1>2. BusReleased' /\ Mounting' /\ ClockNeverRises'
  BY DEF VerifyFails, Delete, IInv, BusReleased, Mounting, ClockNeverRises
<1>3. Card' /\ Temporary' /\ Placed'
  BY DEF VerifyFails, Delete, IInv, Card, Temporary, Placed, SwapOnlyVerified,
         Complete
<1>4. SuccessMeansInstalled' /\ SwapOnlyVerified' /\ FinalAsVerified'
  BY DEF VerifyFails, Delete, IInv, Card, Temporary, Placed,
         SuccessMeansInstalled, SwapOnlyVerified, FinalAsVerified, Complete
<1>5. Old'
  BY DEF VerifyFails, Delete, IInv, Card, Old, Usable
<1> QED BY <1>1, <1>2, <1>3, <1>4, <1>5 DEF IInv

\* The complete .tmp becomes the installed folder.
LEMMA RenameDirStep ==
  ASSUME IInv, RenameDir
  PROVE  IInv'
<1>1. TypeOK'
  BY DEF RenameDir, Empty, IInv
<1>2. BusReleased' /\ Mounting' /\ ClockNeverRises'
  BY DEF RenameDir, Empty, IInv, BusReleased, Mounting, ClockNeverRises
<1>3. Card' /\ Temporary' /\ Placed'
  BY DEF RenameDir, Empty, IInv, Card, Temporary, Placed, SwapOnlyVerified,
         Complete
<1>4. SuccessMeansInstalled' /\ SwapOnlyVerified' /\ FinalAsVerified'
  BY DEF RenameDir, Empty, IInv, Card, Temporary, Placed,
         SuccessMeansInstalled, SwapOnlyVerified, FinalAsVerified, Complete
<1>5. Old'
  BY DEF RenameDir, Empty, IInv, Card, Old, Usable
<1> QED BY <1>1, <1>2, <1>3, <1>4, <1>5 DEF IInv

\* The new folder is deleted, the old one is already gone.
LEMMA RenameDirFailsStep ==
  ASSUME IInv, RenameDirFails
  PROVE  IInv'
<1>1. TypeOK'
  BY DEF RenameDirFails, Delete, IInv
<1>2. BusReleased' /\ Mounting' /\ ClockNeverRises'
  BY DEF RenameDirFails, Delete, IInv, BusReleased, Mounting, ClockNeverRises
<1>3. Card' /\ Temporary' /\ Placed'
  BY DEF RenameDirFails, Delete, IInv, Card, Temporary, Placed,
         SwapOnlyVerified, Complete
<1>4. SuccessMeansInstalled' /\ SwapOnlyVerified' /\ FinalAsVerified'
  BY DEF RenameDirFails, Delete, IInv, Card, Temporary, Placed,
         SuccessMeansInstalled, SwapOnlyVerified, FinalAsVerified, Complete
<1>5. Old'
  BY DEF RenameDirFails, Delete, IInv, Card, Old, Usable
<1> QED BY <1>1, <1>2, <1>3, <1>4, <1>5 DEF IInv

\* The marker is no file of the manifest.
LEMMA WriteMarkerStep ==
  ASSUME IInv, WriteMarker
  PROVE  IInv'
<1>1. TypeOK'
  BY DEF WriteMarker, Return, IInv
<1>2. BusReleased' /\ Mounting' /\ ClockNeverRises'
  BY DEF WriteMarker, Return, IInv, BusReleased, Mounting, ClockNeverRises
<1>3. Card' /\ Temporary' /\ Placed'
  BY DEF WriteMarker, Return, IInv, Card, Temporary, Placed, SwapOnlyVerified,
         Complete
<1>4. SuccessMeansInstalled' /\ SwapOnlyVerified' /\ FinalAsVerified'
  BY DEF WriteMarker, Return, IInv, Card, Temporary, Placed,
         SuccessMeansInstalled, SwapOnlyVerified, FinalAsVerified, Complete
<1>5. Old'
  BY DEF WriteMarker, Return, IInv, Card, Old, Usable
<1> QED BY <1>1, <1>2, <1>3, <1>4, <1>5 DEF IInv

\* One entry of the directory being deleted goes, or stays.
LEMMA DeleteEntryStep ==
  ASSUME IInv, NEW n \in Names, DeleteEntry(n)
  PROVE  IInv'
<1>1. TypeOK'
  BY DEF DeleteEntry, IInv
<1>2. BusReleased' /\ Mounting' /\ ClockNeverRises'
  BY DEF DeleteEntry, IInv, BusReleased, Mounting, ClockNeverRises
<1>3. Card' /\ Temporary' /\ Placed'
  <2>1. \A d \in Dirs : ~exists'[d] => dir'[d] = Empty
    <3> SUFFICES ASSUME NEW d \in Dirs, ~exists[d] PROVE dir'[d] = Empty
      BY DEF DeleteEntry
    <3>1. dir[d] = Empty
      BY DEF IInv, Card
    <3>2. \A m \in Names : dir'[d][m] = "none"
      BY <3>1 DEF DeleteEntry, IInv, Empty
    <3>3. dir'[d] \in [Names -> Contents]
      BY <1>1
    <3> QED BY <3>2, <3>3 DEF Empty
  <2> QED BY <2>1 DEF DeleteEntry, IInv, Card, Temporary, Placed
<1>4. SuccessMeansInstalled' /\ SwapOnlyVerified' /\ FinalAsVerified'
  BY DEF DeleteEntry, IInv, Card, Temporary, Placed, SuccessMeansInstalled,
         SwapOnlyVerified, FinalAsVerified, Complete
<1>5. Old'
  BY DEF DeleteEntry, IInv, Card, Old, Usable
<1> QED BY <1>1, <1>2, <1>3, <1>4, <1>5 DEF IInv

\* Only an empty directory is removed.
LEMMA RemoveDirStep ==
  ASSUME IInv, RemoveDir
  PROVE  IInv'
<1>1. TypeOK'
  <2>1. pc' \in {"mkdir", "rename", "unmount"}
    BY DEF RemoveDir, Return, IInv, Card
  <2>2. exists' \in [Dirs -> BOOLEAN]
    BY DEF RemoveDir, IInv
  <2> QED BY <2>1, <2>2 DEF RemoveDir, Return, IInv
<1>2. BusReleased' /\ Mounting' /\ ClockNeverRises'
  <2>1. pc' \in {"mkdir", "rename", "unmount"}
    BY DEF RemoveDir, Return, IInv, Card
  <2> QED BY <2>1 DEF RemoveDir, IInv, BusReleased, Mounting, ClockNeverRises
<1>3. Card' /\ Temporary' /\ Placed'
  BY DEF RemoveDir, Return, Empty, IInv, Card, Temporary, Placed,
         SwapOnlyVerified, Complete
<1>4. SuccessMeansInstalled' /\ SwapOnlyVerified' /\ FinalAsVerified'
  BY DEF RemoveDir, Return, Empty, IInv, Card, Temporary, Placed,
         SuccessMeansInstalled, SwapOnlyVerified, FinalAsVerified, Complete
<1>5. Old'
  <2>1. CASE del_dir = "tmp"
    <3>1. exists'["final"] = exists["final"] /\ dir' = dir
      BY <2>1 DEF RemoveDir, IInv
    <3>2. \/ pc' = "mkdir" /\ del_next = "mkdir"
          \/ pc' = "unmount" /\ cause' = cause
      BY <2>1 DEF RemoveDir, Return, IInv, Card
    <3> QED BY <2>1, <3>1, <3>2 DEF RemoveDir, IInv, Old, Usable
  <2>2. CASE del_dir = "final"
    BY <2>2 DEF RemoveDir, IInv, Card, Old
  <2> QED BY <2>1, <2>2 DEF IInv
<1> QED BY <1>1, <1>2, <1>3, <1>4, <1>5 DEF IInv

\* The card stays as it is.
LEMMA CrashStep ==
  ASSUME IInv, Crash
  PROVE  IInv'
<1>1. TypeOK'
  BY DEF Crash, IInv
<1>2. BusReleased' /\ Mounting' /\ ClockNeverRises'
  BY DEF Crash, IInv, BusReleased, Mounting, ClockNeverRises
<1>3. Card' /\ Temporary' /\ Placed'
  BY DEF Crash, IInv, Card, Temporary, Placed, SwapOnlyVerified, Complete
<1>4. SuccessMeansInstalled' /\ SwapOnlyVerified' /\ FinalAsVerified'
  BY DEF Crash, IInv, Card, Temporary, Placed, SuccessMeansInstalled,
         SwapOnlyVerified, FinalAsVerified, Complete
<1>5. Old'
  BY DEF Crash, IInv, Card, Old, Usable
<1> QED BY <1>1, <1>2, <1>3, <1>4, <1>5 DEF IInv

-----------------------------------------------------------------------------
(* The invariant *)

LEMMA InitInv == Init => IInv
<1> SUFFICES ASSUME Init PROVE IInv
  OBVIOUS
<1>1. exists \in [Dirs -> BOOLEAN] /\ dir \in [Dirs -> [Names -> Contents]]
  BY DEF Init
<1>2. TypeOK
  <2>1. calls \in 0..MaxCalls
    BY DEF Init
  <2>2. /\ {s_card, s_spi_bus_initialized, spi} \subseteq BOOLEAN
        /\ all_ok \in BOOLEAN /\ sd_failed \in BOOLEAN
    BY Zenon DEF Init
  <2> QED BY <1>1, <2>1, <2>2 DEF Init
<1>3. Card /\ FinalAsVerified
  BY DEF Init, Card, FinalAsVerified, Empty
<1>4. /\ Temporary /\ Old /\ Placed /\ Mounting /\ SuccessMeansInstalled
      /\ SwapOnlyVerified /\ BusReleased /\ ClockNeverRises
  BY DEF Init, Temporary, Old, Placed, Mounting, SuccessMeansInstalled,
         SwapOnlyVerified, BusReleased, ClockNeverRises
<1> QED BY <1>2, <1>3, <1>4 DEF IInv

LEMMA StepInv == IInv /\ [Next]_vars => IInv'
<1> SUFFICES ASSUME IInv, [Next]_vars PROVE IInv'
  OBVIOUS
<1>1. CASE UNCHANGED vars
  BY <1>1 DEF vars, IInv, Card, Temporary, Old, Placed, Mounting,
              SuccessMeansInstalled, SwapOnlyVerified, FinalAsVerified,
              BusReleased, ClockNeverRises, Complete, Usable
<1>2. CASE \/ CallFolder \/ BusInit \/ BusInitFails \/ MountOk \/ MountRetry
           \/ MountFails \/ Unmount
  BY <1>2, CallFolderStep, BusInitStep, BusInitFailsStep, MountOkStep,
     MountRetryStep, MountFailsStep, UnmountStep
<1>3. CASE \/ ListFails \/ Mkdir \/ MkdirFails
           \/ \E s \in SUBSET Files : FetchList(s)
  BY <1>3, ListFailsStep, MkdirStep, MkdirFailsStep, FetchListStep
<1>4. CASE \/ LowerClock \/ GiveUp \/ LoopDone \/ Cleanup
           \/ \E n \in Files : NextFile(n)
           \/ \E c \in {"new", "short"} : FetchOk(c)
           \/ \E p \in {"none", "new"} : FetchFails(p) \/ FetchSdFails(p)
  BY <1>4, LowerClockStep, GiveUpStep, LoopDoneStep, CleanupStep, NextFileStep,
     FetchOkStep, FetchFailsStep, FetchSdFailsStep
<1>5. CASE \/ VerifyOk \/ VerifyFails \/ RenameDir \/ RenameDirFails
           \/ WriteMarker \/ RemoveDir \/ Crash
           \/ \E n \in Names : DeleteEntry(n)
  BY <1>5, VerifyOkStep, VerifyFailsStep, RenameDirStep, RenameDirFailsStep,
     WriteMarkerStep, RemoveDirStep, CrashStep, DeleteEntryStep
<1> QED BY <1>1, <1>2, <1>3, <1>4, <1>5 DEF Next, Step

LEMMA Invariance == Spec => []IInv
  BY InitInv, StepInv, PTL DEF Spec

-----------------------------------------------------------------------------
(* The properties *)

\* Every variable keeps its range: both fallbacks stay on their ladders.
THEOREM TypeCorrect == Spec => []TypeOK
<1>1. IInv => TypeOK
  BY DEF IInv
<1> QED BY <1>1, Invariance, PTL

\* true means that the folder in place is complete and of this call.
THEOREM TrueMeansInstalled == Spec => []SuccessMeansInstalled
<1>1. IInv => SuccessMeansInstalled
  BY DEF IInv
<1> QED BY <1>1, Invariance, PTL

\* The old folder is deleted only for a complete download of this call.
THEOREM SwapIsVerified == Spec => []SwapOnlyVerified
<1>1. IInv => SwapOnlyVerified
  BY DEF IInv
<1> QED BY <1>1, Invariance, PTL

\* No crash, failure or leftover puts a .part, a stale file, or a truncated file
\* that the manifest lists, into the installed folder.  A truncated file that the
\* manifest does not list passes verify_download_integrity and may be there.
THEOREM InstalledAsVerified == Spec => []FinalAsVerified
<1>1. IInv => FinalAsVerified
  BY DEF IInv
<1> QED BY <1>1, Invariance, PTL

\* A failure before the swap leaves a usable folder usable.
THEOREM OldIsKept == Spec => []KeepOld
<1>1. IInv => KeepOld
  BY DEF IInv, Old, KeepOld
<1> QED BY <1>1, Invariance, PTL

\* The bus flag is the state of the bus, which is freed at the end of a call.
THEOREM BusIsReleased == Spec => []BusReleased
<1>1. IInv => BusReleased
  BY DEF IInv
<1> QED BY <1>1, Invariance, PTL

\* The clock in use never exceeds the one the card mounted at.
THEOREM ClockIsBounded == Spec => []ClockNeverRises
<1>1. IInv => ClockNeverRises
  BY DEF IInv
<1> QED BY <1>1, Invariance, PTL

-----------------------------------------------------------------------------
(* The refinement of FolderContract *)

\* A call begins; the relabelled folder is as usable as before.
LEMMA CallRefines ==
  ASSUME IInv, CallFolder
  PROVE  FC!Begin
<1>1. \A n \in Names : (dir'["final"][n] \in {"old", "new"})
                        <=> (dir["final"][n] \in {"old", "new"})
  BY DEF CallFolder, IInv
<1>2. Usable' <=> Usable
  BY <1>1 DEF CallFolder, Usable
<1> QED BY <1>2 DEF CallFolder, FC!Begin

\* The steps before the swap work beside the folder, or give up.
LEMMA WorkRefines ==
  ASSUME IInv,
         \/ BusInit \/ BusInitFails \/ MountOk \/ MountRetry \/ MountFails
         \/ ListFails \/ Mkdir \/ MkdirFails
         \/ \E s \in SUBSET Files : FetchList(s)
  PROVE  FC!GiveUp \/ UNCHANGED FC!vars
<1>1. Usable' <=> Usable
  BY DEF BusInit, BusInitFails, MountOk, MountRetry, MountFails, ListFails,
         Mkdir, MkdirFails, FetchList, Usable, IInv
<1> QED BY <1>1 DEF BusInit, BusInitFails, MountOk, MountRetry, MountFails,
         ListFails, Mkdir, MkdirFails, FetchList, Return, Delete, IInv, Placed,
         FC!GiveUp, FC!vars

LEMMA LoopRefines ==
  ASSUME IInv,
         \/ LowerClock \/ GiveUp \/ LoopDone \/ Cleanup \/ VerifyFails
         \/ \E n \in Files : NextFile(n)
         \/ \E c \in {"new", "short"} : FetchOk(c)
         \/ \E p \in {"none", "new"} : FetchFails(p) \/ FetchSdFails(p)
  PROVE  FC!GiveUp \/ UNCHANGED FC!vars
<1>1. dir'["final"] = dir["final"] /\ exists' = exists
  BY DEF LowerClock, GiveUp, LoopDone, Cleanup, VerifyFails, NextFile, FetchOk,
         FetchFails, FetchSdFails, IInv
<1>2. Usable' <=> Usable
  BY <1>1 DEF Usable
<1> QED BY <1>2 DEF LowerClock, GiveUp, LoopDone, Cleanup, VerifyFails,
         NextFile, FetchOk, FetchFails, FetchSdFails, Return, Delete,
         FC!GiveUp, FC!vars

\* The verified download starts the swap, and the rename ends it.
LEMMA SwapRefines ==
  ASSUME IInv, IInv',
         VerifyOk \/ RenameDir \/ RenameDirFails \/ WriteMarker
  PROVE  FC!StartSwap \/ FC!Place \/ FC!GiveUp \/ UNCHANGED FC!vars
<1>1. CASE VerifyOk
  <2>1. Usable' <=> Usable
    BY <1>1 DEF VerifyOk, Usable
  <2> QED BY <1>1, <2>1 DEF VerifyOk, Delete, FC!StartSwap
<1>2. CASE RenameDir
  <2>1. Usable'
    BY <1>2 DEF RenameDir, IInv, Placed, Complete, Usable
  <2> QED BY <1>2, <2>1 DEF RenameDir, FC!Place
<1>3. CASE RenameDirFails
  <2>1. Usable' <=> Usable
    BY <1>3 DEF RenameDirFails, Usable
  <2> QED BY <1>3, <2>1 DEF RenameDirFails, Delete, FC!GiveUp
<1>4. CASE WriteMarker
  <2>1. Usable' <=> Usable
    BY <1>4 DEF WriteMarker, Usable, IInv
  <2> QED BY <1>4, <2>1 DEF WriteMarker, Return, FC!vars
<1> QED BY <1>1, <1>2, <1>3, <1>4

\* delete_tree breaks the folder in the swap and leaves it alone elsewhere.
LEMMA DeleteRefines ==
  ASSUME IInv, RemoveDir \/ \E n \in Names : DeleteEntry(n)
  PROVE  FC!Degrade \/ UNCHANGED FC!vars
<1>1. CASE del_dir = "tmp"
  <2>1. Usable' <=> Usable
    BY <1>1 DEF RemoveDir, DeleteEntry, Usable, IInv
  <2> QED BY <1>1, <2>1 DEF RemoveDir, DeleteEntry, Return, IInv, Card, Placed,
                            FC!vars
<1>2. CASE del_dir = "final"
  <2>1. Usable' => Usable
    BY <1>2 DEF RemoveDir, DeleteEntry, Usable, IInv
  <2>2. /\ pc = "delete" /\ UNCHANGED reported
        /\ pc' = "rename" \/ (pc' = "delete" /\ del_dir' = "final")
    BY <1>2 DEF RemoveDir, DeleteEntry, IInv, Card
  <2> QED BY <1>2, <2>1, <2>2 DEF FC!Degrade, FC!vars
<1> QED BY <1>1, <1>2 DEF IInv

\* A call ends: with OK behind the rename, or with an error; or by a reset.
LEMMA EndRefines ==
  ASSUME IInv, Unmount \/ Crash
  PROVE  FC!Next
<1>1. Usable' <=> Usable
  BY DEF Unmount, Crash, Usable
<1>2. CASE Unmount
  BY <1>1, <1>2 DEF Unmount, FC!Next, FC!Work, FC!Succeed, FC!Fail, FC!Failures
<1>3. CASE Crash
  BY <1>1, <1>3 DEF Crash, FC!Next, FC!Crash
<1> QED BY <1>2, <1>3

LEMMA StepRefines == IInv /\ IInv' /\ [Next]_vars => [FC!Next]_(FC!vars)
<1> SUFFICES ASSUME IInv, IInv', [Next]_vars PROVE [FC!Next]_(FC!vars)
  OBVIOUS
<1>1. CASE UNCHANGED vars
  <2>1. Usable' <=> Usable
    BY <1>1 DEF vars, Usable
  <2> QED BY <1>1, <2>1 DEF vars, FC!vars
<1>2. CASE Next
  BY <1>2, CallRefines, WorkRefines, LoopRefines, SwapRefines, DeleteRefines,
     EndRefines DEF Next, Step, FC!Next, FC!Work
<1> QED BY <1>1, <1>2

\* Refinement: whatever fails and wherever it is reset, the download changes
\* the installed folder as BootProtocol's view of it allows, and reports OK
\* only with a usable folder in place.
THEOREM ImplementsFolderContract == Spec => Promise
<1>1. Init => FC!Init
  BY DEF Init, FC!Init, FC!States
<1> QED BY <1>1, StepRefines, Invariance, PTL DEF Spec, Promise, FC!Spec
=============================================================================
