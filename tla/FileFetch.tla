----------------------------- MODULE FileFetch -----------------------------
(***************************************************************************)
(* What one call of download_file_standalone promises its caller, the file *)
(* loop of download_simi_folder: the abstract specification PingPong       *)
(* implements.  There is no task, buffer or semaphore here.  The .part     *)
(* file is at all times an in-order prefix of the response body, a call    *)
(* ends with exactly one outcome, and OK is only returned when every byte  *)
(* announced by the server reached the stdio stream.                       *)
(*                                                                         *)
(* Byte i of the body is represented by its position i, so "in order and   *)
(* complete" is a statement about which positions were stored.             *)
(***************************************************************************)
EXTENDS Naturals, Sequences

CONSTANTS MaxBody     \* longest response body

VARIABLES active,     \* a call is in progress
          body,       \* length of the body the server sends in this call
          clen,       \* Content-Length, 0 when the server announced none
          stored,     \* positions accepted by the stream of the .part file
          published,  \* contents of the file renamed into place
          outcome     \* DlResult of the last call, "none" before it returns

vars == <<active, body, clen, stored, published, outcome>>

DlResult == {"OK", "SD_FAILED", "NET_FAILED", "OTHER_FAILED"}

\* The first n bytes of the body.
Prefix(n) == [i \in 1..n |-> i]

Init ==
    /\ active = FALSE
    /\ body = 0
    /\ clen = 0
    /\ stored = <<>>
    /\ published = <<>>
    /\ outcome = "none"

\* The loop calls again after a success (next file) or an SD failure (same
\* file at a lower clock), never after a network or other failure.
Begin ==
    /\ ~active
    /\ outcome \in {"none", "OK", "SD_FAILED"}
    /\ active' = TRUE
    /\ body' \in 0..MaxBody
    /\ clen' \in {0, body'}
    /\ stored' = <<>>
    /\ published' = <<>>
    /\ outcome' = "none"

Store ==
    /\ active
    /\ \E n \in (Len(stored) + 1)..body : stored' = Prefix(n)
    /\ UNCHANGED <<active, body, clen, published, outcome>>

\* OK: at least one byte, all of them when the length was announced.  A tail may
\* be missing on the card, because the final flush, sync and close are not
\* checked.
Succeed ==
    /\ active
    /\ Len(stored) > 0
    /\ clen > 0 => Len(stored) = clen
    /\ active' = FALSE
    /\ outcome' = "OK"
    /\ \E kept \in 0..Len(stored) : published' = Prefix(kept)
    /\ UNCHANGED <<body, clen, stored>>

Fail ==
    /\ active
    /\ active' = FALSE
    /\ outcome' \in DlResult \ {"OK"}
    /\ UNCHANGED <<body, clen, stored, published>>

Next == Begin \/ Store \/ Succeed \/ Fail

Spec == Init /\ [][Next]_vars
=============================================================================
