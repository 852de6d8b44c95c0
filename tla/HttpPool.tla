------------------------------ MODULE HttpPool ------------------------------
(***************************************************************************)
(* The HTTP clients of download_simi_folder: one for the file list, and    *)
(* for the files a pooled client that keeps its TLS connection from file   *)
(* to file while the host stays the same.  The server may close an idle    *)
(* connection at any time; a file is then tried once more with a new       *)
(* client.  What is read and written is PingPong's; here a response is     *)
(* only read to its end or not.                                            *)
(*                                                                         *)
(* A client is a heap address, free again after esp_http_client_cleanup.   *)
(***************************************************************************)
EXTENDS Integers

CONSTANTS Clients,   \* addresses esp_http_client_init may return
          Null,      \* nullptr
          Hosts,     \* hosts the URLs of the list name
          NoHost,    \* the empty string
          MaxFiles   \* bound: calls of download_file_standalone

ASSUME NullAssumption  == Null \notin Clients
ASSUME HostAssumption  == NoHost \notin Hosts
ASSUME FilesAssumption == MaxFiles \in Nat

VARIABLES
    pc, files,            \* control point; calls made
    host, attempt, client,   \* host of the URL; locals of the call
    s_http_client, s_http_base_host,
    alive,                \* clients initialised and not cleaned up
    conn,                 \* per client: "closed", "open" or "stale"
    unread,               \* per client: a response is not read to its end
    peer,                 \* per client: host of its URL
    fresh,                \* history: client was initialised by this attempt
    outcome, excuse       \* result of the last call; history: a new
                          \* connection failed, or the server refused

pool     == <<s_http_client, s_http_base_host>>
heap     == <<alive, conn, unread, peer>>
callVars == <<files, host, attempt, client>>
histVars == <<fresh, outcome, excuse>>
vars == <<pc, callVars, pool, heap, histVars>>

Results == {"none", "OK", "SD_FAILED", "NET_FAILED", "OTHER_FAILED"}

Init ==
    /\ pc = "list" /\ files = 0
    /\ host = NoHost /\ attempt = 0 /\ client = Null
    /\ s_http_client = Null /\ s_http_base_host = NoHost
    /\ alive = {}
    /\ conn = [c \in Clients |-> "closed"]
    /\ unread = [c \in Clients |-> FALSE]
    /\ peer = [c \in Clients |-> NoHost]
    /\ fresh = FALSE /\ outcome = "none" /\ excuse = FALSE

-----------------------------------------------------------------------------
(* esp_http_client *)

\* esp_http_client_init for url host h: a new client at the address c, which is
\* free when used is what is still in use.
ClientInit(c, h, used) ==
    /\ c \notin used
    /\ conn' = [conn EXCEPT ![c] = "closed"]
    /\ unread' = [unread EXCEPT ![c] = FALSE]
    /\ peer' = [peer EXCEPT ![c] = h]

\* The server, or a middlebox, drops a connection without the client noticing.
ServerCloses(c) ==
    /\ c \in alive /\ conn[c] = "open"
    /\ conn' = [conn EXCEPT ![c] = "stale"]
    /\ UNCHANGED <<pc, callVars, pool, alive, unread, peer, histVars>>

-----------------------------------------------------------------------------
(* The list: a client of its own, cleaned up on both ways out *)

ListInit(c) ==
    /\ pc = "list"
    /\ ClientInit(c, NoHost, alive)
    /\ alive' = alive \cup {c}
    /\ client' = c
    /\ pc' = "perform"
    /\ UNCHANGED <<files, host, attempt, pool, histVars>>

ListInitFails ==
    /\ pc = "list"
    /\ pc' = "done"
    /\ UNCHANGED <<callVars, pool, heap, histVars>>

\* The request fails, or its answer is no list with a manifest, or all is well.
ListPerformed ==
    /\ pc = "perform"
    /\ alive' = alive \ {client}
    /\ client' = Null
    /\ pc' \in {"idle", "done"}
    /\ UNCHANGED <<files, host, attempt, pool, conn, unread, peer, histVars>>

-----------------------------------------------------------------------------
(* get_http_client and release_http_client *)

Call(h) ==
    /\ pc = "idle" /\ files < MaxFiles
    /\ outcome \in {"none", "OK", "SD_FAILED"}
    /\ outcome = "SD_FAILED" => h = host      \* the same file once more
    /\ files' = files + 1
    /\ host' = h /\ attempt' = 0
    /\ pc' = "get"
    /\ outcome' = "none" /\ excuse' = FALSE
    /\ UNCHANGED <<client, pool, heap, fresh>>

Pooled == s_http_client # Null /\ s_http_base_host = host

\* esp_http_client_set_url keeps the connection of the same host.
GetPooled ==
    /\ pc = "get" /\ Pooled
    /\ client' = s_http_client
    /\ fresh' = FALSE
    /\ pc' = "open"
    /\ UNCHANGED <<files, host, attempt, pool, heap, outcome, excuse>>

\* The client of another host is cleaned up; then a new one takes its place,
\* perhaps at the same address.
MutLeakOther(c) ==
    /\ pc = "get" /\ ~Pooled
    /\ ClientInit(c, host, alive)
    /\ alive' = alive \cup {c}
    /\ client' = c
    /\ s_http_client' = c /\ s_http_base_host' = host
    /\ fresh' = TRUE
    /\ pc' = "open"
    /\ UNCHANGED <<files, host, attempt, outcome, excuse>>
GetNew(c) ==
    /\ pc = "get" /\ ~Pooled
    /\ ClientInit(c, host, alive \ {s_http_client})
    /\ alive' = (alive \ {s_http_client}) \cup {c}
    /\ client' = c
    /\ s_http_client' = c /\ s_http_base_host' = host
    /\ fresh' = TRUE
    /\ pc' = "open"
    /\ UNCHANGED <<files, host, attempt, outcome, excuse>>

\* esp_http_client_init fails: NET_FAILED.
GetNewFails ==
    /\ pc = "get" /\ ~Pooled
    /\ alive' = alive \ {s_http_client}
    /\ s_http_client' = Null /\ s_http_base_host' = host
    /\ client' = Null
    /\ outcome' = "NET_FAILED" /\ excuse' = TRUE
    /\ pc' = "idle"
    /\ UNCHANGED <<files, host, attempt, conn, unread, peer, fresh>>

\* release_http_client(client, force): kept for the next file unless forced.
MutKeepPointer(force) ==
    IF force
      THEN /\ alive' = alive \ {client}
           /\ conn' = [conn EXCEPT ![client] = "closed"]
           /\ UNCHANGED pool
      ELSE UNCHANGED <<alive, conn, pool>>
MutNeverForced(force) == UNCHANGED <<alive, conn, pool>>
Release(force) ==
    IF force
      THEN /\ alive' = alive \ {client}
           /\ conn' = [conn EXCEPT ![client] = "closed"]
           /\ s_http_client' = Null /\ s_http_base_host' = NoHost
      ELSE UNCHANGED <<alive, conn, pool>>

-----------------------------------------------------------------------------
(* download_file_standalone *)

\* esp_http_client_open connects if need be and sends the request; on a stale
\* connection the request may still get into the send buffer.
OpenOk ==
    /\ pc = "open"
    /\ conn' = [conn EXCEPT ![client] = IF @ = "closed" THEN "open" ELSE @]
    /\ pc' = "headers"
    /\ UNCHANGED <<callVars, pool, alive, unread, peer, histVars>>

\* The first failure is put down to a stale connection and tried again with a
\* forced release, the second one is final.
MutThirdAttempt(why) ==
    /\ Release(TRUE)
    /\ attempt' = attempt + 1 /\ pc' = "get"
    /\ UNCHANGED <<outcome, excuse>>
RetryOrFail(why) ==
    /\ Release(TRUE)
    /\ \/ /\ attempt = 0 /\ attempt' = 1 /\ pc' = "get"
          /\ UNCHANGED <<outcome, excuse>>
       \/ /\ attempt = 1 /\ pc' = "idle" /\ UNCHANGED attempt
          /\ outcome' = "NET_FAILED" /\ excuse' = why

\* The excuse of a failing call: this connection was a new one.
OpenFails ==
    /\ pc = "open"
    /\ RetryOrFail(fresh)
    /\ UNCHANGED <<files, host, client, unread, peer, fresh>>

\* Status 200: the request was the next one on this connection.
Status200 ==
    /\ pc = "headers" /\ conn[client] = "open" /\ ~unread[client]
    /\ unread' = [unread EXCEPT ![client] = TRUE]
    /\ pc' = "body"
    /\ UNCHANGED <<callVars, pool, alive, conn, peer, histVars>>

\* No status: no answer, or the rest of an earlier response in its place.
StatusNone ==
    /\ pc = "headers"
    /\ RetryOrFail(fresh)
    /\ UNCHANGED <<files, host, client, unread, peer, fresh>>

\* Any other status is final, without a retry.
StatusOther ==
    /\ pc = "headers" /\ conn[client] = "open" /\ ~unread[client]
    /\ Release(TRUE)
    /\ outcome' = "NET_FAILED" /\ excuse' = TRUE
    /\ pc' = "idle"
    /\ UNCHANGED <<files, host, attempt, client, unread, peer, fresh>>

\* Leave before the loop: no buffers or no writer task, or no output file.
LeaveEarly(r) ==
    /\ pc = "body"
    /\ Release(TRUE)
    /\ outcome' = r
    /\ pc' = "idle"
    /\ UNCHANGED <<files, host, attempt, client, unread, peer, fresh, excuse>>

\* esp_http_client_read returns 0, which the loop takes for the end: the
\* response is read to its end, or the server closed the connection in it, and
\* then nothing of it is left to be read.
AtEof(drained) == drained \/ conn[client] = "stale"

\* The read loop ends: at the end of what can be read, or before it on an error
\* of the card or of the network.
MutForceOnNetError(drained, sd_error, net_error) ==
    /\ pc = "body"
    /\ AtEof(drained) \/ sd_error \/ net_error
    /\ unread' = [unread EXCEPT ![client] = ~AtEof(drained)]
    /\ Release(net_error)
    /\ outcome' = IF sd_error THEN "SD_FAILED" ELSE "OK"
    /\ excuse' = net_error
    /\ pc' = "idle"
    /\ UNCHANGED <<files, host, attempt, client, peer, fresh>>
ReadLoop(drained, sd_error, net_error) ==
    /\ pc = "body"
    /\ AtEof(drained) \/ sd_error \/ net_error
    /\ unread' = [unread EXCEPT ![client] = ~AtEof(drained)]
    /\ Release(sd_error \/ net_error)
    /\ outcome' \in IF sd_error THEN {"SD_FAILED"}
                    ELSE IF net_error THEN {"NET_FAILED"}
                    ELSE {"OK", "OTHER_FAILED", "SD_FAILED"}
    /\ excuse' = net_error
    /\ pc' = "idle"
    /\ UNCHANGED <<files, host, attempt, client, peer, fresh>>

\* After the last file, or a failure that is not retried.
CleanupPool ==
    /\ pc = "idle"
    /\ alive' = alive \ {s_http_client}
    /\ s_http_client' = Null
    /\ s_http_base_host' =
          IF s_http_client = Null THEN s_http_base_host ELSE NoHost
    /\ pc' = "done"
    /\ UNCHANGED <<callVars, conn, unread, peer, histVars>>

-----------------------------------------------------------------------------
Next ==
    \/ ListInitFails \/ ListPerformed \/ GetPooled \/ GetNewFails \/ OpenOk
    \/ OpenFails \/ Status200 \/ StatusNone \/ StatusOther \/ CleanupPool
    \/ \E c \in Clients : ListInit(c) \/ GetNew(c) \/ ServerCloses(c)
    \/ \E h \in Hosts : Call(h)
    \/ \E r \in {"SD_FAILED", "OTHER_FAILED"} : LeaveEarly(r)
    \/ \E drained, sd_error, net_error \in BOOLEAN :
          ReadLoop(drained, sd_error, net_error)

Spec == Init /\ [][Next]_vars

-----------------------------------------------------------------------------
(* Properties *)

InCall == pc \in {"open", "headers", "body"}

\* Every variable keeps its range; a file is attempted at most twice.
TypeOK ==
    /\ pc \in {"list", "perform", "idle", "get", "open", "headers", "body",
               "done"}
    /\ files \in 0..MaxFiles /\ attempt \in 0..1
    /\ host \in Hosts \cup {NoHost} /\ client \in Clients \cup {Null}
    /\ s_http_client \in Clients \cup {Null}
    /\ s_http_base_host \in Hosts \cup {NoHost}
    /\ alive \subseteq Clients
    /\ conn \in [Clients -> {"closed", "open", "stale"}]
    /\ unread \in [Clients -> BOOLEAN]
    /\ peer \in [Clients -> Hosts \cup {NoHost}]
    /\ fresh \in BOOLEAN /\ outcome \in Results /\ excuse \in BOOLEAN

\* The pool and the call in progress never hold a client that has been cleaned
\* up, whichever of the eight releases ran before.
NoDangling ==
    /\ s_http_client # Null => s_http_client \in alive
    /\ InCall \/ pc = "perform" => client \in alive

\* No client is lost: between files only the pooled one is alive, and none at
\* the end of the folder.
NoLeak ==
    /\ pc \in {"idle", "get"} => alive \subseteq {s_http_client}
    /\ pc = "done" => alive = {}

\* A client is taken from the pool only for its own host and with nothing of its
\* last response left to be read: no request is answered with the rest of an
\* earlier file.
CleanReuse == pc = "open" /\ ~fresh => ~unread[client] /\ peer[client] = host

\* A file never fails because the server closed an idle connection: NET_FAILED
\* before the first byte comes from a new connection or from the server's own
\* answer.
StaleNeverFails == outcome = "NET_FAILED" => excuse
=============================================================================
