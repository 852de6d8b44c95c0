--------------------------- MODULE HttpPoolProofs ---------------------------
(***************************************************************************)
(* Proofs that the safety properties of HttpPool hold for every number of  *)
(* clients, hosts and files.                                               *)
(*                                                                         *)
(* The properties speak of the pool at some control points only.  The      *)
(* invariant says what is in the pool and on the heap at all of them:      *)
(* which client is alive (Heap), what the pooled one is good for (Pool),   *)
(* and that a second attempt has a new client (Attempt).                   *)
(***************************************************************************)
EXTENDS HttpPool, TLAPS

\* The client of the list is the only one until it is cleaned up; then only
\* the pooled one is alive, and a call in progress works with that one.
Heap ==
    /\ pc \in {"list", "perform"} => s_http_client = Null
    /\ pc = "perform" => client # Null /\ alive = {client}
    /\ pc # "perform" =>
          alive = IF s_http_client = Null THEN {} ELSE {s_http_client}
    /\ InCall => client = s_http_client /\ client # Null
    /\ pc = "done" => s_http_client = Null

\* The pooled client belongs to s_http_base_host, which is the host of a call
\* in progress, and has no response left to read until the next request.
Pool ==
    /\ s_http_client # Null => peer[s_http_client] = s_http_base_host
    /\ InCall => s_http_base_host = host
    /\ s_http_client # Null /\ pc # "body" => ~unread[s_http_client]

\* A second attempt follows a forced release, so its client is new.
Attempt ==
    /\ pc = "get" /\ attempt = 1 => s_http_client = Null
    /\ InCall /\ attempt = 1 => fresh

IInv == TypeOK /\ Heap /\ Pool /\ Attempt /\ StaleNeverFails

USE NullAssumption, HostAssumption, FilesAssumption
    DEF pool, heap, callVars, histVars, Results, TypeOK, InCall

-----------------------------------------------------------------------------
(* The invariant holds initially and is preserved by every action *)

LEMMA InitInv == Init => IInv
<1> SUFFICES ASSUME Init PROVE IInv
  OBVIOUS
<1>1. unread \in [Clients -> BOOLEAN] /\ fresh \in BOOLEAN /\ excuse \in BOOLEAN
  BY Zenon DEF Init
<1>2. TypeOK
  <2>1. files \in 0..MaxFiles
    BY DEF Init
  <2>2. conn \in [Clients -> {"closed", "open", "stale"}]
    BY DEF Init
  <2>3. peer \in [Clients -> Hosts \cup {NoHost}]
    BY DEF Init
  <2> QED BY <1>1, <2>1, <2>2, <2>3 DEF Init
<1>3. Heap /\ Pool /\ Attempt /\ StaleNeverFails
  BY DEF Init, Heap, Pool, Attempt, StaleNeverFails
<1> QED BY <1>2, <1>3 DEF IInv

\* A forced release leaves the pool empty and nothing alive.
LEMMA ForcedRelease ==
  ASSUME IInv, InCall, Release(TRUE)
  PROVE  /\ alive' = {} /\ s_http_client' = Null /\ s_http_base_host' = NoHost
         /\ conn' \in [Clients -> {"closed", "open", "stale"}]
  BY DEF IInv, Heap, Release

\* The file list: a client of its own, cleaned up on both ways out.
LEMMA ListSteps ==
  ASSUME IInv,
         ListInitFails \/ ListPerformed \/ \E c \in Clients : ListInit(c)
  PROVE  IInv'
<1>1. CASE ListInitFails
  BY <1>1 DEF ListInitFails, IInv, Heap, Pool, Attempt, StaleNeverFails
<1>2. CASE ListPerformed
  BY <1>2 DEF ListPerformed, IInv, Heap, Pool, Attempt, StaleNeverFails
<1>3. ASSUME NEW c \in Clients, ListInit(c) PROVE IInv'
  BY <1>3 DEF ListInit, ClientInit, IInv, Heap, Pool, Attempt, StaleNeverFails
<1> QED BY <1>1, <1>2, <1>3

\* get_http_client: the pooled client, a new one in its place, or none.
LEMMA GetSteps ==
  ASSUME IInv,
         \/ GetPooled \/ GetNewFails
         \/ \E c \in Clients : GetNew(c)
         \/ \E h \in Hosts : Call(h)
  PROVE  IInv'
<1>1. CASE GetPooled
  BY <1>1 DEF GetPooled, Pooled, IInv, Heap, Pool, Attempt, StaleNeverFails
<1>2. CASE GetNewFails
  BY <1>2 DEF GetNewFails, Pooled, IInv, Heap, Pool, Attempt, StaleNeverFails
<1>3. ASSUME NEW c \in Clients, GetNew(c) PROVE IInv'
  <2>1. TypeOK'
    BY <1>3 DEF GetNew, ClientInit, IInv
  <2>2. Heap' /\ Pool' /\ Attempt' /\ StaleNeverFails'
    BY <1>3, <2>1 DEF GetNew, ClientInit, IInv, Heap, Pool, Attempt,
                      StaleNeverFails
  <2> QED BY <2>1, <2>2 DEF IInv
<1>4. ASSUME NEW h \in Hosts, Call(h) PROVE IInv'
  <2>1. files' \in 0..MaxFiles
    BY <1>4 DEF Call, IInv
  <2>2. fresh' \in BOOLEAN /\ excuse' \in BOOLEAN
    BY <1>4, Zenon DEF Call, IInv
  <2>3. TypeOK'
    BY <1>4, <2>1, <2>2 DEF Call, IInv
  <2>4. Heap' /\ Pool' /\ Attempt' /\ StaleNeverFails'
    BY <1>4 DEF Call, IInv, Heap, Pool, Attempt, StaleNeverFails
  <2> QED BY <2>3, <2>4 DEF IInv
<1> QED BY <1>1, <1>2, <1>3, <1>4

\* The first failure empties the pool and tries again; the second one has had
\* a new client, which excuses it.
LEMMA RetrySteps ==
  ASSUME IInv, OpenFails \/ StatusNone
  PROVE  IInv'
<1>1. /\ InCall /\ RetryOrFail(fresh)
      /\ UNCHANGED <<files, host, client, unread, peer, fresh>>
  BY DEF OpenFails, StatusNone
<1>2. /\ alive' = {} /\ s_http_client' = Null /\ s_http_base_host' = NoHost
      /\ conn' \in [Clients -> {"closed", "open", "stale"}]
  BY <1>1, ForcedRelease DEF RetryOrFail
<1>3. CASE attempt = 0
  BY <1>1, <1>2, <1>3 DEF RetryOrFail, IInv, Heap, Pool, Attempt,
                          StaleNeverFails
<1>4. CASE attempt = 1
  BY <1>1, <1>2, <1>4 DEF RetryOrFail, IInv, Heap, Pool, Attempt,
                          StaleNeverFails
<1> QED BY <1>3, <1>4 DEF IInv

\* The ways a call ends after its request was answered.
LEMMA EndSteps ==
  ASSUME IInv,
         \/ StatusOther
         \/ \E r \in {"SD_FAILED", "OTHER_FAILED"} : LeaveEarly(r)
         \/ \E drained, sd_error, net_error \in BOOLEAN :
               ReadLoop(drained, sd_error, net_error)
  PROVE  IInv'
<1>1. CASE StatusOther
  <2>1. InCall /\ Release(TRUE)
    BY <1>1 DEF StatusOther
  <2> QED BY <1>1, <2>1, ForcedRelease
          DEF StatusOther, IInv, Heap, Pool, Attempt, StaleNeverFails
<1>2. ASSUME NEW r \in {"SD_FAILED", "OTHER_FAILED"}, LeaveEarly(r)
      PROVE  IInv'
  <2>1. InCall /\ Release(TRUE)
    BY <1>2 DEF LeaveEarly
  <2> QED BY <1>2, <2>1, ForcedRelease
          DEF LeaveEarly, IInv, Heap, Pool, Attempt, StaleNeverFails
<1>3. ASSUME NEW drained \in BOOLEAN, NEW sd_error \in BOOLEAN,
             NEW net_error \in BOOLEAN, ReadLoop(drained, sd_error, net_error)
      PROVE  IInv'
  <2>1. CASE sd_error \/ net_error
    <3>1. InCall /\ Release(TRUE)
      BY <1>3, <2>1 DEF ReadLoop
    <3> QED BY <1>3, <2>1, <3>1, ForcedRelease
            DEF ReadLoop, IInv, Heap, Pool, Attempt, StaleNeverFails
  <2>2. CASE ~sd_error /\ ~net_error
    BY <1>3, <2>2 DEF ReadLoop, AtEof, Release, IInv, Heap, Pool, Attempt,
                      StaleNeverFails
  <2> QED BY <2>1, <2>2
<1> QED BY <1>1, <1>2, <1>3

\* Steps that leave the pool as it is, and its clean-up.
LEMMA OtherSteps ==
  ASSUME IInv,
         \/ OpenOk \/ Status200 \/ CleanupPool
         \/ \E c \in Clients : ServerCloses(c)
  PROVE  IInv'
<1>1. CASE OpenOk
  BY <1>1 DEF OpenOk, IInv, Heap, Pool, Attempt, StaleNeverFails
<1>2. CASE Status200
  BY <1>2 DEF Status200, IInv, Heap, Pool, Attempt, StaleNeverFails
<1>3. CASE CleanupPool
  BY <1>3 DEF CleanupPool, IInv, Heap, Pool, Attempt, StaleNeverFails
<1>4. ASSUME NEW c \in Clients, ServerCloses(c) PROVE IInv'
  BY <1>4 DEF ServerCloses, IInv, Heap, Pool, Attempt, StaleNeverFails
<1> QED BY <1>1, <1>2, <1>3, <1>4

LEMMA StepInv == IInv /\ [Next]_vars => IInv'
<1> SUFFICES ASSUME IInv, [Next]_vars PROVE IInv'
  OBVIOUS
<1>1. CASE UNCHANGED vars
  BY <1>1 DEF vars, IInv, Heap, Pool, Attempt, StaleNeverFails
<1>2. CASE Next
  BY <1>2, ListSteps, GetSteps, RetrySteps, EndSteps, OtherSteps DEF Next
<1> QED BY <1>1, <1>2

LEMMA Invariance == Spec => []IInv
  BY InitInv, StepInv, PTL DEF Spec

-----------------------------------------------------------------------------
(* The properties *)

\* Every variable keeps its range, and no file is attempted a third time.
THEOREM TypeCorrect == Spec => []TypeOK
<1>1. IInv => TypeOK
  BY DEF IInv
<1> QED BY <1>1, Invariance, PTL

\* Neither the pool nor a call holds a client that was cleaned up.
THEOREM ClientsAlive == Spec => []NoDangling
<1>1. IInv => NoDangling
  BY DEF IInv, Heap, NoDangling
<1> QED BY <1>1, Invariance, PTL

\* Every client is cleaned up: none but the pooled one between two files, none
\* at all at the end.
THEOREM ClientsFreed == Spec => []NoLeak
<1>1. IInv => NoLeak
  BY DEF IInv, Heap, NoLeak
<1> QED BY <1>1, Invariance, PTL

\* A pooled client is reused for its own host, with nothing of an earlier
\* response left to be read.
THEOREM ReuseIsClean == Spec => []CleanReuse
<1>1. IInv => CleanReuse
  BY DEF IInv, Heap, Pool, CleanReuse
<1> QED BY <1>1, Invariance, PTL

\* A connection the server had closed never costs a file.
THEOREM StaleIsRetried == Spec => []StaleNeverFails
<1>1. IInv => StaleNeverFails
  BY DEF IInv
<1> QED BY <1>1, Invariance, PTL
=============================================================================
