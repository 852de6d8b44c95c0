-------------------------------- MODULE Wifi --------------------------------
(***************************************************************************)
(* connect_to_wifi_with_feedback: up to three attempts with the network    *)
(* the driver remembers, then every saved network that the scan saw.  The  *)
(* main task shares CONNECTED_BIT and s_is_connecting with                 *)
(* wifi_event_handler, which runs in the event task and takes the events   *)
(* of the driver from a queue, late and in order.                          *)
(*                                                                         *)
(* Signal strengths are abstracted to the order they put the networks in;  *)
(* time to timeouts that may expire whenever the task waits.               *)
(***************************************************************************)
EXTENDS Integers, Sequences, FiniteSets

CONSTANTS MaxNetworks,  \* networks musicbox saved: 1, 2, ..., in its order
          MaxAttempts,  \* the 3 attempts of connect_to_wifi_with_feedback
          MaxEvents     \* bound: queued events up to which the link changes

ASSUME NetworksAssumption == MaxNetworks \in Nat
ASSUME AttemptsAssumption == MaxAttempts \in Nat \ {0}
ASSUME EventsAssumption   == MaxEvents \in Nat \ {0}

VARIABLES
    pc,                       \* main task
    attempt, bits,            \* attempts made; what xEventGroupWaitBits gave
    networks, cands,          \* handle->networks; those still to be tried
    s_is_connecting, connected_bit,   \* shared with the handler
    handler,                  \* "idle", or "retry": about to connect again
    sta, configured, events,  \* driver: link, whether it has a network, queue
    visible,                  \* history: the networks the scan saw
    tried, refused,           \* history: networks esp_wifi_connect took; networks
                              \* passed over because a driver call failed
    got_ip,                   \* history: a GOT_IP event has been handled
    late                      \* history: retries begun after the return (to 2)

listVars   == <<networks, cands>>
shared     == <<s_is_connecting, connected_bit>>
driverVars == <<sta, configured, events>>
histVars   == <<visible, tried, refused, got_ip, late>>
vars == <<pc, attempt, bits, listVars, shared, handler, driverVars, histVars>>

Networks == 1..MaxNetworks
Returned == pc \in {"ok", "fail"}

\* After wifi_creds_init: the driver is started and does not connect by itself.
Init ==
    /\ pc = "check" /\ attempt = 0 /\ bits = FALSE
    /\ networks = {} /\ cands = <<>>
    /\ s_is_connecting = FALSE /\ connected_bit = FALSE
    /\ handler = "idle"
    /\ sta = "idle" /\ configured \in BOOLEAN /\ events = <<>>
    /\ visible = {} /\ tried = {} /\ refused = {}
    /\ got_ip = FALSE /\ late = 0

-----------------------------------------------------------------------------
(* The driver *)

\* esp_wifi_sta_get_ap_info succeeds: associated, with or without an address.
Associated == sta \in {"assoc", "ip"}

\* esp_wifi_connect: without a network, or when busy, it only returns an error.
EspWifiConnect ==
    /\ sta' = IF sta = "idle" /\ configured THEN "connecting" ELSE sta
    /\ UNCHANGED <<configured, events>>

\* The link goes down, and the handler will be told.
LinkDown == sta' = "idle" /\ events' = Append(events, "DISCONNECTED")

DriverAssociates ==
    /\ sta = "connecting"
    /\ sta' = "assoc"
    /\ UNCHANGED <<pc, attempt, bits, listVars, shared, handler, configured,
                   events, histVars>>

DriverGetsIp ==
    /\ sta = "assoc" /\ Len(events) < MaxEvents
    /\ sta' = "ip" /\ events' = Append(events, "GOT_IP")
    /\ UNCHANGED <<pc, attempt, bits, listVars, shared, handler, configured,
                   histVars>>

\* An attempt fails, or the access point drops the station.
DriverDisconnects ==
    /\ sta # "idle" /\ Len(events) < MaxEvents
    /\ LinkDown
    /\ UNCHANGED <<pc, attempt, bits, listVars, shared, handler, configured,
                   histVars>>

-----------------------------------------------------------------------------
(* wifi_event_handler *)

\* STA_DISCONNECTED: the bit is cleared; the decision to connect again is
\* taken on s_is_connecting as it is now.
MutKeepBit ==
    /\ handler = "idle" /\ events # <<>> /\ Head(events) = "DISCONNECTED"
    /\ events' = Tail(events)
    /\ handler' = IF s_is_connecting THEN "retry" ELSE "idle"
    /\ UNCHANGED <<pc, attempt, bits, listVars, shared, sta, configured,
                   histVars>>
HandleDisconnected ==
    /\ handler = "idle" /\ events # <<>> /\ Head(events) = "DISCONNECTED"
    /\ events' = Tail(events)
    /\ connected_bit' = FALSE
    /\ handler' = IF s_is_connecting THEN "retry" ELSE "idle"
    /\ UNCHANGED <<pc, attempt, bits, listVars, s_is_connecting, sta,
                   configured, histVars>>

HandlerRetry ==
    /\ handler = "retry"
    /\ handler' = "idle"
    /\ EspWifiConnect
    /\ late' = IF Returned /\ late < 2 THEN late + 1 ELSE late
    /\ UNCHANGED <<pc, attempt, bits, listVars, shared, visible, tried,
                   refused, got_ip>>

\* GOT_IP: the bit is set, which wakes the main task if it is waiting.
HandleGotIp ==
    /\ handler = "idle" /\ events # <<>> /\ Head(events) = "GOT_IP"
    /\ events' = Tail(events)
    /\ connected_bit' = TRUE
    /\ s_is_connecting' = FALSE
    /\ got_ip' = TRUE
    /\ IF pc = "wait" THEN pc' = "woken" /\ bits' = TRUE
                      ELSE UNCHANGED <<pc, bits>>
    /\ UNCHANGED <<attempt, listVars, handler, sta, configured, visible, tried,
                   refused, late>>

-----------------------------------------------------------------------------
(* wifi_creds_wait_for_connection and the three attempts *)

\* Already associated: return at once.
Check ==
    /\ pc = "check"
    /\ pc' = IF Associated THEN "ok" ELSE "arm"
    /\ UNCHANGED <<attempt, bits, listVars, shared, handler, driverVars,
                   histVars>>

Arm ==
    /\ pc = "arm"
    /\ s_is_connecting' = TRUE
    /\ pc' = "connect"
    /\ UNCHANGED <<attempt, bits, listVars, connected_bit, handler, driverVars,
                   histVars>>

\* The result is not looked at.
Connect ==
    /\ pc = "connect"
    /\ EspWifiConnect
    /\ pc' = "wait_call"
    /\ UNCHANGED <<attempt, bits, listVars, shared, handler, histVars>>

\* xEventGroupWaitBits: returns at once if the bit is set, else blocks.
EnterWait ==
    /\ pc = "wait_call"
    /\ bits' = connected_bit
    /\ pc' = IF connected_bit THEN "woken" ELSE "wait"
    /\ UNCHANGED <<attempt, listVars, shared, handler, driverVars, histVars>>

Timeout ==
    /\ pc = "wait"
    /\ pc' = "woken"
    /\ UNCHANGED <<attempt, bits, listVars, shared, handler, driverVars,
                   histVars>>

Disarm ==
    /\ pc = "woken" /\ cands = <<>>
    /\ s_is_connecting' = FALSE
    /\ pc' = IF bits THEN "ok" ELSE "breather"
    /\ UNCHANGED <<attempt, bits, listVars, connected_bit, handler, driverVars,
                   histVars>>

\* A second of pause that ends early on an association; then the next attempt,
\* or the saved networks.
MutEndlessAttempts ==
    /\ pc = "breather"
    /\ pc' = IF Associated THEN "ok" ELSE "check"
    /\ UNCHANGED <<attempt, bits, listVars, shared, handler, driverVars,
                   histVars>>
MutOneMoreAttempt ==
    /\ pc = "breather"
    /\ attempt' = attempt + 1
    /\ pc' = IF Associated THEN "ok"
             ELSE IF attempt + 1 <= MaxAttempts THEN "check" ELSE "load"
    /\ UNCHANGED <<bits, listVars, shared, handler, driverVars, histVars>>
Breather ==
    /\ pc = "breather"
    /\ attempt' = attempt + 1
    /\ pc' = IF Associated THEN "ok"
             ELSE IF attempt + 1 < MaxAttempts THEN "check" ELSE "load"
    /\ UNCHANGED <<bits, listVars, shared, handler, driverVars, histVars>>

-----------------------------------------------------------------------------
(* wifi_creds_load, wifi_creds_scan_and_match, wifi_creds_connect_best *)

\* Entries that cannot be read are skipped; without any the call fails.
Load(readable) ==
    /\ pc = "load"
    /\ networks' = readable
    /\ pc' = IF readable = {} THEN "fail" ELSE "scan"
    /\ UNCHANGED <<attempt, bits, cands, shared, handler, driverVars,
                   histVars>>

First(S) == CHOOSE n \in S : \A m \in S : n <= m

\* The ways RSSI may sort the networks the scan saw.
Orders(S) == {s \in [1..Cardinality(S) -> S] :
                 \A i, j \in 1..Cardinality(S) : s[i] = s[j] => i = j}

\* The networks seen, best signal first; when none was seen, or the scan
\* failed, the first one saved is tried blindly.
Scan(seen) ==
    /\ pc = "scan"
    /\ visible' = seen
    /\ cands' \in IF seen = {} THEN {<<First(networks)>>} ELSE Orders(seen)
    /\ pc' = "arm_best"
    /\ UNCHANGED <<attempt, bits, networks, shared, handler, driverVars, tried,
                   refused, got_ip, late>>

ArmBest ==
    /\ pc = "arm_best"
    /\ s_is_connecting' = TRUE
    /\ pc' = "disconnect"
    /\ UNCHANGED <<attempt, bits, listVars, connected_bit, handler, driverVars,
                   histVars>>

Disconnect ==
    /\ pc = "disconnect"
    /\ IF sta = "idle" THEN UNCHANGED <<sta, events>> ELSE LinkDown
    /\ pc' = "set_config"
    /\ UNCHANGED <<attempt, bits, listVars, shared, handler, configured,
                   histVars>>

\* continue: go on with the next network, or leave the loop.
NextNetwork ==
    /\ cands' = Tail(cands)
    /\ pc' = IF Tail(cands) = <<>> THEN "disarm_best" ELSE "disconnect"
    /\ UNCHANGED networks

\* The network is passed over: the driver did not take one of the two calls.
PassOver ==
    /\ refused' = refused \cup {Head(cands)}
    /\ NextNetwork
    /\ UNCHANGED <<attempt, bits, shared, handler, driverVars, visible, tried,
                   got_ip, late>>

\* Refused while the station is connecting: the handler may have answered the
\* disconnection with a new attempt.
SetConfigOk ==
    /\ pc = "set_config" /\ sta # "connecting"
    /\ configured' = TRUE
    /\ pc' = "connect_best"
    /\ UNCHANGED <<attempt, bits, listVars, shared, handler, sta, events,
                   histVars>>

MutSetConfigBreaks ==
    /\ pc = "set_config"
    /\ refused' = refused \cup {Head(cands)}
    /\ cands' = <<>> /\ pc' = "disarm_best"
    /\ UNCHANGED <<attempt, bits, networks, shared, handler, driverVars,
                   visible, tried, got_ip, late>>
SetConfigFails == pc = "set_config" /\ PassOver

ConnectBest ==
    /\ pc = "connect_best" /\ sta # "connecting"
    /\ EspWifiConnect
    /\ tried' = tried \cup {Head(cands)}
    /\ pc' = "clear"
    /\ UNCHANGED <<attempt, bits, listVars, shared, handler, visible, refused,
                   got_ip, late>>

ConnectBestFails == pc = "connect_best" /\ PassOver

\* The bit is cleared after the connection was asked for.
ClearConnected ==
    /\ pc = "clear"
    /\ connected_bit' = FALSE
    /\ pc' = "wait_call"
    /\ UNCHANGED <<attempt, bits, listVars, s_is_connecting, handler,
                   driverVars, histVars>>

BestConnected ==
    /\ pc = "woken" /\ cands # <<>> /\ bits
    /\ s_is_connecting' = FALSE
    /\ pc' = "ok"
    /\ UNCHANGED <<attempt, bits, listVars, connected_bit, handler, driverVars,
                   histVars>>

BestTimedOut ==
    /\ pc = "woken" /\ cands # <<>> /\ ~bits
    /\ NextNetwork
    /\ UNCHANGED <<attempt, bits, shared, handler, driverVars, histVars>>

MutStaysArmed ==
    /\ pc = "disarm_best"
    /\ pc' = "fail"
    /\ UNCHANGED <<attempt, bits, listVars, shared, handler, driverVars,
                   histVars>>
DisarmBest ==
    /\ pc = "disarm_best"
    /\ s_is_connecting' = FALSE
    /\ pc' = "fail"
    /\ UNCHANGED <<attempt, bits, listVars, connected_bit, handler, driverVars,
                   histVars>>

-----------------------------------------------------------------------------
Main ==
    \/ Check \/ Arm \/ Connect \/ EnterWait \/ Timeout \/ Disarm \/ Breather
    \/ \E readable \in SUBSET Networks : Load(readable)
    \/ \E seen \in SUBSET networks : Scan(seen)
    \/ ArmBest \/ Disconnect \/ SetConfigOk \/ SetConfigFails \/ ConnectBest
    \/ ConnectBestFails \/ ClearConnected \/ BestConnected \/ BestTimedOut
    \/ DisarmBest

Handler == HandleDisconnected \/ HandlerRetry \/ HandleGotIp

Driver == DriverAssociates \/ DriverGetsIp \/ DriverDisconnects

Next == Main \/ Handler \/ Driver

Spec == Init /\ [][Next]_vars

\* The main task runs and its waits time out.  Nothing is asked of the driver
\* or of the access point.
FairSpec == Spec /\ WF_vars(Main)

-----------------------------------------------------------------------------
(* Properties *)

Points == {"check", "arm", "connect", "wait_call", "wait", "woken", "breather",
           "load", "scan", "arm_best", "disconnect", "set_config",
           "connect_best", "clear", "disarm_best", "ok", "fail"}

\* Every variable keeps its range; at most MaxAttempts attempts are made.
TypeOK ==
    /\ pc \in Points /\ attempt \in 0..MaxAttempts /\ bits \in BOOLEAN
    /\ networks \subseteq Networks /\ cands \in Seq(Networks)
    /\ s_is_connecting \in BOOLEAN /\ connected_bit \in BOOLEAN
    /\ handler \in {"idle", "retry"}
    /\ sta \in {"idle", "connecting", "assoc", "ip"} /\ configured \in BOOLEAN
    /\ events \in Seq({"DISCONNECTED", "GOT_IP"})
    /\ visible \subseteq Networks /\ tried \subseteq Networks
    /\ refused \subseteq Networks
    /\ got_ip \in BOOLEAN /\ late \in 0..2

\* CONNECTED_BIT never outlives the link unnoticed: while it is set the station
\* has its address, or the event that will clear the bit is on its way.  So a
\* wait that finds the bit of an earlier attempt is wrong only for as long as
\* the queue holds that event.
BitTracksLink ==
    connected_bit =>
        \/ sta = "ip"
        \/ \E i \in DOMAIN events : events[i] = "DISCONNECTED"

\* The handler reconnects "only ... if we're actively trying to connect"
\* (simibox_wifi_creds_idf.c:49): once the function has returned, at most the
\* retry it had already decided on is begun, however often the link drops.
AtMostOneLateRetry == late < 2

\* No network is lost between two rounds of the loop of
\* wifi_creds_connect_best: when the call fails, each network the scan saw (the
\* first saved one when it saw none) was handed to esp_wifi_connect and waited
\* for, or passed over because the driver refused its configuration or its
\* connection (369-380), and none is counted both ways.  It does not say that
\* any was connected to: a handler that reconnects at the wrong moment can have
\* every one of them refused.
FailAccountsForAll ==
    pc = "fail" /\ networks # {} =>
        /\ (IF visible = {} THEN {First(networks)} ELSE visible)
               = tried \cup refused
        /\ tried \cap refused = {}

\* With FairSpec: the function returns, whatever the access points do.
ConnectReturns == pc = "check" ~> Returned

\* downloader_main.cpp:181: an attempt "Dispara esp_wifi_connect() y espera la
\* IP".  Violated: an association without an address counts as connected, in
\* the test before an attempt and in the pause after it.
OkMeansAddress == pc = "ok" => got_ip
=============================================================================
