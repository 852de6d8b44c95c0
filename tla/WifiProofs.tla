----------------------------- MODULE WifiProofs -----------------------------
(***************************************************************************)
(* Proofs that the safety properties of Wifi hold for every number of      *)
(* saved networks, of attempts and of events in the queue.                 *)
(*                                                                         *)
(* The event task sees the link only through its queue.  The invariant     *)
(* says what an event still in the queue means for the link (LinkEvents),  *)
(* when the handler may begin a connection of its own (Armed), and which   *)
(* of the networks of the scan are still ahead of the loop (Ahead).        *)
(***************************************************************************)
EXTENDS Wifi, SequenceTheorems, FiniteSetTheorems, WellFoundedInduction, TLAPS

\* The wait is shared by the attempts and by the loop over the networks.
Waiting    == pc \in {"wait_call", "wait", "woken"}
Attempting == \/ pc \in {"check", "arm", "connect", "breather"}
              \/ Waiting /\ cands = <<>>
Trying     == \/ pc \in {"arm_best", "disconnect", "set_config",
                         "connect_best", "clear"}
              \/ Waiting /\ cands # <<>>

\* Which of the two it is, and that each is within its bounds.
Phase ==
    /\ Attempting => attempt < MaxAttempts /\ cands = <<>>
    /\ pc \in {"load", "scan", "disarm_best"} => cands = <<>>
    /\ pc \in {"scan", "disarm_best"} \/ Trying => networks # {}
    /\ Trying => cands # <<>>

\* An address that is lost leaves an event behind it in the queue.
DownAfter(i) == \E j \in 1..Len(events) : i < j /\ events[j] = "DISCONNECTED"
LinkEvents ==
    /\ connected_bit => sta = "ip" \/ DownAfter(0)
    /\ \A i \in 1..Len(events) :
          events[i] = "GOT_IP" => sta = "ip" \/ DownAfter(i)

\* The function has disarmed the handler before it returns; what is left is
\* the decision the handler may have taken before.
Armed ==
    /\ Returned \/ pc \in {"check", "arm", "breather", "load", "scan",
                           "arm_best"} => ~s_is_connecting
    /\ ~Returned => late = 0
    /\ late < 2 /\ (handler = "retry" => late = 0)

\* The networks to be tried, and where the loop is among them: those behind it
\* were tried or refused, those ahead of it are listed once each.
Wanted      == IF visible = {} THEN {First(networks)} ELSE visible
Listed(s)   == {s[i] : i \in 1..Len(s)}
Distinct(s) == \A i, j \in 1..Len(s) : s[i] = s[j] => i = j
Asked       == pc \in {"clear", "wait_call", "wait", "woken"}
Ahead ==
    /\ Attempting \/ pc \in {"load", "scan"} => tried = {} /\ refused = {}
    /\ tried \cap refused = {}
    /\ Trying => /\ Distinct(cands)
                 /\ Wanted = tried \cup refused \cup Listed(cands)
                 /\ refused \cap Listed(cands) = {}
                 /\ tried \cap Listed(cands) =
                       IF Asked THEN {Head(cands)} ELSE {}
    /\ pc = "disarm_best" \/ (pc = "fail" /\ networks # {}) =>
          Wanted = tried \cup refused

IInv == TypeOK /\ Phase /\ LinkEvents /\ Armed /\ Ahead

USE NetworksAssumption, AttemptsAssumption, EventsAssumption
    DEF listVars, shared, driverVars, histVars, Networks, Returned, Points,
        Waiting, Attempting, Trying, Asked

-----------------------------------------------------------------------------
(* Lemmas about the operators *)

\* The first of the saved networks is one of them.
LEMMA FirstProperties ==
  ASSUME NEW S \in SUBSET Nat, S # {}
  PROVE  First(S) \in S
<1> DEFINE R == OpToRel(<, Nat)
<1>1. IsWellFoundedOn(R, Nat)
  BY NatLessThanWellFounded
<1> HIDE DEF R
<1>2. PICK x \in S : \A y \in S : ~(<<y, x>> \in R)
  BY <1>1, WFMin
<1>3. \A y \in S : ~(y < x)
  BY <1>2 DEF R, OpToRel
<1>4. \A y \in S : x <= y
  BY <1>3
<1> QED BY <1>2, <1>4 DEF First

\* Whatever the signal strengths, the sorted list holds the networks seen, each
\* of them once.
LEMMA OrdersProperties ==
  ASSUME NEW S \in SUBSET Networks, S # {}, NEW s \in Orders(S)
  PROVE  s \in Seq(Networks) /\ s # <<>> /\ Distinct(s) /\ Listed(s) = S
<1> DEFINE c == Cardinality(S)
<1>1. IsFiniteSet(S)
  <2>1. 1 \in Int /\ MaxNetworks \in Int
    OBVIOUS
  <2>2. IsFiniteSet(Networks)
    BY <2>1, FS_Interval
  <2> QED BY <2>2, FS_Subset
<1>2. c \in Nat /\ c # 0
  BY <1>1, FS_CardinalityType, FS_EmptySet
<1> HIDE DEF c
<1>3. /\ s \in [1..c -> S] /\ \A i, j \in 1..c : s[i] = s[j] => i = j
  BY DEF Orders, c
<1>4. s \in Seq(Networks) /\ Len(s) = c
  <2>1. s \in [1..c -> Networks]
    BY <1>3
  <2> QED BY <1>2, <2>1
<1>5. s \in Injection(1..c, S)
  BY <1>3 DEF Injection, IsInjective
<1>6. Cardinality(1..c) = c
  BY <1>2, FS_Interval
<1>7. s \in Surjection(1..c, S)
  BY <1>1, <1>5, <1>6, FS_Injection DEF c
<1>8. Listed(s) = S
  <2>1. Listed(s) = {s[i] : i \in 1..c}
    BY <1>4 DEF Listed
  <2>2. \A n \in S : \E i \in 1..c : s[i] = n
    BY <1>7 DEF Surjection
  <2>3. \A i \in 1..c : s[i] \in S
    BY <1>3
  <2> QED BY <2>1, <2>2, <2>3, Zenon
<1> QED BY <1>2, <1>3, <1>4, <1>8 DEF Distinct

\* continue drops the head of the list and nothing else.
LEMMA DropHead ==
  ASSUME NEW s \in Seq(Networks), s # <<>>, Distinct(s)
  PROVE  /\ Tail(s) \in Seq(Networks) /\ Head(s) \in Listed(s)
         /\ Head(s) \in Networks /\ Distinct(Tail(s))
         /\ Listed(Tail(s)) = Listed(s) \ {Head(s)}
<1>1. /\ Len(s) \in Nat \ {0} /\ Tail(s) \in Seq(Networks)
      /\ Head(s) \in Networks /\ Head(s) = s[1] /\ Len(Tail(s)) = Len(s) - 1
      /\ \A i \in 1..Len(Tail(s)) : Tail(s)[i] = s[i + 1]
  BY HeadTailProperties, EmptySeq
<1>2. Head(s) \in Listed(s)
  BY <1>1 DEF Listed
<1>3. Distinct(Tail(s))
  BY <1>1 DEF Distinct
<1>4. ASSUME NEW i \in 1..Len(s), s[i] # Head(s)
      PROVE  s[i] \in Listed(Tail(s))
  <2>1. i - 1 \in 1..Len(Tail(s)) /\ Tail(s)[i - 1] = s[i]
    BY <1>1, <1>4
  <2> QED BY <2>1 DEF Listed
<1>5. ASSUME NEW i \in 1..Len(Tail(s))
      PROVE  Tail(s)[i] \in Listed(s) \ {Head(s)}
  <2>1. i + 1 \in 1..Len(s) /\ 1 \in 1..Len(s) /\ i + 1 # 1
    BY <1>1
  <2>2. Tail(s)[i] = s[i + 1] /\ s[i + 1] # s[1]
    BY <1>1, <2>1 DEF Distinct
  <2> QED BY <1>1, <2>1, <2>2 DEF Listed
<1>6. Listed(Tail(s)) \subseteq Listed(s) \ {Head(s)}
  BY <1>5, Zenon DEF Listed
<1>7. Listed(s) \ {Head(s)} \subseteq Listed(Tail(s))
  <2> SUFFICES ASSUME NEW n \in Listed(s), n # Head(s)
               PROVE  n \in Listed(Tail(s))
    OBVIOUS
  <2>1. PICK i \in 1..Len(s) : n = s[i]
    BY DEF Listed
  <2> QED BY <1>4, <2>1
<1> QED BY <1>1, <1>2, <1>3, <1>6, <1>7

\* A link that goes down leaves its event at the end of the queue.
LEMMA LinkDownKeeps ==
  ASSUME IInv, LinkDown
  PROVE  /\ events' \in Seq({"DISCONNECTED", "GOT_IP"}) /\ sta' = "idle"
         /\ LinkEvents'
<1> DEFINE n == Len(events)
<1>1. /\ n \in Nat /\ events' \in Seq({"DISCONNECTED", "GOT_IP"})
      /\ Len(events') = n + 1 /\ events'[n + 1] = "DISCONNECTED"
      /\ sta' = "idle"
  BY AppendProperties DEF LinkDown, IInv, TypeOK
<1>2. \A i \in 0..n : DownAfter(i)'
  BY <1>1 DEF DownAfter
<1>3. \A i \in 1..(n + 1) : events'[i] = "GOT_IP" => i \in 0..n
  BY <1>1
<1> QED BY <1>1, <1>2, <1>3 DEF LinkEvents

\* Nothing but a lost link and the handler's own events bears on the bit.
LEMMA LinkKept ==
  ASSUME IInv, UNCHANGED events, connected_bit' => connected_bit,
         sta' = sta \/ (sta # "ip" /\ sta' \in {"connecting", "assoc"})
  PROVE  LinkEvents'
  BY DEF IInv, LinkEvents, DownAfter

\* The head of the queue is handled: the events behind it move up.
LEMMA QueueAdvances ==
  ASSUME IInv, events # <<>>, events' = Tail(events)
  PROVE  /\ events' \in Seq({"DISCONNECTED", "GOT_IP"})
         /\ \A i \in 1..Len(events) : DownAfter(i) => DownAfter(i - 1)'
         /\ \A i \in 1..Len(events') :
               i + 1 \in 1..Len(events) /\ events'[i] = events[i + 1]
<1>1. /\ Len(events) \in Nat \ {0}
      /\ events' \in Seq({"DISCONNECTED", "GOT_IP"})
      /\ Len(events') = Len(events) - 1
      /\ \A i \in 1..Len(events') : events'[i] = events[i + 1]
  BY HeadTailProperties, EmptySeq DEF IInv, TypeOK
<1>2. ASSUME NEW i \in 1..Len(events), DownAfter(i)
      PROVE  DownAfter(i - 1)'
  <2>1. PICK j \in 1..Len(events) : i < j /\ events[j] = "DISCONNECTED"
    BY <1>2 DEF DownAfter
  <2>2. j - 1 \in 1..Len(events') /\ i - 1 < j - 1
        /\ events'[j - 1] = "DISCONNECTED"
    BY <1>1, <2>1
  <2> QED BY <2>2 DEF DownAfter
<1> QED BY <1>1, <1>2

-----------------------------------------------------------------------------
(* Every action preserves the invariant: the event task and the driver *)

LEMMA HandleDisconnectedStep ==
  ASSUME IInv, HandleDisconnected
  PROVE  IInv'
<1>1. /\ events # <<>> /\ events' = Tail(events) /\ ~connected_bit'
      /\ UNCHANGED <<pc, attempt, bits, listVars, s_is_connecting, sta,
                     configured, histVars>>
  BY DEF HandleDisconnected
<1>2. connected_bit' \in BOOLEAN /\ handler' \in {"idle", "retry"}
  BY Zenon DEF HandleDisconnected
<1>3. TypeOK'
  BY <1>1, <1>2, QueueAdvances DEF IInv, TypeOK
<1>4. LinkEvents'
  <2>1. ASSUME NEW i \in 1..Len(events'), events'[i] = "GOT_IP"
        PROVE  sta = "ip" \/ DownAfter(i)'
    <3>1. /\ i + 1 \in 1..Len(events) /\ events[i + 1] = "GOT_IP"
          /\ (i + 1) - 1 = i
      BY <1>1, <2>1, QueueAdvances DEF IInv, TypeOK
    <3>2. sta = "ip" \/ DownAfter(i + 1)
      BY <3>1 DEF IInv, LinkEvents
    <3> QED BY <1>1, <3>1, <3>2, QueueAdvances
  <2> QED BY <1>1, <2>1 DEF LinkEvents
<1>5. Armed'
  BY <1>1 DEF HandleDisconnected, IInv, TypeOK, Armed
<1> QED BY <1>1, <1>3, <1>4, <1>5 DEF IInv, Phase, Ahead, Wanted

LEMMA HandlerRetryStep ==
  ASSUME IInv, HandlerRetry
  PROVE  IInv'
<1>1. late' \in 0..2 /\ Armed'
  BY DEF HandlerRetry, IInv, TypeOK, Armed
<1>2. TypeOK'
  BY <1>1 DEF HandlerRetry, EspWifiConnect, IInv, TypeOK
<1>3. LinkEvents'
  BY LinkKept DEF HandlerRetry, EspWifiConnect
<1> QED BY <1>1, <1>2, <1>3 DEF HandlerRetry, IInv, Phase, Ahead, Wanted

\* The bit may be set for a link that is lost already, but then the event that
\* says so is behind this one.
LEMMA HandleGotIpStep ==
  ASSUME IInv, HandleGotIp
  PROVE  IInv'
<1>1. /\ events # <<>> /\ Head(events) = "GOT_IP" /\ events' = Tail(events)
      /\ pc' \in {pc, "woken"} /\ (pc' # pc => pc = "wait")
      /\ UNCHANGED <<attempt, listVars, handler, sta, configured, visible,
                     tried, refused, late>>
  BY DEF HandleGotIp
<1>2. /\ connected_bit' \in BOOLEAN /\ ~s_is_connecting'
      /\ s_is_connecting' \in BOOLEAN /\ got_ip' \in BOOLEAN
      /\ bits' \in BOOLEAN
  BY Zenon DEF HandleGotIp, IInv, TypeOK
<1>3. TypeOK'
  BY <1>1, <1>2, QueueAdvances DEF IInv, TypeOK
<1>4. LinkEvents'
  <2>1. ASSUME NEW i \in 0..Len(events'), i = 0 \/ events'[i] = "GOT_IP"
        PROVE  sta = "ip" \/ DownAfter(i)'
    <3>1. /\ i + 1 \in 1..Len(events) /\ events[i + 1] = "GOT_IP"
          /\ (i + 1) - 1 = i
      <4>1. Len(events) \in Nat \ {0} /\ Head(events) = events[1]
        BY <1>1, EmptySeq DEF IInv, TypeOK
      <4> QED BY <1>1, <2>1, <4>1, QueueAdvances
    <3>2. sta = "ip" \/ DownAfter(i + 1)
      BY <3>1 DEF IInv, LinkEvents
    <3> QED BY <1>1, <3>1, <3>2, QueueAdvances
  <2>2. 0 \in 0..Len(events') /\ 1..Len(events') \subseteq 0..Len(events')
    BY <1>3, LenProperties DEF TypeOK
  <2> QED BY <1>1, <2>1, <2>2 DEF LinkEvents
<1>5. Armed'
  BY <1>1, <1>2 DEF IInv, Armed
<1> QED BY <1>1, <1>3, <1>4, <1>5 DEF IInv, Phase, Ahead, Wanted

LEMMA DriverSteps ==
  ASSUME IInv, Driver
  PROVE  IInv'
<1>1. UNCHANGED <<pc, attempt, bits, listVars, shared, handler, configured,
                  histVars>>
  BY DEF Driver, DriverAssociates, DriverGetsIp, DriverDisconnects
<1>2. /\ events' \in Seq({"DISCONNECTED", "GOT_IP"})
      /\ sta' \in {"idle", "assoc", "ip"} /\ LinkEvents'
  <2>1. CASE DriverAssociates
    BY <2>1, LinkKept DEF DriverAssociates, IInv, TypeOK
  <2>2. CASE DriverGetsIp
    BY <2>2, AppendProperties DEF DriverGetsIp, IInv, TypeOK, LinkEvents
  <2>3. CASE DriverDisconnects
    BY <2>3, LinkDownKeeps DEF DriverDisconnects
  <2> QED BY <2>1, <2>2, <2>3 DEF Driver
<1> QED BY <1>1, <1>2 DEF IInv, TypeOK, Phase, Armed, Ahead, Wanted

-----------------------------------------------------------------------------
(* The main task *)

\* wifi_creds_wait_for_connection arms the handler, waits and disarms it.
LEMMA AttemptSteps ==
  ASSUME IInv,
         Check \/ Arm \/ Connect \/ EnterWait \/ Timeout \/ Disarm \/ Breather
  PROVE  IInv'
<1>1. UNCHANGED <<listVars, connected_bit, handler, configured, events,
                  histVars>>
  BY DEF Check, Arm, Connect, EnterWait, Timeout, Disarm, Breather,
         EspWifiConnect
<1>2. /\ pc' \in Points /\ bits' \in BOOLEAN /\ s_is_connecting' \in BOOLEAN
  BY DEF Check, Arm, Connect, EnterWait, Timeout, Disarm, Breather, IInv, TypeOK
<1>3. sta' = sta \/ (sta = "idle" /\ sta' = "connecting")
  BY DEF Check, Arm, Connect, EnterWait, Timeout, Disarm, Breather,
         EspWifiConnect
<1>4. attempt' \in 0..MaxAttempts /\ Phase'
  <2>1. CASE Breather
    BY <2>1 DEF Breather, IInv, TypeOK, Phase
  <2>2. CASE Check \/ Arm \/ Connect \/ EnterWait \/ Timeout \/ Disarm
    BY <2>2 DEF Check, Arm, Connect, EnterWait, Timeout, Disarm, IInv, TypeOK,
                Phase
  <2> QED BY <2>1, <2>2
<1>5. TypeOK'
  BY <1>1, <1>2, <1>3, <1>4 DEF IInv, TypeOK
<1>6. LinkEvents'
  BY <1>1, <1>3, LinkKept
<1>7. Armed'
  BY <1>1 DEF Check, Arm, Connect, EnterWait, Timeout, Disarm, Breather, IInv,
              Armed
<1>8. Ahead'
  BY <1>1 DEF Check, Arm, Connect, EnterWait, Timeout, Disarm, Breather, IInv,
              Phase, Ahead, Wanted
<1> QED BY <1>4, <1>5, <1>6, <1>7, <1>8 DEF IInv

\* The list of the scan holds every network that will be asked of the loop.
LEMMA ScanSteps ==
  ASSUME IInv,
         \/ \E readable \in SUBSET Networks : Load(readable)
         \/ \E seen \in SUBSET networks : Scan(seen)
  PROVE  IInv'
<1>1. /\ UNCHANGED <<attempt, bits, shared, handler, driverVars, tried,
                     refused, got_ip, late>>
      /\ pc' \in {"fail", "scan", "arm_best"} /\ pc \in {"load", "scan"}
      /\ networks' \subseteq Networks /\ visible' \subseteq Networks
  BY DEF Load, Scan, IInv, TypeOK
<1>2. CASE \E readable \in SUBSET Networks : Load(readable)
  BY <1>1, <1>2, LinkKept DEF Load, IInv, TypeOK, Phase, Armed, Ahead, Wanted
<1>3. CASE \E seen \in SUBSET networks : Scan(seen)
  <2>1. /\ pc' = "arm_best" /\ networks # {} /\ UNCHANGED networks
        /\ networks \subseteq Networks /\ networks \subseteq Nat
        /\ visible' \subseteq networks
        /\ cands' \in IF visible' = {} THEN {<<First(networks)>>}
                                       ELSE Orders(visible')
    BY <1>3 DEF Scan, IInv, TypeOK, Phase
  <2>2. /\ cands' \in Seq(Networks) /\ cands' # <<>>
        /\ Distinct(cands') /\ Listed(cands') = Wanted'
    <3>1. CASE visible' = {}
      <4>1. First(networks) \in Networks /\ cands' = <<First(networks)>>
        BY <2>1, <3>1, FirstProperties
      <4>2. Len(cands') = 1 /\ cands'[1] = First(networks) /\ 1 \in 1..1
        BY <4>1
      <4> QED BY <2>1, <3>1, <4>1, <4>2 DEF Wanted, Distinct, Listed
    <3>2. CASE visible' # {}
      BY <2>1, <3>2, OrdersProperties DEF Wanted
    <3> QED BY <3>1, <3>2
  <2>3. TypeOK'
    BY <1>1, <2>1, <2>2 DEF IInv, TypeOK
  <2> QED BY <1>1, <1>3, <2>1, <2>2, <2>3, LinkKept
          DEF Scan, IInv, Phase, Armed, Ahead
<1> QED BY <1>2, <1>3

\* A network is given to the driver and asked for.
LEMMA TrySteps ==
  ASSUME IInv,
         ArmBest \/ Disconnect \/ SetConfigOk \/ ConnectBest \/ ClearConnected
  PROVE  IInv'
<1>1. /\ UNCHANGED <<attempt, bits, listVars, handler, visible, refused,
                     got_ip, late>>
      /\ pc' \in {"disconnect", "set_config", "connect_best", "clear",
                  "wait_call"}
      /\ pc \in {"arm_best", "disconnect", "set_config", "connect_best",
                 "clear"}
  BY DEF ArmBest, Disconnect, SetConfigOk, ConnectBest, ClearConnected
<1>2. /\ cands \in Seq(Networks) /\ cands # <<>>
      /\ Head(cands) \in Networks /\ Head(cands) \in Listed(cands)
  BY <1>1, DropHead DEF IInv, TypeOK, Phase, Ahead
<1>3. /\ s_is_connecting' \in BOOLEAN /\ connected_bit' \in BOOLEAN
      /\ configured' \in BOOLEAN
  BY Zenon DEF ArmBest, Disconnect, SetConfigOk, ConnectBest, ClearConnected,
               EspWifiConnect, IInv, TypeOK
<1>4. /\ events' \in Seq({"DISCONNECTED", "GOT_IP"}) /\ LinkEvents'
      /\ sta' \in {"idle", "connecting", "assoc", "ip"}
  <2>1. CASE Disconnect
    BY <2>1, LinkKept, LinkDownKeeps DEF Disconnect, IInv, TypeOK
  <2>2. CASE ArmBest \/ SetConfigOk \/ ConnectBest \/ ClearConnected
    BY <2>2, LinkKept DEF ArmBest, SetConfigOk, ConnectBest, ClearConnected,
                          EspWifiConnect, IInv, TypeOK
  <2> QED BY <2>1, <2>2
<1>5. /\ tried' = IF pc = "connect_best" THEN tried \cup {Head(cands)}
                                        ELSE tried
      /\ tried' \subseteq Networks
  BY <1>2 DEF ArmBest, Disconnect, SetConfigOk, ConnectBest, ClearConnected,
              IInv, TypeOK
<1>6. TypeOK'
  BY <1>1, <1>3, <1>4, <1>5 DEF IInv, TypeOK
<1>7. Phase' /\ Armed'
  BY <1>1, <1>2 DEF IInv, Phase, Armed
<1>8. Ahead'
  <2>1. Wanted' = Wanted /\ Asked' = (pc \in {"connect_best", "clear"})
    BY <1>1 DEF ArmBest, Disconnect, SetConfigOk, ConnectBest, ClearConnected,
                Wanted
  <2> QED BY <1>1, <1>2, <1>5, <2>1 DEF IInv, Ahead
<1> QED BY <1>4, <1>6, <1>7, <1>8 DEF IInv

\* The loop goes on only past a network that has been tried or refused.
LEMMA ContinueSteps ==
  ASSUME IInv, SetConfigFails \/ ConnectBestFails \/ BestTimedOut
  PROVE  IInv'
<1>1. /\ UNCHANGED <<attempt, bits, shared, handler, driverVars, visible,
                     networks, got_ip, late>>
      /\ cands' = Tail(cands)
      /\ pc' = IF cands' = <<>> THEN "disarm_best" ELSE "disconnect"
      /\ pc \in {"set_config", "connect_best", "woken"} /\ Trying
  BY DEF SetConfigFails, ConnectBestFails, PassOver, BestTimedOut, NextNetwork
<1>2. cands \in Seq(Networks) /\ cands # <<>>
  BY <1>1 DEF IInv, TypeOK, Phase
<1>3. /\ Distinct(cands) /\ Head(cands) \in Networks
      /\ Head(cands) \in Listed(cands) /\ cands' \in Seq(Networks)
      /\ Distinct(cands') /\ Listed(cands') = Listed(cands) \ {Head(cands)}
  BY <1>1, <1>2, DropHead DEF IInv, Ahead
<1>4. /\ tried' = tried
      /\ refused' = IF Asked THEN refused ELSE refused \cup {Head(cands)}
  BY DEF SetConfigFails, ConnectBestFails, PassOver, BestTimedOut
<1>5. /\ Wanted = tried' \cup refused' \cup Listed(cands')
      /\ tried' \cap refused' = {} /\ refused' \cap Listed(cands') = {}
      /\ tried' \cap Listed(cands') = {}
  BY <1>1, <1>3, <1>4 DEF IInv, Ahead
<1>6. Wanted' = Wanted
  BY <1>1 DEF Wanted
<1>7. TypeOK'
  BY <1>1, <1>3, <1>4 DEF IInv, TypeOK
<1>8. LinkEvents' /\ Phase' /\ Armed'
  BY <1>1, <1>2, LinkKept DEF IInv, Phase, Armed
<1>9. Ahead'
  <2>1. CASE cands' = <<>>
    <3>1. Listed(cands') = {}
      BY <2>1 DEF Listed
    <3> QED BY <1>1, <1>5, <1>6, <2>1, <3>1 DEF Ahead
  <2>2. CASE cands' # <<>>
    BY <1>1, <1>3, <1>5, <1>6, <2>2 DEF Ahead
  <2> QED BY <2>1, <2>2
<1> QED BY <1>7, <1>8, <1>9 DEF IInv

LEMMA ReturnSteps ==
  ASSUME IInv, BestConnected \/ DisarmBest
  PROVE  IInv'
<1>1. /\ UNCHANGED <<attempt, bits, listVars, connected_bit, handler,
                     driverVars, histVars>>
      /\ pc' \in {"ok", "fail"} /\ (pc' = "fail" => pc = "disarm_best")
      /\ ~s_is_connecting' /\ ~Returned
  BY DEF BestConnected, DisarmBest
<1>2. s_is_connecting' \in BOOLEAN
  BY Zenon DEF BestConnected, DisarmBest
<1>3. TypeOK'
  BY <1>1, <1>2 DEF IInv, TypeOK
<1>4. LinkEvents'
  BY <1>1, LinkKept
<1>5. Phase' /\ Armed'
  BY <1>1 DEF IInv, Phase, Armed
<1>6. Ahead'
  BY <1>1 DEF IInv, Ahead, Wanted
<1> QED BY <1>3, <1>4, <1>5, <1>6 DEF IInv

LEMMA InitInv == Init => IInv
<1> SUFFICES ASSUME Init PROVE IInv
  OBVIOUS
<1>1. TypeOK
  <2>1. /\ bits \in BOOLEAN /\ s_is_connecting \in BOOLEAN
        /\ connected_bit \in BOOLEAN /\ got_ip \in BOOLEAN
    BY Zenon DEF Init
  <2>2. 0 \in 0..MaxAttempts
    OBVIOUS
  <2> QED BY <2>1, <2>2 DEF Init, TypeOK
<1> QED BY <1>1 DEF Init, IInv, Phase, LinkEvents, Armed, Ahead

LEMMA StepInv == IInv /\ [Next]_vars => IInv'
<1> SUFFICES ASSUME IInv, [Next]_vars PROVE IInv'
  OBVIOUS
<1>1. CASE UNCHANGED vars
  BY <1>1 DEF vars, IInv, TypeOK, Phase, LinkEvents, DownAfter, Armed, Ahead,
              Wanted
<1>2. CASE Main
  BY <1>2, AttemptSteps, ScanSteps, TrySteps, ContinueSteps, ReturnSteps
     DEF Main
<1>3. CASE Handler
  BY <1>3, HandleDisconnectedStep, HandlerRetryStep, HandleGotIpStep DEF Handler
<1>4. CASE Driver
  BY <1>4, DriverSteps
<1> QED BY <1>1, <1>2, <1>3, <1>4 DEF Next

LEMMA Invariance == Spec => []IInv
  BY InitInv, StepInv, PTL DEF Spec

-----------------------------------------------------------------------------
(* Theorems *)

\* Every variable keeps its range; connect_to_wifi_with_feedback makes at most
\* MaxAttempts attempts.
THEOREM TypeCorrect == Spec => []TypeOK
  BY Invariance, PTL DEF IInv

\* While CONNECTED_BIT is set the station has its address, or the
\* STA_DISCONNECTED event that clears the bit is in the queue.
THEOREM BitIsTrueOrDoomed == Spec => []BitTracksLink
<1>1. IInv => BitTracksLink
  BY LenProperties DEF IInv, TypeOK, LinkEvents, DownAfter, BitTracksLink
<1> QED BY <1>1, Invariance, PTL

\* After the function has returned wifi_event_handler begins at most the one
\* reconnection it had already decided on.
THEOREM HandlerIsDisarmed == Spec => []AtMostOneLateRetry
<1>1. IInv => AtMostOneLateRetry
  BY DEF IInv, Armed, AtMostOneLateRetry
<1> QED BY <1>1, Invariance, PTL

\* When wifi_creds_connect_best gives up, the networks of the scan (the first
\* saved one when it saw none) are exactly those it handed to esp_wifi_connect
\* and those a driver call refused, and none was both.
THEOREM NetworksAccountedFor == Spec => []FailAccountsForAll
<1>1. IInv => FailAccountsForAll
  BY DEF IInv, Ahead, Wanted, FailAccountsForAll
<1> QED BY <1>1, Invariance, PTL
=============================================================================
