-------------------------------- MODULE ClockSync --------------------------------
(***************************************************************************)
(* The clock synchronisation firmware: a master and slaves in a chain, all *)
(* in reach of each other, each slave taking the time of one sender only   *)
(* (listeningId).                                                          *)
(*                                                                         *)
(* millis() counts from the boot of each device, and wraps; the crystals   *)
(* are taken to be equal.  A device transmits every PAUSE or when its      *)
(* button is pressed, that is at any time.  A packet is on air for AirTime *)
(* units, during which its sender hears nothing.  The loop is quick        *)
(* against the time on air.  The drift factor is smoothed towards the      *)
(* quotient of the elapsed times: it is "one" as long as every quotient    *)
(* was one, and "off" after any other, and then the corrected time may be  *)
(* anything.                                                               *)
(***************************************************************************)
EXTENDS Integers

CONSTANTS Slaves,     \* the length of the chain; 0 is the master
          AirTime,    \* transmissionTime
          Wrap,       \* unsigned long wraps here
          BootDelay,  \* bound: each device is switched on so long after the one before
          MaxFaults   \* bound: reboots and packets without a delimiter

ASSUME ClockSyncAssumption ==
  /\ {Slaves, BootDelay, MaxFaults} \subseteq Nat
  /\ {AirTime, Wrap} \subseteq Nat \ {0}

Chain == 1..Slaves
Devices == 0..Slaves
Listens(d) == d - 1              \* listeningId
Times == 0..(Wrap - 1)

VARIABLES millis,                       \* since boot
          lastSyncTime, lastMasterTime, drift,
          receiving,                    \* the radio is in receive mode
          air,                          \* packets on air, by their sender
          foreign,                      \* history: a slave took a time that is not the
                                        \* master's, or has no interval to compare
          synced,                       \* history: it has taken one
          faults

clockVars == <<lastSyncTime, lastMasterTime, drift>>
history == <<foreign, synced>>
syncVars == <<millis, clockVars, receiving, air, history, faults>>

NoPacket == [left |-> 0]
OnAir(d) == air[d] # NoPacket

SyncInit ==
  /\ millis = [d \in Devices |-> (-(d * BootDelay)) % Wrap]
  /\ lastSyncTime = [d \in Chain |-> 0] /\ lastMasterTime = [d \in Chain |-> 0]
  /\ drift = [d \in Chain |-> "one"]
  /\ receiving = [d \in Chain |-> TRUE]
  /\ air = [d \in Devices |-> NoPacket]
  /\ foreign = [d \in Chain |-> FALSE] /\ synced = [d \in Chain |-> FALSE]
  /\ faults = 0

-------------------------------------------------------------------------------
(* getSlaveTime: with a factor of one, the time elapsed since the last     *)
(* synchronisation is added as it is.                                      *)
SlaveTimes(d) ==
  IF drift[d] = "one"
    THEN {(lastMasterTime[d] + millis[d] - lastSyncTime[d]) % Wrap}
    ELSE Times

\* slip: the time on air is not added
MasterTimeAtStart == millis[0]

MasterTime == (millis[0] + AirTime) % Wrap

(* A slave forwards its time whether it was ever synchronised or not, and  *)
(* does not add the time on air.  The last slave sends to nobody: its time *)
(* is left out.                                                            *)
SentTimes(d) ==
  CASE d = 0 -> {MasterTime}
    [] d \in 1..(Slaves - 1) -> SlaveTimes(d)
    [] OTHER -> {0}

(* The interrupt is off during the transmission and the receiver is in use *)
(* by it: the packets on air are lost to the sender.  It receives again    *)
(* afterwards.                                                             *)
Transmit(d) ==
  /\ ~OnAir(d)
  /\ \E t \in SentTimes(d) :
       air' = [e \in Devices |->
                 IF e = d
                   THEN [left |-> AirTime, time |-> t,
                         ears |-> {r \in Chain \ {d} : receiving[r] /\ ~OnAir(r)},
                         foreign |-> d \in 1..(Slaves - 1) /\ (foreign[d] \/ ~synced[d])]
                   ELSE IF OnAir(e) THEN [air[e] EXCEPT !.ears = @ \ {d}] ELSE air[e]]
  /\ receiving' = [r \in Chain |-> receiving[r] /\ r # d]
  /\ UNCHANGED <<millis, clockVars, history, faults>>

-------------------------------------------------------------------------------
(* The counter stands where it was: the quotient is a division by zero.    *)
NoInterval(d) == lastSyncTime[d] # 0 /\ millis[d] = lastSyncTime[d]

(* Only a later synchronisation has an interval to compare, and one made   *)
(* at millis() 0 counts as none.                                           *)
Drift(d, t) ==
  IF \/ lastSyncTime[d] = 0
     \/ /\ ~NoInterval(d)
        /\ (t - lastMasterTime[d]) % Wrap = (millis[d] - lastSyncTime[d]) % Wrap
    THEN drift[d] ELSE "off"

(* synchronizeClock for the slaves that take the time t.                   *)
Synchronise(takers, t, isForeign) ==
  /\ drift' = [d \in Chain |-> IF d \in takers THEN Drift(d, t) ELSE drift[d]]
  /\ lastSyncTime' = [d \in Chain |-> IF d \in takers THEN millis[d] ELSE lastSyncTime[d]]
  /\ lastMasterTime' = [d \in Chain |-> IF d \in takers THEN t ELSE lastMasterTime[d]]
  /\ foreign' = [d \in Chain |-> foreign[d] \/ (d \in takers /\ (isForeign \/ NoInterval(d)))]
  /\ synced' = [d \in Chain |-> synced[d] \/ d \in takers]

(* A packet ends.  Any of those that can hear it may, and then heard no    *)
(* other; one that does not listen to the sender returns from the loop     *)
(* without startReceive, after a read that may have left receive mode.     *)
Land(d) ==
  /\ OnAir(d) /\ air[d].left = 0
  /\ \E hearers \in SUBSET air[d].ears :
       LET takers == {r \in hearers : Listens(r) = d}
       IN  /\ Synchronise(takers, air[d].time, air[d].foreign)
           /\ \E stopped \in SUBSET (hearers \ takers) :
                receiving' = [r \in Chain |-> r = d \/ (receiving[r] /\ r \notin stopped)]
           /\ air' = [e \in Devices |->
                IF e = d \/ ~OnAir(e) THEN NoPacket
                ELSE [air[e] EXCEPT !.ears = @ \ hearers]]
  /\ UNCHANGED <<millis, faults>>

Fault == faults < MaxFaults /\ faults' = faults + 1

(* A packet of another system without the delimiter is reported and then   *)
(* taken for the time 0.                                                   *)
TakeZero(d) ==
  /\ Fault
  /\ receiving[d] /\ ~OnAir(d)
  /\ Synchronise({d}, 0, TRUE)
  /\ UNCHANGED <<millis, receiving, air>>

Elapse ==
  /\ \A d \in Devices : OnAir(d) => air[d].left > 0
  /\ millis' = [d \in Devices |-> (millis[d] + 1) % Wrap]
  /\ air' = [d \in Devices |-> IF OnAir(d) THEN [air[d] EXCEPT !.left = @ - 1] ELSE NoPacket]
  /\ UNCHANGED <<clockVars, receiving, history, faults>>

(* setup, after a loss of power.                                           *)
RebootSlave(d) ==
  /\ Fault
  /\ millis' = [millis EXCEPT ![d] = 0]
  /\ lastSyncTime' = [lastSyncTime EXCEPT ![d] = 0]
  /\ lastMasterTime' = [lastMasterTime EXCEPT ![d] = 0]
  /\ drift' = [drift EXCEPT ![d] = "one"]
  /\ receiving' = [receiving EXCEPT ![d] = TRUE]
  /\ air' = [e \in Devices |->
       IF e = d \/ ~OnAir(e) THEN NoPacket ELSE [air[e] EXCEPT !.ears = @ \ {d}]]
  /\ foreign' = [foreign EXCEPT ![d] = FALSE]
  /\ synced' = [synced EXCEPT ![d] = FALSE]

(* The times of a master that has started again are not those of before.   *)
RebootMaster ==
  /\ Fault
  /\ millis' = [millis EXCEPT ![0] = 0]
  /\ air' = [d \in Devices |->
       IF d = 0 \/ ~OnAir(d) THEN NoPacket ELSE [air[d] EXCEPT !.foreign = TRUE]]
  /\ foreign' = [d \in Chain |-> foreign[d] \/ synced[d]]
  /\ UNCHANGED <<clockVars, receiving, synced>>

SyncNext ==
  \/ \E d \in Devices : Transmit(d) \/ Land(d)
  \/ \E d \in Chain : TakeZero(d) \/ RebootSlave(d)
  \/ Elapse \/ RebootMaster

SyncSpec == SyncInit /\ [][SyncNext]_syncVars

-------------------------------------------------------------------------------
(* A slave whose times all came from the master, through relays that were  *)
(* synchronised when they sent them, is behind the master by exactly one   *)
(* time on air for each relay between, whatever packets were lost, missed  *)
(* while it was sending itself, or taken before the clocks wrapped: unless *)
(* two came with the counter at the same value, a whole wrap apart.        *)
LagIsRelays ==
  \A d \in Chain :
    (synced[d] /\ ~foreign[d]) =>
      SlaveTimes(d) = {(millis[0] - (d - 1) * AirTime) % Wrap}
===============================================================================
