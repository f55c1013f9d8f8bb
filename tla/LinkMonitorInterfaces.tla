------------------------- MODULE LinkMonitorInterfaces -------------------------
(***************************************************************************)
(* The interfaces LinkMonitor watches: link and address events and the     *)
(* periodic snapshot of netlink, the exponential backoff of an interface   *)
(* that flaps, and the interfaces and subnets it advertises to Spark and   *)
(* to PrefixManager (openr/link-monitor/LinkMonitor.cpp, InterfaceEntry.cpp,*)
(* openr/common/ExponentialBackoff.cpp, AsyncThrottle.cpp).                *)
(*                                                                         *)
(* Time is counted in ticks.  A timer is the number of ticks it has left,  *)
(* Off when it is not scheduled; the age of an error is capped beyond the  *)
(* largest backoff, which also stands for the epoch reportSuccess sets.    *)
(* An interface keeps its index and name.  The snapshot is read in two     *)
(* parts, links and addresses, and the fiber that waits for them lets      *)
(* events be handled in between.                                           *)
(***************************************************************************)
EXTENDS Integers, Sequences, FiniteSetsExt

CONSTANTS Ifs, Addrs,
          Subnet,            \* address -> its subnet, NoSubnet if it is not global
          NoSubnet,
          DiscoverIfs,       \* interfaces some area discovers neighbours on
          RedistAreas,       \* interface -> areas that redistribute its addresses
          Homes,             \* interface -> addresses it may have
          UpAtStart,         \* interfaces up, with their addresses, when LinkMonitor starts
          IfScenes,          \* [links, addrs, changes]: which interfaces flap, which change
                             \* addresses, and a bound on how often
          InitBackoff, MaxBackoff, LinkThrottle, DiscoveryTimeout,
          MaxLost, MaxSyncs   \* bounds

ASSUME BackoffAssumption == InitBackoff \in Nat \ {0} /\ MaxBackoff \in Nat /\ InitBackoff <= MaxBackoff

VARIABLES ifKernel,     \* the system's links and addresses
          ifQueue,      \* netlinkEventsQueue
          ifMon,        \* interfaces_, the throttle and the timer
          ifIndexes,    \* ifIndexToName_
          ifTold,       \* Spark's view: interface -> "unknown", "up", "down"
          ifPrefixes,   \* advertisedPrefixes_
          ifPrefixDb,   \* PrefixManager's LOOPBACK prefixes: subnet -> areas
          ifSync,       \* the snapshot being read
          ifHist        \* history and bounds

ifVars == <<ifKernel, ifQueue, ifMon, ifIndexes, ifTold, ifPrefixes, ifPrefixDb, ifSync, ifHist>>

Off == -1
OldAge == MaxBackoff + 1
Subnets == {Subnet[a] : a \in Addrs} \ {NoSubnet}
Watched == {i \in Ifs : i \in DiscoverIfs \/ RedistAreas[i] # {}}

NewEntry == [known |-> FALSE, isUp |-> FALSE, nets |-> {}, backoff |-> 0, age |-> OldAge]

(* ExponentialBackoff: what is left of it, a further error, and no error for longer than the maximum. *)
getTimeRemainingUntilRetry(e) == Max({0, e.backoff - e.age})
reportError_NoDoubling(e) == [e EXCEPT !.age = 0, !.backoff = InitBackoff]
reportError(e) ==
  [e EXCEPT !.age = 0,
            !.backoff = IF e.backoff = 0 THEN InitBackoff ELSE Min({MaxBackoff, 2 * e.backoff})]
reportSuccess(e) == [e EXCEPT !.age = OldAge, !.backoff = 0]

(* isActive has a side effect: it forgets errors older than the maximal backoff. *)
isActive(e) == e.isUp /\ getTimeRemainingUntilRetry(e) = 0
isActiveEffect(e) == IF e.isUp /\ e.age > MaxBackoff THEN reportSuccess(e) ELSE e

(* AsyncThrottle: a call while it is scheduled changes nothing. *)
callThrottle(s) == IF s.throttle # Off THEN s ELSE [s EXCEPT !.throttle = LinkThrottle]

updateAttrs_DownOnly(s, i, up) ==
  LET e == isActiveEffect(s.entry[i])
      e1 == [e EXCEPT !.isUp = up, !.known = TRUE]
      e2 == IF e.isUp /\ ~up THEN reportError(e1) ELSE e1
      s1 == [s EXCEPT !.entry[i] = e2]
  IN IF isActive(e) /\ ~up THEN [s1 EXCEPT !.timer = 0] ELSE s1
updateAttrs(s, i, up) ==
  LET e == isActiveEffect(s.entry[i])
      wasUp == e.isUp
      e1 == [e EXCEPT !.isUp = up, !.known = TRUE]
      e2 == IF wasUp /\ ~up THEN reportError(e1) ELSE e1
      s1 == [s EXCEPT !.entry[i] = e2]
      s2 == IF isActive(e) /\ ~up THEN [s1 EXCEPT !.timer = 0] ELSE s1
  IN IF wasUp # up \/ ~e.known THEN callThrottle(s2) ELSE s2

updateAddr(s, i, a, valid) ==
  LET e == s.entry[i]
      nets == IF valid THEN e.nets \cup {a} ELSE e.nets \ {a}
      s1 == [s EXCEPT !.entry[i].nets = nets, !.entry[i].known = TRUE]
  IN IF nets = e.nets THEN s1
     ELSE LET s2 == [s1 EXCEPT !.entry[i] = isActiveEffect(@)]
          IN IF isActive(e) THEN callThrottle(s2) ELSE s2

--------------------------------------------------------------------------------
InterfacesInit ==
  /\ ifKernel = [i \in Ifs |-> IF i \in UpAtStart THEN [up |-> TRUE, nets |-> Homes[i]]
                               ELSE [up |-> FALSE, nets |-> {}]]
  /\ ifQueue = <<>>
  /\ ifMon = [entry |-> [i \in Ifs |-> NewEntry], throttle |-> Off, timer |-> DiscoveryTimeout]
  /\ ifIndexes = {}
  /\ ifTold = [i \in Ifs |-> "unknown"]
  /\ ifPrefixes = {}
  /\ ifPrefixDb = [n \in Subnets |-> {}]
  /\ ifSync = [stage |-> "sleep", up |-> {}, nets |-> {}]
  /\ \E scene \in IfScenes : ifHist = [scene |-> scene, quiet |-> [i \in Ifs |-> OldAge], flaps |-> [i \in Ifs |-> 0],
               hold |-> TRUE, taken |-> FALSE, stale |-> TRUE, changes |-> 0, lost |-> 0, syncs |-> 0]

(* The system changes a link or an address and sends an event, which the socket may lose. *)
Notify(event) ==
  \/ /\ ifQueue' = Append(ifQueue, event)
     /\ ifHist' = [ifHist EXCEPT !.changes = @ + 1]
  \/ /\ ifHist.lost < MaxLost
     /\ ifHist' = [ifHist EXCEPT !.changes = @ + 1, !.lost = @ + 1, !.stale = TRUE, !.taken = TRUE]
     /\ UNCHANGED ifQueue

ChangeLink(i) ==
  /\ i \in ifHist.scene.links /\ ifHist.changes < ifHist.scene.changes
  /\ ifKernel' = [ifKernel EXCEPT ![i].up = ~@]
  /\ Notify([type |-> "link", i |-> i, up |-> ~ifKernel[i].up])
  /\ UNCHANGED <<ifMon, ifIndexes, ifTold, ifPrefixes, ifPrefixDb, ifSync>>

ChangeAddress(i) ==
  /\ i \in ifHist.scene.addrs /\ ifHist.changes < ifHist.scene.changes
  /\ \E a \in Homes[i] :
       LET valid == a \notin ifKernel[i].nets IN
       /\ ifKernel' = [ifKernel EXCEPT ![i].nets = IF valid THEN @ \cup {a} ELSE @ \ {a}]
       /\ Notify([type |-> "addr", i |-> i, a |-> a, valid |-> valid])
  /\ UNCHANGED <<ifMon, ifIndexes, ifTold, ifPrefixes, ifPrefixDb, ifSync>>

(* History: the downs the monitor saw, one after the other within the maximal backoff. *)
Flap(h, i, s, t) ==
  IF s.entry[i].isUp /\ ~t.entry[i].isUp
  THEN [h EXCEPT !.quiet[i] = 0, !.flaps[i] = IF h.quiet[i] > MaxBackoff THEN 1 ELSE h.flaps[i] + 1]
  ELSE h

ProcessLinkEvent ==
  /\ ifQueue # <<>>
  /\ LET ev == Head(ifQueue) IN
     /\ ev.type = "link"
     /\ ifIndexes' = ifIndexes \cup {ev.i}
     /\ ifMon' = IF ev.i \in Watched THEN updateAttrs(ifMon, ev.i, ev.up) ELSE ifMon
     /\ ifHist' = [Flap(ifHist, ev.i, ifMon, ifMon') EXCEPT !.taken = TRUE]
  /\ ifQueue' = Tail(ifQueue)
  /\ UNCHANGED <<ifKernel, ifTold, ifPrefixes, ifPrefixDb, ifSync>>

(* An address of an index never seen is dropped. *)
ProcessAddressEvent ==
  /\ ifQueue # <<>>
  /\ LET ev == Head(ifQueue) IN
     /\ ev.type = "addr"
     /\ ifMon' = IF ev.i \in ifIndexes \cap Watched THEN updateAddr(ifMon, ev.i, ev.a, ev.valid) ELSE ifMon
  /\ ifHist' = [ifHist EXCEPT !.taken = TRUE]
  /\ ifQueue' = Tail(ifQueue)
  /\ UNCHANGED <<ifKernel, ifIndexes, ifTold, ifPrefixes, ifPrefixDb, ifSync>>

(* syncInterfaces: netlink answers with the links, then with the addresses; then the entries *)
(* are updated.  A timeout or an error leaves them alone, and the task tries again. *)
ReadLinks ==
  /\ ifSync.stage = "sleep" /\ ifHist.syncs < MaxSyncs
  /\ ifSync' = [ifSync EXCEPT !.stage = "links", !.up = {i \in Ifs : ifKernel[i].up}]
  /\ ifHist' = [ifHist EXCEPT !.taken = ifQueue # <<>>, !.syncs = @ + 1]
  /\ UNCHANGED <<ifKernel, ifQueue, ifMon, ifIndexes, ifTold, ifPrefixes, ifPrefixDb>>

ReadAddresses ==
  /\ ifSync.stage = "links"
  /\ ifSync' = [ifSync EXCEPT !.stage = "addrs", !.nets = {p \in Ifs \X Addrs : p[2] \in ifKernel[p[1]].nets}]
  /\ UNCHANGED <<ifKernel, ifQueue, ifMon, ifIndexes, ifTold, ifPrefixes, ifPrefixDb, ifHist>>

syncEntry(s, i, up, nets) ==
  LET old == s.entry[i].nets
      s1 == updateAttrs(s, i, up)
      s2 == FoldSet(LAMBDA a, t : updateAddr(t, i, a, FALSE), s1, old \ nets)
  IN FoldSet(LAMBDA a, t : updateAddr(t, i, a, TRUE), s2, nets \ old)

SyncInterfaces ==
  /\ ifSync.stage = "addrs"
  /\ ifMon' = FoldSet(LAMBDA i, s : syncEntry(s, i, i \in ifSync.up, {a \in Addrs : <<i, a>> \in ifSync.nets}),
                      ifMon, Watched)
  /\ ifIndexes' = Ifs
  /\ ifSync' = [stage |-> "sleep", up |-> {}, nets |-> {}]
  /\ ifHist' = [FoldSet(LAMBDA i, h : Flap(h, i, ifMon, ifMon'), ifHist, Ifs)
                  EXCEPT !.stale = ifHist.taken, !.taken = FALSE]
  /\ UNCHANGED <<ifKernel, ifQueue, ifTold, ifPrefixes, ifPrefixDb>>

SyncFails ==
  /\ ifSync.stage # "sleep"
  /\ ifSync' = [stage |-> "sleep", up |-> {}, nets |-> {}]
  /\ UNCHANGED <<ifKernel, ifQueue, ifMon, ifIndexes, ifTold, ifPrefixes, ifPrefixDb, ifHist>>

--------------------------------------------------------------------------------
(* The loop overwrites minRemainMs with every interface in backoff: the last one of the map counts. *)
getRetryTimeOnUnstableInterfaces(s) ==
  LET unstable == {i \in Ifs : s.entry[i].known /\ ~isActive(s.entry[i]) /\ getTimeRemainingUntilRetry(s.entry[i]) > 0}
  IN IF unstable = {} THEN {0}
     ELSE {Min({MaxBackoff, getTimeRemainingUntilRetry(s.entry[i])}) : i \in unstable}

(* Interfaces whose subnets are redistributed; of two with one subnet, the first of the map decides. *)
HoldersOf(s, n) ==
  {i \in Ifs : s.entry[i].known /\ isActive(s.entry[i]) /\ RedistAreas[i] # {}
               /\ \E a \in s.entry[i].nets : Subnet[a] = n}

(* advertiseRedistAddrs: withdraw what is no longer advertised, then announce everything with its areas. *)
advertiseRedistAddrs(s) ==
  LET now == {n \in Subnets : HoldersOf(s, n) # {}} IN
  /\ \E holder \in [now -> Ifs] :
       /\ \A n \in now : holder[n] \in HoldersOf(s, n)
       /\ ifPrefixDb' = [n \in Subnets |-> IF n \in now THEN RedistAreas[holder[n]]
                                           ELSE IF n \in ifPrefixes THEN {} ELSE ifPrefixDb[n]]
  /\ ifPrefixes' = now

advertiseInterfaces(s) ==
  ifTold' = [i \in Ifs |-> IF ~s.entry[i].known \/ i \notin DiscoverIfs THEN ifTold[i]
                           ELSE IF isActive(s.entry[i]) THEN "up" ELSE "down"]

advertiseIfaceAddr(s) ==
  \E retry \in getRetryTimeOnUnstableInterfaces(s) :
    /\ advertiseInterfaces(s)
    /\ advertiseRedistAddrs(s)
    /\ ifMon' = [entry |-> [i \in Ifs |-> isActiveEffect(s.entry[i])],
                 throttle |-> Off,
                 timer |-> IF retry # 0 THEN retry ELSE s.timer]
    /\ UNCHANGED <<ifKernel, ifQueue, ifIndexes, ifSync, ifHist>>

ThrottleFires == ifMon.throttle = 0 /\ advertiseIfaceAddr([ifMon EXCEPT !.throttle = Off])
TimerFires == ifMon.timer = 0 /\ advertiseIfaceAddr([ifMon EXCEPT !.timer = Off])

(* adjHoldTimer_, or KVSTORE_SYNCED before it, also advertises the subnets. *)
AdjHoldTimerFires ==
  /\ ifHist.hold
  /\ advertiseRedistAddrs(ifMon)
  /\ ifMon' = [ifMon EXCEPT !.entry = [i \in Ifs |-> isActiveEffect(@[i])]]
  /\ ifHist' = [ifHist EXCEPT !.hold = FALSE]
  /\ UNCHANGED <<ifKernel, ifQueue, ifIndexes, ifTold, ifSync>>

(* A tick of the clock; a timer that is due fires first. *)
Tick ==
  /\ ifMon.throttle # 0 /\ ifMon.timer # 0
  /\ LET Left(t) == IF t = Off THEN Off ELSE t - 1
         Older(age) == Min({OldAge, age + 1})
     IN /\ ifMon' = [entry |-> [i \in Ifs |-> [ifMon.entry[i] EXCEPT !.age = Older(@)]],
                     throttle |-> Left(ifMon.throttle), timer |-> Left(ifMon.timer)]
        /\ ifHist' = [ifHist EXCEPT !.quiet = [i \in Ifs |-> Older(ifHist.quiet[i])]]
  /\ UNCHANGED <<ifKernel, ifQueue, ifIndexes, ifTold, ifPrefixes, ifPrefixDb, ifSync>>

InterfacesNext ==
  \/ \E i \in Ifs : ChangeLink(i) \/ ChangeAddress(i)
  \/ ProcessLinkEvent \/ ProcessAddressEvent
  \/ ReadLinks \/ ReadAddresses \/ SyncInterfaces \/ SyncFails
  \/ ThrottleFires \/ TimerFires \/ AdjHoldTimerFires \/ Tick

InterfacesSpec == InterfacesInit /\ [][InterfacesNext]_ifVars

--------------------------------------------------------------------------------
(* Types, and the timers within their bounds. *)
InterfacesTypeOK ==
  /\ \A i \in Ifs : /\ ifMon.entry[i].backoff \in 0..MaxBackoff
                    /\ ifMon.entry[i].age \in 0..OldAge
                    /\ ifMon.entry[i].known => i \in Watched \cap ifIndexes
  /\ ifMon.throttle \in Off..LinkThrottle
  /\ ifMon.timer \in Off..Max({MaxBackoff, DiscoveryTimeout})
  /\ \A n \in Subnets : ifPrefixDb[n] # {} => n \in ifPrefixes

(* No wake-up is lost: while Spark's view of an interface differs from its state, or the *)
(* interface is up and still backing off, the throttle or the timer of advertiseIfaceAddr is set. *)
InterfaceChangesAreScheduled ==
  \A i \in DiscoverIfs :
    LET e == ifMon.entry[i] IN
    /\ e.known
    /\ \/ ifTold[i] # (IF isActive(e) THEN "up" ELSE "down")
       \/ e.isUp /\ ~isActive(e)
    => ifMon.throttle # Off \/ ifMon.timer # Off

(* Once neither the throttle nor the timer is set, PrefixManager has exactly the subnets of the *)
(* active interfaces, each in the areas of one of the interfaces that have an address in it. *)
SubnetsFollowInterfaces ==
  ifMon.throttle = Off /\ ifMon.timer = Off =>
    \A n \in Subnets :
      IF HoldersOf(ifMon, n) = {} THEN ifPrefixDb[n] = {}
      ELSE \E i \in HoldersOf(ifMon, n) : ifPrefixDb[n] = RedistAreas[i]

(* Flap damping: Spark hears that an interface is up again only after it was quiet for the initial *)
(* backoff doubled with every further flap within the maximal backoff, up to that maximum. *)
FlapsAreDamped ==
  [][\A i \in Ifs :
       /\ ifTold[i] # "up" /\ ifTold'[i] = "up"
       /\ ifHist.flaps[i] > 0
       => ifHist.quiet[i] >= Min({MaxBackoff, InitBackoff * 2 ^ (ifHist.flaps[i] - 1)})]_ifVars

(* A snapshot repairs lost events: after one that no event was waiting for, and during which none *)
(* was handled or lost, the entries are the system's once the events sent since are handled. *)
SnapshotRepairs ==
  ~ifHist.stale /\ ifQueue = <<>> =>
    \A i \in Watched : ifMon.entry[i].isUp = ifKernel[i].up /\ ifMon.entry[i].nets = ifKernel[i].nets

(* LinkMonitor's interfaces between two events: changes are told or scheduled, subnets follow *)
(* the interfaces and a snapshot puts lost events right (advertiseIfaceAddr, syncInterfaces). *)
InterfacesInvariant ==
  /\ InterfacesTypeOK
  /\ InterfaceChangesAreScheduled
  /\ SubnetsFollowInterfaces
  /\ SnapshotRepairs

================================================================================
