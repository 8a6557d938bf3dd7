----------------------------- MODULE NkIterate -----------------------------
(***************************************************************************)
(* The counters of the loop that runs instructions (nkvm.c): from time to  *)
(* time, every gcInterval instructions, it looks whether the host's limit  *)
(* on instructions is used up and whether enough objects have been created *)
(* for a garbage collection.                                               *)
(***************************************************************************)
EXTENDS Integers
(* An operator with an underscore in its name is a faulty variant of the   *)
(* one that follows it; no action uses it.                                 *)

CONSTANTS
  UintMax,            \* the largest nkuint32_t, which also says "no limit"
  Intervals,          \* instructions between checks, as the host sets them
  ObjectIntervals,    \* new objects between collections
  Counts,             \* limits the host sets
  LoadedIntervalMax,  \* what loading allows gcInterval to be: 65536
  MaxLoads,           \* bound: loads
  Unusual             \* "zeroInterval", "longImage": see below

NoLimit == UintMax

(* An interval of 0 makes the countdown wrap.  An image may come from a VM *)
(* whose interval is longer than loading allows.                           *)
ASSUME IterateAssumption ==
  /\ UintMax \in Nat /\ LoadedIntervalMax \in 1 .. UintMax
  /\ Intervals \subseteq 0 .. UintMax
  /\ 0 \in Intervals => "zeroInterval" \in Unusual
  /\ ObjectIntervals \subseteq 0 .. UintMax /\ ObjectIntervals # {}
  /\ Counts \subseteq 0 .. UintMax - 1
  /\ MaxLoads \in Nat
  /\ \E i \in Intervals : i # 0

VARIABLES
  interval, countdown,                \* gcInterval, gcCountdown
  objectInterval, objectCountdown,    \* gcNewObjectInterval, -Countdown
  left,        \* instructionsLeftBeforeTimeout
  pass,        \* the last bit of lastGCPass
  timedOut,    \* the error has been added: nothing runs any more
  loads,
  (* For the properties:                                                   *)
  executed,    \* instructions since the limit was set
  granted,     \* what it was set to
  slack        \* the instructions that may be executed unseen

vars == <<interval, countdown, objectInterval, objectCountdown, left, pass,
          timedOut, loads, executed, granted, slack>>

gcVars == <<interval, countdown, objectInterval, objectCountdown, pass>>
ghosts == <<executed, granted, slack>>

TypeOK ==
  /\ interval \in 0 .. UintMax /\ countdown \in 0 .. UintMax
  /\ objectInterval \in 0 .. UintMax /\ objectCountdown \in 0 .. UintMax
  /\ left \in 0 .. UintMax
  /\ objectCountdown <= objectInterval
  /\ pass \in {0, 1}
  /\ timedOut \in BOOLEAN
  /\ loads \in 0 .. MaxLoads
  /\ executed \in Nat /\ granted \in Counts \cup {0} /\ slack \in Nat

Init ==
  /\ interval \in Intervals \ {0} /\ countdown = interval
  /\ objectInterval \in ObjectIntervals /\ objectCountdown = objectInterval
  /\ left = NoLimit
  /\ pass = 0
  /\ timedOut = FALSE
  /\ loads = 0
  /\ executed = 0 /\ granted = 0 /\ slack = 0

-----------------------------------------------------------------------------
(* nkiVmIterate.                                                           *)

Decremented(n) == (n - 1) % (UintMax + 1)

(* The instruction, which may create an object.  Its count is of interest  *)
(* while there is a limit.                                                 *)
Execute(countdownNow) ==
  /\ objectCountdown' \in {countdownNow} \cup
                            (IF countdownNow > 0 THEN {countdownNow - 1} ELSE {})
  /\ executed' = IF left = NoLimit THEN executed ELSE executed + 1
  /\ UNCHANGED <<interval, objectInterval, timedOut, loads, granted, slack>>

Iterate ==
  /\ ~timedOut
  /\ Decremented(countdown) # 0
  /\ countdown' = Decremented(countdown)
  /\ Execute(objectCountdown)
  /\ UNCHANGED <<left, pass>>

UsedUp == left # NoLimit /\ left < interval

TimeOut ==
  /\ ~timedOut
  /\ Decremented(countdown) = 0
  /\ UsedUp
  /\ timedOut' = TRUE
  /\ countdown' = 0
  /\ left' = 0
  /\ UNCHANGED <<interval, objectInterval, objectCountdown, pass, loads, ghosts>>

Charged_Nothing == left

Charged == IF left = NoLimit THEN left ELSE (left - interval) % (UintMax + 1)

Due_BeforeLast == objectCountdown = objectInterval

Due == objectCountdown = 0

IterateWithCheck ==
  /\ ~timedOut
  /\ Decremented(countdown) = 0
  /\ ~UsedUp
  /\ left' = Charged
  /\ \/ /\ Due
        /\ pass' = 1 - pass
        /\ Execute(objectInterval)
     \/ /\ ~Due
        /\ UNCHANGED pass
        /\ Execute(objectCountdown)
  /\ countdown' = interval

-----------------------------------------------------------------------------
(* The host, before the loop or in a function the program calls.           *)

SetRemainingInstructionLimit ==
  /\ ~timedOut
  /\ \/ /\ left' \in Counts
        /\ granted' = left'
        /\ slack' = countdown
     \/ /\ left' = NoLimit
        /\ granted' = 0 /\ slack' = 0
  /\ executed' = 0
  /\ UNCHANGED <<gcVars, timedOut, loads>>

Lowered(now, most) == IF now > most THEN most ELSE now

SetGarbageCollectionInterval ==
  /\ ~timedOut
  /\ interval' \in Intervals
  /\ countdown' = Lowered(countdown, interval')
  /\ UNCHANGED <<objectInterval, objectCountdown, left, pass, timedOut, loads,
                 ghosts>>

SetGarbageCollectionNewObjectInterval ==
  /\ ~timedOut
  /\ objectInterval' \in ObjectIntervals
  /\ objectCountdown' = Lowered(objectCountdown, objectInterval')
  /\ UNCHANGED <<interval, countdown, left, pass, timedOut, loads, ghosts>>

(* Saving lowers the interval too, after it has been written.              *)
Save ==
  /\ ~timedOut
  /\ interval' = Lowered(interval, LoadedIntervalMax)
  /\ UNCHANGED <<countdown, objectInterval, objectCountdown, left, pass,
                 timedOut, loads, ghosts>>

(* An image of a VM with the counters in any state they can be in.  The    *)
(* countdown is taken as it is.                                            *)
Load ==
  /\ ~timedOut
  /\ loads < MaxLoads
  /\ loads' = loads + 1
  /\ \E saved \in Intervals \ {0} :
       /\ saved > LoadedIntervalMax => "longImage" \in Unusual
       /\ interval' = Lowered(saved, LoadedIntervalMax)
       /\ countdown' \in 1 .. saved
  /\ objectInterval' \in ObjectIntervals
  /\ objectCountdown' \in 0 .. objectInterval'
  /\ slack' = slack + LoadedIntervalMax
  /\ UNCHANGED <<left, pass, timedOut, executed, granted>>

Next ==
  \/ Iterate
  \/ TimeOut
  \/ IterateWithCheck
  \/ SetRemainingInstructionLimit
  \/ SetGarbageCollectionInterval
  \/ SetGarbageCollectionNewObjectInterval
  \/ Save
  \/ Load

(* The program runs on as long as it may.                                  *)
Fairness == WF_vars(Iterate \/ TimeOut \/ IterateWithCheck)

Spec == Init /\ [][Next]_vars /\ Fairness

-----------------------------------------------------------------------------
(* Properties.                                                             *)

(* The limit holds, up to the interval that was running when it was set    *)
(* and one for each load; that the interval changes in between of checks   *)
(* gives nothing away.                                                     *)
LimitEnforced == executed <= granted + slack

(* When enough objects have been created, a collection comes, unless the   *)
(* limit or an image with other counters does first; that the host keeps   *)
(* changing the intervals does not put it off.                             *)
CollectsWhenDue ==
  \A p \in {0, 1}, n \in 0 .. MaxLoads :
    (objectCountdown = 0 /\ pass = p /\ loads = n)
      ~> (pass # p \/ timedOut \/ loads # n)
=============================================================================
