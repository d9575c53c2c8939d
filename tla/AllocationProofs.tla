-------------------------- MODULE AllocationProofs --------------------------
(***************************************************************************)
(* Proofs about an allocation request: the range of sets it asks for       *)
(* (AllocationRange), and what one set costs (CostAllocation).             *)
(*                                                                         *)
(* Of the range: the safety invariants, for windows and steps of any       *)
(* length, any number of sets, and any deployments and replica sets that   *)
(* appear, change and go in any way while the request runs.                *)
(*                                                                         *)
(* Of one set: its costs and ratios add up, a node's idle cost is what its *)
(* pods leave, and only a division by zero makes an answer that is not     *)
(* finite, for any finite sets of pods and nodes, any properties, prices,  *)
(* bills and weights, and any parameters of the request.  That needs the   *)
(* arithmetic of fractions in lowest terms, and sums over finite sets.     *)
(***************************************************************************)
EXTENDS AllocationRange, CostAllocation, FiniteSetTheorems, WellFoundedInduction, TLAPS

-----------------------------------------------------------------------------
(***************************************************************************)
(* The range of sets.                                                      *)
(***************************************************************************)

RangeSet == [start : Int, end : Int, names : SUBSET Name]

\* What a deployment owns.
LEMMA ClusterMember ==
  ASSUME NEW o \in Cluster
  PROVE  DOMAIN o \subseteq Workloads /\ \A c \in DOMAIN o : o[c] \subseteq ReplicaSets
BY DEF Cluster

\* Every step keeps the types.
LEMMA TypeStep == TypeOK /\ [RangeNext]_rangeVars => TypeOK'
<1> SUFFICES ASSUME TypeOK, [RangeNext]_rangeVars PROVE TypeOK'
  OBVIOUS
<1>0. /\ end \in Int /\ step \in Int
      /\ Workloads \subseteq Name /\ ReplicaSets \subseteq Name
  BY RangeAssumption DEF TypeOK, Name
<1> USE <1>0 DEF TypeOK, request
<1>1. CASE Handle
  BY <1>1 DEF Handle
<1>2. CASE NextStep
  BY <1>2 DEF NextStep, ToResolve
<1>3. CASE LoopEnds
  BY <1>3 DEF LoopEnds
<1>4. CASE SetFilter
  BY <1>4 DEF SetFilter
<1>5. CASE SetComputed
  <2>1. Clamp(stepEnd + step) \in Int
    BY DEF Clamp
  <2>2. [start |-> stepStart, end |-> stepEnd, names |-> names]
          \in [start : Int, end : Int, names : SUBSET Name]
    OBVIOUS
  <2>3. asr' \in Seq([start : Int, end : Int, names : SUBSET Name])
    BY <1>5, <2>2 DEF SetComputed
  <2>4. QED
    BY <1>5, <2>1, <2>3 DEF SetComputed
<1>6. CASE SetFails
  BY <1>6 DEF SetFails
<1>7. CASE AggregateRange
  BY <1>7 DEF AggregateRange
<1>8. ASSUME NEW c \in Name, ResolveName(c)
      PROVE  TypeOK'
  <2>1. CASE KeepName(c)
    BY <1>8, <2>1 DEF ResolveName, KeepName
  <2>2. ASSUME NEW found \in SUBSET owned[c], c \in DOMAIN owned, ReplaceName(c, found)
        PROVE  TypeOK'
    <3>1. c \in Workloads /\ found \subseteq ReplicaSets
      BY <2>2, ClusterMember
    <3>2. QED
      BY <1>8, <2>2, <3>1 DEF ResolveName, ReplaceName
  <2>3. QED
    BY <1>8, <2>1, <2>2 DEF ResolveName
<1>9. CASE Churn
  BY <1>9 DEF Churn
<1>10. CASE UNCHANGED rangeVars
  BY <1>10 DEF rangeVars
<1>11. QED
  BY <1>1, <1>2, <1>3, <1>4, <1>5, <1>6, <1>7, <1>8, <1>9, <1>10 DEF RangeNext, Serve, Stopped

\* Every value of a request is of its type: the loop never leaves its states, and nothing but
\* names of workloads and replica sets gets into the filter.
THEOREM TypeCorrect == RangeSpec => []TypeOK
<1>1. RangeInit => TypeOK
  BY RangeAssumption DEF RangeInit, TypeOK, Name
<1>2. TypeOK /\ [RangeNext]_rangeVars => TypeOK'
  BY TypeStep
<1>3. QED
  BY <1>1, <1>2, PTL DEF RangeSpec

-----------------------------------------------------------------------------

(***************************************************************************)
(* The loop of GetRangeAllocation.  stepStart is where the sets made so    *)
(* far end; the next set is the first, of one step, or what is left of the *)
(* window if that is shorter.  A set that is cut off ends with the window, *)
(* and the loop with it: no set follows one that is not a full step.       *)
(***************************************************************************)
Chained ==
  /\ \A i \in 1..Len(asr) : asr[i].start = IF i = 1 THEN 0 ELSE asr[i-1].end
  /\ \A i \in 1..Len(asr) : IF i = 1 THEN asr[i].end = step ELSE asr[i].end <= end
  /\ \A i \in 1..Len(asr) : asr[i].end = asr[i].start + step \/ (i = Len(asr) /\ asr[i].end = end)

LoopInv ==
  /\ Chained
  /\ stepStart = IF asr = << >> THEN 0 ELSE asr[Len(asr)].end
  /\ stage = "handler" => asr = << >>
  /\ stage \in {"loop", "filter", "compute"} =>
       stepEnd = IF asr = << >> THEN step ELSE Clamp(stepStart + step)
  /\ stage \in {"filter", "compute"} => end > stepStart
  /\ stage \in {"aggregate", "done"} => end <= stepStart
  /\ stage \notin {"handler", "badRequest"} => end >= 0

\* Every step keeps the invariant of the loop,
LEMMA LoopInvStep == TypeOK /\ LoopInv /\ [RangeNext]_rangeVars => LoopInv'
<1> SUFFICES ASSUME TypeOK, LoopInv, [RangeNext]_rangeVars PROVE LoopInv'
  OBVIOUS
<1>0. /\ end \in Int /\ step \in Int /\ stepStart \in Int /\ stepEnd \in Int
      /\ asr \in Seq(RangeSet)
  BY RangeAssumption DEF TypeOK, RangeSet
<1>a. (/\ UNCHANGED <<request, stepStart, stepEnd, asr>>
       /\ stage' = stage \/ (stage = "compute" /\ stage' \in {"error", "panic"}))
      => LoopInv'
  BY DEF LoopInv, Chained, Clamp, request
<1>1. CASE Handle
  <2>1. CASE stage' = "badRequest"
    BY <1>1, <2>1, <1>0 DEF Handle, LoopInv, Chained, request
  <2>2. CASE Legal /\ stage' = "loop" /\ stepEnd' = stepStart + step
    <3>1. end >= 0
      BY <2>2, <1>0, RangeAssumption DEF Legal
    <3>2. asr = << >> /\ stepStart = 0
      BY <1>1 DEF Handle, LoopInv
    <3>3. QED
      BY <1>0, <1>1, <2>2, <3>1, <3>2 DEF Handle, LoopInv, Chained, request
  <2>3. QED
    BY <1>1, <2>1, <2>2 DEF Handle
<1>2. CASE NextStep
  BY <1>2 DEF NextStep, LoopInv, Chained, Clamp, request
<1>3. CASE LoopEnds
  BY <1>3 DEF LoopEnds, LoopInv, Chained, request
<1>4. CASE SetFilter
  BY <1>4 DEF SetFilter, LoopInv, Chained, Clamp, request
<1>5. CASE SetComputed
  <2> DEFINE last == Len(asr)
             new  == [start |-> stepStart, end |-> stepEnd, names |-> names]
  <2>1. /\ asr' = Append(asr, new) /\ stepStart' = stepEnd /\ stepEnd' = Clamp(stepEnd + step)
        /\ stage' = "loop" /\ end' = end /\ step' = step
    BY <1>5 DEF SetComputed, request
  <2>2. new \in RangeSet
    BY <1>0 DEF RangeSet, TypeOK
  <2>3. /\ last \in Nat /\ Len(asr') = last + 1
        /\ \A i \in 1..last : asr'[i] = asr[i]
        /\ asr'[last + 1] = new
    BY <1>0, <2>1, <2>2
  <2>4. end > stepStart /\ end >= 0
    BY <1>5 DEF SetComputed, LoopInv
  <2>5. stepStart = IF last = 0 THEN 0 ELSE asr[last].end
    BY <1>0 DEF LoopInv
  <2>6. stepEnd = IF last = 0 THEN step ELSE Clamp(stepStart + step)
    BY <1>0, <1>5 DEF SetComputed, LoopInv
  <2>7. \A i \in 1..last : asr[i].start \in Int /\ asr[i].end \in Int
    <3>1. \A i \in 1..last : asr[i] \in RangeSet
      BY <1>0
    <3>2. QED
      BY <3>1 DEF RangeSet
  <2>8. \A i \in 1..last : asr[i].end = asr[i].start + step
    BY <2>3, <2>4, <2>5, <2>7, <1>0 DEF LoopInv, Chained
  <2>9. \A i \in 1..(last + 1) : asr'[i].start = IF i = 1 THEN 0 ELSE asr'[i-1].end
    <3> SUFFICES ASSUME NEW i \in 1..(last + 1)
                 PROVE  asr'[i].start = IF i = 1 THEN 0 ELSE asr'[i-1].end
      OBVIOUS
    <3>1. CASE i \in 1..last
      BY <3>1, <2>3 DEF LoopInv, Chained
    <3>2. CASE i = last + 1
      BY <3>2, <2>3, <2>5
    <3>3. QED
      BY <3>1, <3>2, <2>3
  <2>10. \A i \in 1..(last + 1) : IF i = 1 THEN asr'[i].end = step ELSE asr'[i].end <= end
    <3> SUFFICES ASSUME NEW i \in 1..(last + 1)
                 PROVE  IF i = 1 THEN asr'[i].end = step ELSE asr'[i].end <= end
      OBVIOUS
    <3>1. CASE i \in 1..last
      BY <3>1, <2>3 DEF LoopInv, Chained
    <3>2. CASE i = last + 1
      BY <3>2, <2>3, <2>6, <1>0 DEF Clamp
    <3>3. QED
      BY <3>1, <3>2, <2>3
  <2>11. \A i \in 1..(last + 1) :
           asr'[i].end = asr'[i].start + step \/ (i = last + 1 /\ asr'[i].end = end)
    <3> SUFFICES ASSUME NEW i \in 1..(last + 1)
                 PROVE  asr'[i].end = asr'[i].start + step \/ (i = last + 1 /\ asr'[i].end = end)
      OBVIOUS
    <3>1. CASE i \in 1..last
      BY <3>1, <2>3, <2>8
    <3>2. CASE i = last + 1
      BY <3>2, <2>3, <2>5, <2>6, <1>0 DEF Clamp
    <3>3. QED
      BY <3>1, <3>2, <2>3
  <2>12. Chained'
    BY <2>1, <2>3, <2>9, <2>10, <2>11 DEF Chained
  <2>13. asr' # << >> /\ asr'[Len(asr')].end = stepEnd
    BY <2>3, <2>1
  <2>14. QED
    BY <2>1, <2>4, <2>12, <2>13 DEF LoopInv, Clamp
<1>6. CASE SetFails
  BY <1>a, <1>6 DEF SetFails
<1>7. CASE AggregateRange
  BY <1>7 DEF AggregateRange, LoopInv, Chained, request
<1>8. ASSUME NEW c \in Name, ResolveName(c)
      PROVE  LoopInv'
  BY <1>a, <1>8 DEF ResolveName
<1>9. CASE Churn
  BY <1>a, <1>9 DEF Churn
<1>10. CASE UNCHANGED rangeVars
  BY <1>a, <1>10 DEF rangeVars
<1>11. QED
  BY <1>1, <1>2, <1>3, <1>4, <1>5, <1>6, <1>7, <1>8, <1>9, <1>10 DEF RangeNext, Serve, Stopped

\* which is all the property needs.
LEMMA LoopInvTiles == TypeOK /\ LoopInv => StepsTileWindow
<1> SUFFICES ASSUME TypeOK, LoopInv PROVE StepsTileWindow
  OBVIOUS
<1>0. end \in Int /\ stepStart \in Int /\ asr \in Seq(RangeSet)
  BY RangeAssumption DEF TypeOK, RangeSet
<1>1. stage = "done" => (IF asr = << >> THEN end = 0 ELSE asr[Len(asr)].end >= end)
  BY <1>0 DEF LoopInv
<1>2. \A i \in 1..Len(asr) : i < Len(asr) => asr[i].end = asr[i].start + step
  BY <1>0 DEF LoopInv, Chained
<1>3. QED
  BY <1>1, <1>2 DEF StepsTileWindow, LoopInv, Chained

\* The sets of a range tile its window without gaps or overlaps, for every window and step
\* that the handlers let through.
THEOREM Tiling == RangeSpec => []StepsTileWindow
<1>1. RangeInit => LoopInv
  BY RangeAssumption DEF RangeInit, LoopInv, Chained
<1>2. TypeOK /\ LoopInv /\ [RangeNext]_rangeVars => LoopInv'
  BY LoopInvStep
<1>3. TypeOK /\ LoopInv => StepsTileWindow
  BY LoopInvTiles
<1>4. QED
  BY <1>1, <1>2, <1>3, TypeCorrect, PTL DEF RangeSpec

-----------------------------------------------------------------------------

(***************************************************************************)
(* How long a range can get: as long as the window has not been walked     *)
(* through, every set so far was one step long.                            *)
(***************************************************************************)
LengthInv ==
  /\ end > stepStart => stepStart = Len(asr) * step
  /\ asr # << >> => (Len(asr) - 1) * step < end
  /\ step <= 0 => stepStart <= 0 /\ stepEnd <= 0

LEMMA LengthInvStep == TypeOK /\ LoopInv /\ LengthInv /\ [RangeNext]_rangeVars => LengthInv'
<1> SUFFICES ASSUME TypeOK, LoopInv, LengthInv, [RangeNext]_rangeVars PROVE LengthInv'
  OBVIOUS
<1>0. /\ end \in Int /\ step \in Int /\ stepStart \in Int /\ stepEnd \in Int
      /\ asr \in Seq(RangeSet) /\ Len(asr) \in Nat
  BY RangeAssumption DEF TypeOK, RangeSet
<1>a. UNCHANGED <<request, stepStart, stepEnd, asr>> => LengthInv'
  BY DEF LengthInv, request
<1>1. CASE Handle
  BY <1>0, <1>1 DEF Handle, LengthInv, request
<1>2. CASE NextStep \/ LoopEnds \/ SetFilter \/ SetFails \/ AggregateRange \/ Churn
  BY <1>a, <1>2 DEF NextStep, LoopEnds, SetFilter, SetFails, AggregateRange, Churn
<1>3. CASE SetComputed
  <2> DEFINE last == Len(asr)
  <2>1. /\ stepStart' = stepEnd /\ stepEnd' = Clamp(stepEnd + step)
        /\ end' = end /\ step' = step
        /\ Len(asr') = last + 1
    BY <1>0, <1>3 DEF SetComputed, request
  <2>2. end > stepStart /\ stepStart = last * step
    BY <1>3 DEF SetComputed, LoopInv, LengthInv
  <2>3. stepEnd = stepStart + step \/ stepEnd = end
    BY <1>0, <1>3 DEF SetComputed, LoopInv, Clamp
  <2>4. (last + 1) * step = last * step + step
    BY <1>0
  <2>5. (Len(asr') - 1) * step = last * step
    BY <1>0, <2>1
  <2>6. step <= 0 => stepEnd <= 0 /\ Clamp(stepEnd + step) <= 0
    <3>1. step <= 0 => stepEnd <= 0
      BY DEF LengthInv
    <3>2. step <= 0 => stepEnd + step <= 0
      BY <1>0, <3>1
    <3>3. Clamp(stepEnd + step) <= stepEnd + step /\ Clamp(stepEnd + step) \in Int
      BY <1>0 DEF Clamp
    <3>4. QED
      BY <1>0, <3>1, <3>2, <3>3
  <2>7. end > stepEnd => stepEnd = (last + 1) * step
    BY <1>0, <2>2, <2>3, <2>4
  <2>8. last * step < end
    BY <1>0, <2>2
  <2> HIDE DEF last
  <2>9. QED
    BY <2>1, <2>5, <2>6, <2>7, <2>8 DEF LengthInv
<1>4. ASSUME NEW c \in Name, ResolveName(c) PROVE LengthInv'
  BY <1>a, <1>4 DEF ResolveName
<1>5. CASE UNCHANGED rangeVars
  BY <1>a, <1>5 DEF rangeVars
<1>6. QED
  BY <1>1, <1>2, <1>3, <1>4, <1>5 DEF RangeNext, Serve, Stopped

LEMMA LengthCorrect == RangeSpec => []LengthInv
<1>1. RangeInit => LoopInv /\ LengthInv
  <2>1. RangeInit => LoopInv
    BY RangeAssumption DEF RangeInit, LoopInv, Chained
  <2>2. RangeInit => LengthInv
    BY RangeAssumption DEF RangeInit, LengthInv
  <2>3. QED
    BY <2>1, <2>2
<1>2. TypeOK /\ LoopInv /\ [RangeNext]_rangeVars => LoopInv'
  BY LoopInvStep
<1>3. TypeOK /\ LoopInv /\ LengthInv /\ [RangeNext]_rangeVars => LengthInv'
  BY LengthInvStep
<1>4. QED
  BY <1>1, <1>2, <1>3, TypeCorrect, PTL DEF RangeSpec

\* A range has no more sets than steps begin within its window, so the loop of
\* GetRangeAllocation ends after that many turns if the step is positive
\* (cost_manager.go:438-452).
THEOREM RangeIsBounded == RangeSpec => [](asr # << >> => (Len(asr) - 1) * step < end)
<1>1. LengthInv => (asr # << >> => (Len(asr) - 1) * step < end)
  BY DEF LengthInv
<1>2. QED
  BY <1>1, LengthCorrect, PTL

\* With a step that is not positive, which only /v2/cost lets through, the loop never ends:
\* such a request is never answered with a range (cost_manager.go:438-452, 654-661, 729).
THEOREM NoStepNoAnswer == RangeSpec => [](end > 0 /\ step <= 0 => stage \notin {"aggregate", "done"})
<1>1. TypeOK /\ LoopInv /\ LengthInv => (end > 0 /\ step <= 0 => stage \notin {"aggregate", "done"})
  <2> SUFFICES ASSUME TypeOK, LoopInv, LengthInv, end > 0, step <= 0, stage \in {"aggregate", "done"}
               PROVE  FALSE
    OBVIOUS
  <2>1. end <= stepStart /\ stepStart <= 0
    BY DEF LoopInv, LengthInv
  <2>2. end \in Int /\ stepStart \in Int
    BY RangeAssumption DEF TypeOK
  <2>3. QED
    BY <2>1, <2>2
<1>2. RangeInit => LoopInv
  BY RangeAssumption DEF RangeInit, LoopInv, Chained
<1>3. TypeOK /\ LoopInv /\ [RangeNext]_rangeVars => LoopInv'
  BY LoopInvStep
<1>4. QED
  BY <1>1, <1>2, <1>3, LengthCorrect, TypeCorrect, PTL DEF RangeSpec

-----------------------------------------------------------------------------

(***************************************************************************)
(* preprocessFilter.  Filtered is what its result will be made of: while   *)
(* the names are walked, those still to be looked at and those already in  *)
(* the new list.  A replica set's name that is in it stays, since no       *)
(* deployment has such a name; a name that was asked for leaves it only    *)
(* for replica sets, or is lost.                                           *)
(***************************************************************************)
Filtered == IF stage = "filter" THEN todo \cup resolved ELSE names

FilterInv ==
  /\ \A i \in 1..Len(asr) : asr[i].names \cap ReplicaSets \subseteq Filtered
  /\ SameReplicaSets
  /\ \A c \in asked : c \in lost \/ c \in Filtered \/ Filtered \cap ReplicaSets # {}
  /\ WidenedOnlyByLoss

\* Every step keeps the invariant of the filter,
LEMMA FilterInvStep == TypeOK /\ FilterInv /\ [RangeNext]_rangeVars => FilterInv'
<1> SUFFICES ASSUME TypeOK, FilterInv, [RangeNext]_rangeVars PROVE FilterInv'
  OBVIOUS
<1>a. UNCHANGED <<asked, asr, lost>> /\ Filtered' = Filtered => FilterInv'
  BY DEF FilterInv, SameReplicaSets, WidenedOnlyByLoss
<1>1. CASE Handle
  BY <1>a, <1>1 DEF Handle, Filtered, request
<1>2. CASE NextStep
  BY <1>a, <1>2 DEF NextStep, ToResolve, Filtered, request
<1>3. CASE LoopEnds
  BY <1>a, <1>3 DEF LoopEnds, Filtered, request
<1>4. CASE SetFilter
  BY <1>a, <1>4 DEF SetFilter, Filtered, request
<1>5. CASE SetComputed
  <2> DEFINE last == Len(asr)
             new  == [start |-> stepStart, end |-> stepEnd, names |-> names]
  <2>1. asr' = Append(asr, new) /\ Filtered' = names /\ Filtered = names /\ asked' = asked
        /\ lost' = lost
    BY <1>5 DEF SetComputed, Filtered, request
  <2>2. new \in RangeSet /\ asr \in Seq(RangeSet)
    BY DEF RangeSet, TypeOK
  <2>3. /\ last \in Nat /\ Len(asr') = last + 1
        /\ \A i \in 1..last : asr'[i] = asr[i]
        /\ asr'[last + 1].names = names
    BY <2>1, <2>2
  <2>4. \A i \in 1..(last + 1) : asr'[i].names \cap ReplicaSets \subseteq names
    <3> SUFFICES ASSUME NEW i \in 1..(last + 1)
                 PROVE  asr'[i].names \cap ReplicaSets \subseteq names
      OBVIOUS
    <3>1. CASE i \in 1..last
      BY <3>1, <2>1, <2>3 DEF FilterInv
    <3>2. CASE i = last + 1
      BY <3>2, <2>3
    <3>3. QED
      BY <3>1, <3>2, <2>3
  <2>5. SameReplicaSets'
    <3> SUFFICES ASSUME NEW i \in 1..(last + 1), NEW j \in 1..(last + 1), i < j
                 PROVE  asr'[i].names \cap ReplicaSets \subseteq asr'[j].names
      BY <2>3 DEF SameReplicaSets
    <3>1. CASE j \in 1..last
      <4>1. i \in 1..last
        BY <3>1, <2>3
      <4>2. QED
        BY <3>1, <4>1, <2>3 DEF FilterInv, SameReplicaSets
    <3>2. CASE j = last + 1
      BY <3>2, <2>3, <2>4
    <3>3. QED
      BY <3>1, <3>2, <2>3
  <2>6. WidenedOnlyByLoss'
    <3> SUFFICES ASSUME NEW i \in 1..(last + 1), asked # {}, asr'[i].names = {}
                 PROVE  asked \subseteq lost
      BY <2>1, <2>3 DEF WidenedOnlyByLoss
    <3>1. CASE i \in 1..last
      BY <3>1, <2>3 DEF FilterInv, WidenedOnlyByLoss
    <3>2. CASE i = last + 1
      BY <3>2, <2>1, <2>3 DEF FilterInv
    <3>3. QED
      BY <3>1, <3>2, <2>3
  <2>7. QED
    BY <2>1, <2>3, <2>4, <2>5, <2>6 DEF FilterInv
<1>6. CASE SetFails
  BY <1>a, <1>6 DEF SetFails, Filtered, request
<1>7. CASE AggregateRange
  BY <1>a, <1>7 DEF AggregateRange, Filtered, request
<1>8. ASSUME NEW c \in Name, ResolveName(c)
      PROVE  FilterInv'
  <2>1. /\ stage = "filter" /\ stage' = "filter" /\ c \in todo /\ todo' = todo \ {c}
        /\ UNCHANGED <<asked, asr>>
    BY <1>8 DEF ResolveName, request
  <2>2. CASE KeepName(c)
    BY <2>1, <2>2, <1>a DEF KeepName, Filtered
  <2>3. ASSUME NEW found \in SUBSET owned[c], c \in DOMAIN owned, ReplaceName(c, found)
        PROVE  FilterInv'
    <3>1. c \notin ReplicaSets /\ found \subseteq ReplicaSets
      BY <2>3, ClusterMember, RangeAssumption DEF TypeOK
    <3>2. /\ Filtered = todo \cup resolved
          /\ Filtered' = (todo \ {c}) \cup resolved \cup found
      BY <2>1, <2>3 DEF Filtered, ReplaceName
    <3>3. lost \subseteq lost' /\ (found = {} => c \in lost')
      BY <2>3 DEF ReplaceName
    <3>4. Filtered \cap ReplicaSets \subseteq Filtered'
      BY <3>1, <3>2
    <3>5. \A a \in asked : a \in lost' \/ a \in Filtered' \/ Filtered' \cap ReplicaSets # {}
      <4> SUFFICES ASSUME NEW a \in asked, a \notin lost', Filtered' \cap ReplicaSets = {}
                   PROVE  a \in Filtered'
        OBVIOUS
      <4>1. found = {} /\ c \in lost'
        BY <3>1, <3>2, <3>3
      <4>2. a \in Filtered /\ a # c
        BY <3>3, <3>4, <4>1 DEF FilterInv
      <4>3. QED
        BY <3>2, <4>2
    <3>6. WidenedOnlyByLoss'
      BY <2>1, <3>3 DEF FilterInv, WidenedOnlyByLoss
    <3>7. SameReplicaSets'
      BY <2>1 DEF FilterInv, SameReplicaSets
    <3>8. QED
      BY <2>1, <3>4, <3>5, <3>6, <3>7 DEF FilterInv
  <2>4. QED
    BY <1>8, <2>2, <2>3 DEF ResolveName
<1>9. CASE Churn
  BY <1>a, <1>9 DEF Churn, Filtered, request
<1>10. CASE UNCHANGED rangeVars
  BY <1>a, <1>10 DEF rangeVars, Filtered, request
<1>11. QED
  BY <1>1, <1>2, <1>3, <1>4, <1>5, <1>6, <1>7, <1>8, <1>9, <1>10 DEF RangeNext, Serve, Stopped

\* so it holds throughout.
LEMMA FilterInvCorrect == RangeSpec => []FilterInv
<1>1. RangeInit => FilterInv
  BY DEF RangeInit, FilterInv, Filtered, SameReplicaSets, WidenedOnlyByLoss
<1>2. TypeOK /\ FilterInv /\ [RangeNext]_rangeVars => FilterInv'
  BY FilterInvStep
<1>3. QED
  BY <1>1, <1>2, TypeCorrect, PTL DEF RangeSpec

\* However the cluster changes while the request runs, the replica sets found for an earlier
\* step are among those of every later step.
THEOREM ReplicaSetsStay == RangeSpec => []SameReplicaSets
<1>1. FilterInv => SameReplicaSets
  BY DEF FilterInv
<1>2. QED
  BY <1>1, FilterInvCorrect, PTL

\* A controller filter becomes empty, which is no filter, only if each of its names was a
\* deployment without replica sets, or one whose replica sets could not be read.
THEOREM WideningNeedsLoss == RangeSpec => []WidenedOnlyByLoss
<1>1. FilterInv => WidenedOnlyByLoss
  BY DEF FilterInv
<1>2. QED
  BY <1>1, FilterInvCorrect, PTL

-----------------------------------------------------------------------------
(***************************************************************************)
(* Fractions.  gcd is a recursive function: that there is one with its     *)
(* equation is a lemma (GcdExists), by induction over the bound of its     *)
(* second argument, and what it computes follows from the equation.        *)
(***************************************************************************)

\* Quotient and remainder.
LEMMA DivMod ==
  ASSUME NEW a \in Int, NEW b \in Nat \ {0}
  PROVE  /\ a \div b \in Int /\ a % b \in Int
         /\ a = b * (a \div b) + (a % b)
         /\ 0 <= a % b /\ a % b < b
OBVIOUS

\* Induction up to a bound, over a set.
LEMMA Climb ==
  ASSUME NEW N \in Nat, NEW S, 0 \in S, \A n \in 0..N : n \in S /\ n < N => n + 1 \in S
  PROVE  0..N \subseteq S
<1> SUFFICES ASSUME ~(0..N \subseteq S) PROVE FALSE
  OBVIOUS
<1> DEFINE C == {n \in 0..N : n \notin S}
           R == OpToRel(<, Nat)
<1>1. C # {} /\ C \in SUBSET Nat
  OBVIOUS
<1>2. IsWellFoundedOn(R, Nat)
  BY NatLessThanWellFounded
<1>3. \A x, y \in Nat : y < x => <<y, x>> \in R
  BY DEF OpToRel
<1> HIDE DEF R
<1>4. \E c \in C : \A d \in C : ~(<<d, c>> \in R)
  BY <1>1, <1>2, WFMin
<1>5. PICK c \in C : \A d \in C : ~(<<d, c>> \in R)
  BY <1>4
<1>6. c \in 0..N /\ c # 0 /\ c \notin S
  OBVIOUS
<1>7. c - 1 \in 0..N /\ c - 1 < c /\ c - 1 < N /\ (c - 1) + 1 = c
  BY <1>6
<1>8. c - 1 \notin C
  BY <1>1, <1>3, <1>5, <1>6, <1>7
<1>9. c - 1 \in S
  BY <1>7, <1>8
<1>10. QED
  BY <1>6, <1>7, <1>9

\* The greatest common divisor: it divides both, and is a sum of multiples of them.
Bezout(g, a, b) == \E x, y \in Int : g = x * a + y * b
Divides(g, a) == \E p \in Int : a = g * p
IsGcd(g, a, b) == g \in Nat /\ Divides(g, a) /\ Divides(g, b) /\ Bezout(g, a, b)

\* Euclid's step keeps the greatest common divisor.
LEMMA GcdTurns ==
  ASSUME NEW a \in Nat, NEW b \in Nat \ {0}, NEW g
  PROVE  IsGcd(g, b, a % b) <=> IsGcd(g, a, b)
<1> DEFINE q == a \div b
           r == a % b
<1>1. q \in Int /\ r \in Int /\ a = b * q + r
  BY DivMod
<1> HIDE DEF q, r
<1>2. ASSUME IsGcd(g, b, r) PROVE IsGcd(g, a, b)
  <2>1. g \in Nat
    BY <1>2 DEF IsGcd
  <2>2. PICK p \in Int : b = g * p
    BY <1>2 DEF IsGcd, Divides
  <2>3. PICK s \in Int : r = g * s
    BY <1>2 DEF IsGcd, Divides
  <2>4. PICK x \in Int, y \in Int : g = x * b + y * r
    BY <1>2 DEF IsGcd, Bezout
  <2>5. a = g * (p * q + s) /\ p * q + s \in Int
    BY <1>1, <2>1, <2>2, <2>3
  <2>6. g = y * a + (x - y * q) * b /\ x - y * q \in Int
    BY <1>1, <2>4
  <2>7. QED
    BY <2>1, <2>2, <2>5, <2>6 DEF IsGcd, Divides, Bezout
<1>3. ASSUME IsGcd(g, a, b) PROVE IsGcd(g, b, r)
  <2>1. g \in Nat
    BY <1>3 DEF IsGcd
  <2>2. PICK p \in Int : a = g * p
    BY <1>3 DEF IsGcd, Divides
  <2>3. PICK s \in Int : b = g * s
    BY <1>3 DEF IsGcd, Divides
  <2>4. PICK x \in Int, y \in Int : g = x * a + y * b
    BY <1>3 DEF IsGcd, Bezout
  <2>5. r = g * (p - s * q) /\ p - s * q \in Int
    BY <1>1, <2>1, <2>2, <2>3
  <2>6. g = (x * q + y) * b + x * r /\ x * q + y \in Int
    BY <1>1, <2>4
  <2>7. QED
    BY <2>1, <2>3, <2>4, <2>5, <2>6 DEF IsGcd, Divides, Bezout
<1>4. QED
  BY <1>2, <1>3 DEF r

\* The greatest common divisor of a number and zero.
LEMMA GcdOfZero == ASSUME NEW a \in Nat, NEW g PROVE IsGcd(g, a, 0) <=> g = a
<1>1. ASSUME IsGcd(g, a, 0) PROVE g = a
  <2>1. g \in Nat
    BY <1>1 DEF IsGcd
  <2>2. PICK p \in Int : a = g * p
    BY <1>1 DEF IsGcd, Divides
  <2>3. PICK x \in Int : g = x * a
    BY <1>1 DEF IsGcd, Bezout
  <2>4. CASE g = 0
    BY <2>2, <2>4
  <2>5. CASE a = 0
    BY <2>3, <2>5
  <2>6. CASE g > 0 /\ a > 0
    <3>1. p >= 1
      BY <2>1, <2>2, <2>6
    <3>2. x >= 1
      BY <2>1, <2>3, <2>6
    <3>3. a >= g
      BY <2>1, <2>2, <2>6, <3>1
    <3>4. g >= a
      BY <2>1, <2>3, <2>6, <3>2
    <3>5. QED
      BY <2>1, <3>3, <3>4
  <2>7. QED
    BY <2>1, <2>4, <2>5, <2>6
<1>2. ASSUME g = a PROVE IsGcd(g, a, 0)
  <2>1. a = g * 1 /\ 0 = g * 0 /\ g = 1 * a + 0 * 0
    BY <1>2
  <2>2. QED
    BY <1>2, <2>1 DEF IsGcd, Divides, Bezout
<1>3. QED
  BY <1>1, <1>2

\* The recursive function gcd is defined: there is a function with its equation.
LEMMA GcdExists == gcd = [p \in Nat \X Nat |-> IF p[2] = 0 THEN p[1] ELSE gcd[<<p[2], p[1] % p[2]>>]]
<1> DEFINE D == Nat \X Nat
           E(g) == g = [p \in D |-> IF p[2] = 0 THEN p[1] ELSE g[<<p[2], p[1] % p[2]>>]]
           T(p) == {g \in Nat : IsGcd(g, p[1], p[2])}
           G == [p \in D |-> CHOOSE g \in T(p) : TRUE]
<1>1. ASSUME NEW p \in D
      PROVE  G[p] = IF p[2] = 0 THEN p[1] ELSE G[<<p[2], p[1] % p[2]>>]
  <2>0. p[1] \in Nat /\ p[2] \in Nat /\ p = <<p[1], p[2]>>
    OBVIOUS
  <2>1. CASE p[2] = 0
    <3>1. T(p) = {p[1]}
      BY <2>0, <2>1, GcdOfZero
    <3>2. QED
      BY <2>1, <3>1
  <2>2. CASE p[2] # 0
    <3> DEFINE q == <<p[2], p[1] % p[2]>>
    <3>1. T(p) = T(q)
      BY <2>0, <2>2, GcdTurns
    <3>2. p[1] % p[2] \in Nat
      BY <2>0, <2>2, DivMod
    <3>3. q \in D
      BY <2>0, <3>2
    <3>4. QED
      BY <2>2, <3>1, <3>3
  <2>3. QED
    BY <2>1, <2>2
<1>2. E(G)
  <2>1. G = [p \in D |-> G[p]]
    OBVIOUS
  <2> HIDE DEF G
  <2>2. QED
    BY <1>1, <2>1
<1> HIDE DEF G
<1>3. gcd = CHOOSE g : E(g)
  BY DEF gcd
<1>4. QED
  BY <1>2, <1>3

\* gcd computes a greatest common divisor.
LEMMA GcdIs == \A a, b \in Nat : IsGcd(gcd[<<a, b>>], a, b)
<1> SUFFICES ASSUME NEW N \in Nat PROVE \A a \in Nat : IsGcd(gcd[<<a, N>>], a, N)
  OBVIOUS
<1> DEFINE Good(n) == \A b \in 0..n, a \in Nat : IsGcd(gcd[<<a, b>>], a, b)
           S == {n \in 0..N : Good(n)}
<1>1. \A a, b \in Nat : gcd[<<a, b>>] = IF b = 0 THEN a ELSE gcd[<<b, a % b>>]
  BY GcdExists
<1>2. 0 \in S
  <2>1. \A b \in 0..0 : b = 0
    OBVIOUS
  <2>2. \A a \in Nat : gcd[<<a, 0>>] = a
    BY <1>1
  <2>3. Good(0)
    BY <2>1, <2>2, GcdOfZero
  <2>4. QED
    BY <2>3
<1>3. ASSUME NEW n \in 0..N, n \in S, n < N PROVE n + 1 \in S
  <2>1. n \in Nat /\ n + 1 \in Nat \ {0} /\ n + 1 \in 0..N
    BY <1>3
  <2>2. ASSUME NEW a \in Nat PROVE IsGcd(gcd[<<a, n + 1>>], a, n + 1)
    <3> DEFINE b == n + 1
               r == a % b
    <3>1. r \in Nat /\ r \in 0..n /\ b \in Nat \ {0}
      BY <2>1, DivMod
    <3>2. IsGcd(gcd[<<b, r>>], b, r)
      BY <1>3, <3>1
    <3>3. gcd[<<a, b>>] = gcd[<<b, r>>]
      BY <1>1, <3>1
    <3> HIDE DEF b
    <3>4. QED
      BY <3>1, <3>2, <3>3, GcdTurns DEF b
  <2>3. \A b \in 0..(n + 1) : b \in 0..n \/ b = n + 1
    BY <2>1
  <2>4. QED
    BY <1>3, <2>1, <2>2, <2>3
<1> HIDE DEF S
<1>4. 0..N \subseteq S
  BY <1>2, <1>3, Climb
<1>5. QED
  BY <1>4 DEF S

-----------------------------------------------------------------------------

\* A multiple is divided without remainder.
LEMMA Exactly == ASSUME NEW g \in Nat \ {0}, NEW a \in Int PROVE (g * a) \div g = a
<1> DEFINE n == g * a
           q == n \div g
<1>1. n \in Int /\ q \in Int /\ n = g * q + (n % g) /\ 0 <= n % g /\ n % g < g
  BY DivMod
<1>2. n = g * a
  OBVIOUS
<1> DEFINE r == n % g
<1> HIDE DEF r, q, n
<1>3. r = g * (a - q) /\ r \in Int /\ 0 <= r /\ r < g
  BY <1>1, <1>2 DEF r
<1>4. CASE a - q >= 1
  <2>1. g * (a - q) >= g
    BY <1>1, <1>4
  <2>2. QED
    BY <1>3, <2>1
<1>5. CASE a - q <= -1
  <2>1. g * (a - q) <= -g
    BY <1>1, <1>5
  <2>2. QED
    BY <1>3, <2>1
<1>6. CASE a - q = 0
  BY <1>1, <1>6 DEF q, n
<1>7. QED
  BY <1>1, <1>4, <1>5, <1>6

\* A fraction in lowest terms.
Reduces(n, d, g, a, b) ==
  n = g * a /\ d = g * b /\ Frac(n, d) = <<a, b>> /\ Bezout(1, a, b)

\* Frac reduces every fraction to lowest terms.
LEMMA FracIs ==
  ASSUME NEW n \in Int, NEW d \in Nat \ {0}
  PROVE  \E g \in Nat \ {0}, a \in Int, b \in Nat \ {0} : Reduces(n, d, g, a, b)
<1> DEFINE m == Abs(n)
           g == gcd[<<m, d>>]
<1>1. m \in Nat /\ Abs(d) = d /\ (n = m \/ n = -m)
  BY DEF Abs
<1>2. IsGcd(g, m, d)
  BY <1>1, GcdIs
<1>3. Frac(n, d) = <<n \div g, d \div g>>
  BY <1>1 DEF Frac
<1> HIDE DEF m, g
<1>4. g \in Nat
  BY <1>2 DEF IsGcd
<1>5. PICK p \in Int : m = g * p
  BY <1>2 DEF IsGcd, Divides
<1>6. PICK b \in Int : d = g * b
  BY <1>2 DEF IsGcd, Divides
<1>7. PICK x \in Int, y \in Int : g = x * m + y * d
  BY <1>2 DEF IsGcd, Bezout
<1>8. g # 0 /\ b > 0
  <2>1. g # 0
    BY <1>4, <1>6
  <2>2. CASE b <= 0
    <3>1. g * b <= 0
      BY <1>4, <1>6, <2>2
    <3>2. QED
      BY <1>6, <3>1
  <2>3. QED
    BY <1>6, <2>1, <2>2
<1>9. PICK a \in Int, z \in Int : n = g * a /\ x * p = z * a
  <2>1. CASE n = m
    BY <1>5, <2>1
  <2>2. CASE n = -m
    <3>1. -p \in Int /\ -x \in Int
      OBVIOUS
    <3>2. n = g * (-p)
      BY <1>4, <1>5, <2>2
    <3>3. x * p = (-x) * (-p)
      OBVIOUS
    <3>4. QED
      BY <3>1, <3>2, <3>3
  <2>3. QED
    BY <1>1, <2>1, <2>2
<1>10. Bezout(1, a, b)
  <2> DEFINE w == z * a + y * b
  <2>1. g = g * w /\ w \in Int
    BY <1>4, <1>5, <1>6, <1>7, <1>9
  <2> HIDE DEF w
  <2>2. w = 1
    BY <1>4, <1>8, <2>1
  <2>3. QED
    BY <1>7, <1>9, <2>2 DEF w, Bezout
<1>11. n \div g = a /\ d \div g = b
  BY <1>4, <1>6, <1>8, <1>9, Exactly
<1>12. QED
  BY <1>3, <1>4, <1>6, <1>8, <1>9, <1>10, <1>11 DEF Reduces

\* A common factor can be cancelled.
LEMMA Cancel ==
  ASSUME NEW k \in Nat \ {0}, NEW a \in Int, NEW b \in Int, k * a = k * b
  PROVE  a = b
OBVIOUS

\* A multiple is no smaller.
LEMMA NoSmaller ==
  ASSUME NEW b \in Nat \ {0}, NEW c \in Nat \ {0}, NEW u \in Int, c = b * u
  PROVE  b <= c
<1>1. CASE u <= 0
  <2>1. b * u <= 0
    BY <1>1
  <2>2. QED
    BY <2>1
<1>2. CASE u >= 1
  <2>1. b * u >= b
    BY <1>2
  <2>2. QED
    BY <2>1
<1>3. QED
  BY <1>1, <1>2

\* Fractions of the same value are the same in lowest terms.
LEMMA FracEq ==
  ASSUME NEW n \in Int, NEW d \in Nat \ {0}, NEW m \in Int, NEW e \in Nat \ {0}, n * e = m * d
  PROVE  Frac(n, d) = Frac(m, e)
<1>1. PICK g \in Nat \ {0}, a \in Int, b \in Nat \ {0} : Reduces(n, d, g, a, b)
  BY FracIs
<1>2. PICK h \in Nat \ {0}, a2 \in Int, b2 \in Nat \ {0} : Reduces(m, e, h, a2, b2)
  BY FracIs
<1>3. a * b2 = a2 * b
  <2>1. (g * h) * (a * b2) = (g * h) * (a2 * b)
    BY <1>1, <1>2 DEF Reduces
  <2>2. g * h \in Nat \ {0}
    OBVIOUS
  <2>3. a * b2 \in Int /\ a2 * b \in Int
    OBVIOUS
  <2>4. QED
    BY <2>1, <2>2, <2>3, Cancel
<1>4. PICK x \in Int, y \in Int : 1 = x * a + y * b
  BY <1>1 DEF Reduces, Bezout
<1>5. PICK x2 \in Int, y2 \in Int : 1 = x2 * a2 + y2 * b2
  BY <1>2 DEF Reduces, Bezout
<1>6. b2 = b * (x * a2 + y * b2)
  <2>1. b2 = b2 * (x * a + y * b)
    BY <1>4
  <2>2. b2 * (x * a + y * b) = x * (a * b2) + y * b * b2
    OBVIOUS
  <2>3. x * (a2 * b) + y * b * b2 = b * (x * a2 + y * b2)
    OBVIOUS
  <2>4. QED
    BY <1>3, <2>1, <2>2, <2>3
<1>7. b = b2 * (x2 * a + y2 * b)
  <2>1. b = b * (x2 * a2 + y2 * b2)
    BY <1>5
  <2>2. b * (x2 * a2 + y2 * b2) = x2 * (a2 * b) + y2 * b * b2
    OBVIOUS
  <2>3. x2 * (a * b2) + y2 * b * b2 = b2 * (x2 * a + y2 * b)
    OBVIOUS
  <2>4. QED
    BY <1>3, <2>1, <2>2, <2>3
<1>8. b = b2
  <2>1. x * a2 + y * b2 \in Int /\ x2 * a + y2 * b \in Int
    OBVIOUS
  <2>2. b <= b2 /\ b2 <= b
    BY <1>6, <1>7, <2>1, NoSmaller
  <2>3. QED
    BY <2>2
<1>9. a = a2
  <2>1. b * a = b * a2
    BY <1>3, <1>8
  <2>2. QED
    BY <2>1, Cancel
<1>10. QED
  BY <1>1, <1>2, <1>8, <1>9 DEF Reduces

-----------------------------------------------------------------------------

\* Denominators multiply to denominators.
LEMMA Positives == ASSUME NEW d \in Nat \ {0}, NEW e \in Nat \ {0} PROVE d * e \in Nat \ {0}
<1>1. d * e > 0
  OBVIOUS
<1>2. QED
  BY <1>1

\* What the operations do to fractions that are not in lowest terms.
LEMMA Operations ==
  ASSUME NEW n \in Int, NEW d \in Nat \ {0}, NEW m \in Int, NEW e \in Nat \ {0}
  PROVE  /\ Frac(n, d) (+) Frac(m, e) = Frac(n * e + m * d, d * e)
         /\ Frac(n, d) (-) Frac(m, e) = Frac(n * e - m * d, d * e)
         /\ Frac(n, d) (.) Frac(m, e) = Frac(n * m, d * e)
         /\ m > 0 => Frac(n, d) (/) Frac(m, e) = Frac(n * e, d * m)
<1>1. PICK g \in Nat \ {0}, a \in Int, b \in Nat \ {0} : Reduces(n, d, g, a, b)
  BY FracIs
<1>2. PICK h \in Nat \ {0}, p \in Int, q \in Nat \ {0} : Reduces(m, e, h, p, q)
  BY FracIs
<1>3. n = g * a /\ d = g * b /\ m = h * p /\ e = h * q
  BY <1>1, <1>2 DEF Reduces
<1>4. Frac(n, d) = <<a, b>> /\ Frac(m, e) = <<p, q>>
  BY <1>1, <1>2 DEF Reduces
<1>5. b * q \in Nat \ {0} /\ d * e \in Nat \ {0}
  BY Positives
<1>6. Frac(a * q + p * b, b * q) = Frac(n * e + m * d, d * e)
  <2>1. (a * q + p * b) * (d * e) = (n * e + m * d) * (b * q)
    BY <1>3
  <2>2. a * q + p * b \in Int /\ n * e + m * d \in Int
    OBVIOUS
  <2>3. QED
    BY <1>5, <2>1, <2>2, FracEq
<1>7. Frac(a * q - p * b, b * q) = Frac(n * e - m * d, d * e)
  <2>1. (a * q - p * b) * (d * e) = (n * e - m * d) * (b * q)
    BY <1>3
  <2>2. a * q - p * b \in Int /\ n * e - m * d \in Int
    OBVIOUS
  <2>3. QED
    BY <1>5, <2>1, <2>2, FracEq
<1>8. Frac(a * p, b * q) = Frac(n * m, d * e)
  <2>1. (a * p) * (d * e) = (n * m) * (b * q)
    BY <1>3
  <2>2. a * p \in Int /\ n * m \in Int
    OBVIOUS
  <2>3. QED
    BY <1>5, <2>1, <2>2, FracEq
<1>9. m > 0 => Frac(a * q, b * p) = Frac(n * e, d * m)
  <2> SUFFICES ASSUME m > 0 PROVE Frac(a * q, b * p) = Frac(n * e, d * m)
    OBVIOUS
  <2>1. p > 0
    <3>1. CASE p <= 0
      <4>1. h * p <= 0
        BY <3>1
      <4>2. QED
        BY <1>3, <4>1
    <3>2. QED
      BY <3>1
  <2>2. b * p \in Nat \ {0} /\ d * m \in Nat \ {0}
    BY <2>1, Positives
  <2>3. (a * q) * (d * m) = (n * e) * (b * p)
    BY <1>3
  <2>4. a * q \in Int /\ n * e \in Int
    OBVIOUS
  <2>5. QED
    BY <2>2, <2>3, <2>4, FracEq
<1>10. /\ <<a, b>> (+) <<p, q>> = Frac(a * q + p * b, b * q)
       /\ <<a, b>> (-) <<p, q>> = Frac(a * q - p * b, b * q)
       /\ <<a, b>> (.) <<p, q>> = Frac(a * p, b * q)
       /\ <<a, b>> (/) <<p, q>> = Frac(a * q, b * p)
  BY DEF (+), (-), (.), (/), IsFinite
<1>11. QED
  BY <1>4, <1>6, <1>7, <1>8, <1>9, <1>10

Rat == {Frac(n, d) : n \in Int, d \in Nat \ {0}}

\* A finite fraction has a numerator and a denominator.
LEMMA RatIs == ASSUME NEW x \in Rat PROVE \E n \in Int, d \in Nat \ {0} : x = Frac(n, d)
BY DEF Rat

\* Whatever they are, they make a finite fraction.
LEMMA FracIn == ASSUME NEW n \in Int, NEW d \in Nat \ {0} PROVE Frac(n, d) \in Rat
BY DEF Rat

\* Whole numbers are fractions.
LEMMA WholeIs ==
  /\ \A i \in Int : Whole(i) = Frac(i, 1) /\ Whole(i) \in Rat
  /\ Zero = Frac(0, 1) /\ One = Frac(1, 1) /\ Zero \in Rat /\ One \in Rat
<1>1. ASSUME NEW i \in Int PROVE Whole(i) = Frac(i, 1)
  <2>0. 1 \in Nat \ {0}
    OBVIOUS
  <2>1. PICK g \in Nat \ {0}, a \in Int, b \in Nat \ {0} : Reduces(i, 1, g, a, b)
    BY <2>0, FracIs
  <2>2. i = g * a /\ 1 = g * b /\ Frac(i, 1) = <<a, b>>
    BY <2>1 DEF Reduces
  <2>3. g <= 1 /\ b <= 1
    BY <2>2, NoSmaller
  <2>4. g = 1 /\ b = 1 /\ a = i
    BY <2>2, <2>3
  <2>5. QED
    BY <2>2, <2>4 DEF Whole
<1>2. \A i \in Int : Frac(i, 1) \in Rat
  BY FracIn
<1>3. QED
  BY <1>1, <1>2 DEF Zero, One

\* Fractions are finite, and zero only if the numerator is.
LEMMA FracZero ==
  ASSUME NEW n \in Int, NEW d \in Nat \ {0}
  PROVE  IsFinite(Frac(n, d)) /\ (Frac(n, d) = Zero <=> n = 0)
<1>1. PICK g \in Nat \ {0}, a \in Int, b \in Nat \ {0} : Reduces(n, d, g, a, b)
  BY FracIs
<1>2. n = g * a /\ Frac(n, d) = <<a, b>>
  BY <1>1 DEF Reduces
<1>3. ASSUME n = 0 PROVE Frac(n, d) = Zero
  <2>1. Frac(0, d) = Frac(0, 1)
    BY FracEq
  <2>2. QED
    BY <1>3, <2>1, WholeIs
<1>4. ASSUME Frac(n, d) = Zero PROVE n = 0
  BY <1>2, <1>4 DEF Zero, Whole
<1>5. QED
  BY <1>2, <1>3, <1>4 DEF IsFinite

-----------------------------------------------------------------------------

(***************************************************************************)
(* The laws of arithmetic, of finite fractions.                            *)
(***************************************************************************)
\* The operations but division give finite fractions.
LEMMA Closed ==
  ASSUME NEW x \in Rat, NEW y \in Rat
  PROVE  x (+) y \in Rat /\ x (-) y \in Rat /\ x (.) y \in Rat /\ IsFinite(x)
<1>1. PICK n \in Int, d \in Nat \ {0} : x = Frac(n, d)
  BY RatIs
<1>2. PICK m \in Int, e \in Nat \ {0} : y = Frac(m, e)
  BY RatIs
<1> DEFINE s == n * e + m * d
           r == n * e - m * d
           p == n * m
           t == d * e
<1>3. s \in Int /\ r \in Int /\ p \in Int /\ t \in Nat \ {0}
  <2>1. n * e \in Int /\ m * d \in Int /\ n * m \in Int
    OBVIOUS
  <2>2. t \in Nat \ {0}
    BY Positives
  <2>3. QED
    BY <2>1, <2>2
<1>4. x (+) y = Frac(s, t) /\ x (-) y = Frac(r, t) /\ x (.) y = Frac(p, t)
  <2>1. x (+) y = Frac(s, t)
    BY <1>1, <1>2, Operations
  <2>2. x (-) y = Frac(r, t)
    BY <1>1, <1>2, Operations
  <2>3. x (.) y = Frac(p, t)
    BY <1>1, <1>2, Operations
  <2>4. QED
    BY <2>1, <2>2, <2>3
<1> HIDE DEF s, r, p, t
<1>5. QED
  BY <1>1, <1>3, <1>4, FracIn, FracZero

LEMMA PlusCommutes == ASSUME NEW x \in Rat, NEW y \in Rat PROVE x (+) y = y (+) x
<1>1. PICK n \in Int, d \in Nat \ {0} : x = Frac(n, d)
  BY RatIs
<1>2. PICK m \in Int, e \in Nat \ {0} : y = Frac(m, e)
  BY RatIs
<1>3. x (+) y = Frac(n * e + m * d, d * e)
  BY <1>1, <1>2, Operations
<1>4. y (+) x = Frac(m * d + n * e, e * d)
  BY <1>1, <1>2, Operations
<1>5. n * e + m * d = m * d + n * e /\ d * e = e * d
  OBVIOUS
<1>6. QED
  BY <1>3, <1>4, <1>5

LEMMA PlusAssociates ==
  ASSUME NEW x \in Rat, NEW y \in Rat, NEW z \in Rat
  PROVE  (x (+) y) (+) z = x (+) (y (+) z)
<1>1. PICK n \in Int, d \in Nat \ {0} : x = Frac(n, d)
  BY RatIs
<1>2. PICK m \in Int, e \in Nat \ {0} : y = Frac(m, e)
  BY RatIs
<1>3. PICK k \in Int, f \in Nat \ {0} : z = Frac(k, f)
  BY RatIs
<1> DEFINE s == n * e + m * d
           t == d * e
           v == m * f + k * e
           w == e * f
<1>4. s \in Int /\ v \in Int /\ t \in Nat \ {0} /\ w \in Nat \ {0}
  BY Positives
<1>5. x (+) y = Frac(s, t) /\ y (+) z = Frac(v, w)
  <2>1. x (+) y = Frac(s, t)
    BY <1>1, <1>2, Operations
  <2>2. y (+) z = Frac(v, w)
    BY <1>2, <1>3, Operations
  <2>3. QED
    BY <2>1, <2>2
<1>6. s * f + k * t = n * w + v * d /\ t * f = d * w
  OBVIOUS
<1> HIDE DEF s, t, v, w
<1>7. Frac(s, t) (+) z = Frac(s * f + k * t, t * f)
  BY <1>3, <1>4, Operations
<1>8. x (+) Frac(v, w) = Frac(n * w + v * d, d * w)
  BY <1>1, <1>4, Operations
<1>9. QED
  BY <1>5, <1>6, <1>7, <1>8

LEMMA PlusZero == ASSUME NEW x \in Rat PROVE x (+) Zero = x
<1>1. PICK n \in Int, d \in Nat \ {0} : x = Frac(n, d)
  BY RatIs
<1>2. 0 \in Int /\ 1 \in Nat \ {0}
  OBVIOUS
<1>3. x (+) Zero = Frac(n * 1 + 0 * d, d * 1)
  BY <1>1, <1>2, Operations, WholeIs
<1>4. n * 1 + 0 * d = n /\ d * 1 = d
  OBVIOUS
<1>5. QED
  BY <1>1, <1>3, <1>4

LEMMA MinusPlus == ASSUME NEW x \in Rat, NEW y \in Rat PROVE (x (-) y) (+) y = x
<1>1. PICK n \in Int, d \in Nat \ {0} : x = Frac(n, d)
  BY RatIs
<1>2. PICK m \in Int, e \in Nat \ {0} : y = Frac(m, e)
  BY RatIs
<1> DEFINE s == n * e - m * d
           t == d * e
<1>3. s \in Int /\ t \in Nat \ {0} /\ t * e \in Nat \ {0} /\ s * e + m * t \in Int
  BY Positives
<1>4. x (-) y = Frac(s, t)
  BY <1>1, <1>2, Operations
<1>5. (s * e + m * t) * d = n * (t * e)
  OBVIOUS
<1> HIDE DEF s, t
<1>6. Frac(s, t) (+) y = Frac(s * e + m * t, t * e)
  BY <1>2, <1>3, Operations
<1>7. Frac(s * e + m * t, t * e) = Frac(n, d)
  BY <1>3, <1>5, FracEq
<1>8. QED
  BY <1>1, <1>4, <1>6, <1>7

LEMMA PlusMinus == ASSUME NEW x \in Rat, NEW y \in Rat PROVE (x (+) y) (-) y = x
<1>1. PICK n \in Int, d \in Nat \ {0} : x = Frac(n, d)
  BY RatIs
<1>2. PICK m \in Int, e \in Nat \ {0} : y = Frac(m, e)
  BY RatIs
<1> DEFINE s == n * e + m * d
           t == d * e
<1>3. s \in Int /\ t \in Nat \ {0} /\ t * e \in Nat \ {0} /\ s * e - m * t \in Int
  BY Positives
<1>4. x (+) y = Frac(s, t)
  BY <1>1, <1>2, Operations
<1>5. (s * e - m * t) * d = n * (t * e)
  OBVIOUS
<1> HIDE DEF s, t
<1>6. Frac(s, t) (-) y = Frac(s * e - m * t, t * e)
  BY <1>2, <1>3, Operations
<1>7. Frac(s * e - m * t, t * e) = Frac(n, d)
  BY <1>3, <1>5, FracEq
<1>8. QED
  BY <1>1, <1>4, <1>6, <1>7

LEMMA TimesCommutes == ASSUME NEW x \in Rat, NEW y \in Rat PROVE x (.) y = y (.) x
<1>1. PICK n \in Int, d \in Nat \ {0} : x = Frac(n, d)
  BY RatIs
<1>2. PICK m \in Int, e \in Nat \ {0} : y = Frac(m, e)
  BY RatIs
<1>3. x (.) y = Frac(n * m, d * e)
  BY <1>1, <1>2, Operations, Zenon
<1>4. y (.) x = Frac(m * n, e * d)
  BY <1>1, <1>2, Operations, Zenon
<1>5. n * m = m * n /\ d * e = e * d
  OBVIOUS
<1>6. QED
  BY <1>3, <1>4, <1>5, Zenon

LEMMA TimesAssociates ==
  ASSUME NEW x \in Rat, NEW y \in Rat, NEW z \in Rat
  PROVE  (x (.) y) (.) z = x (.) (y (.) z)
<1>1. PICK n \in Int, d \in Nat \ {0} : x = Frac(n, d)
  BY RatIs
<1>2. PICK m \in Int, e \in Nat \ {0} : y = Frac(m, e)
  BY RatIs
<1>3. PICK k \in Int, f \in Nat \ {0} : z = Frac(k, f)
  BY RatIs
<1> DEFINE s == n * m
           t == d * e
           v == m * k
           w == e * f
<1>4. s \in Int /\ v \in Int /\ t \in Nat \ {0} /\ w \in Nat \ {0}
  BY Positives
<1>5. x (.) y = Frac(s, t) /\ y (.) z = Frac(v, w)
  <2>1. x (.) y = Frac(s, t)
    BY <1>1, <1>2, Operations
  <2>2. y (.) z = Frac(v, w)
    BY <1>2, <1>3, Operations
  <2>3. QED
    BY <2>1, <2>2
<1>6. s * k = n * v /\ t * f = d * w
  OBVIOUS
<1> HIDE DEF s, t, v, w
<1>7. Frac(s, t) (.) z = Frac(s * k, t * f)
  BY <1>3, <1>4, Operations
<1>8. x (.) Frac(v, w) = Frac(n * v, d * w)
  BY <1>1, <1>4, Operations
<1>9. QED
  BY <1>5, <1>6, <1>7, <1>8

LEMMA Distributes ==
  ASSUME NEW x \in Rat, NEW y \in Rat, NEW z \in Rat
  PROVE  x (.) (y (+) z) = (x (.) y) (+) (x (.) z)
<1>1. PICK n \in Int, d \in Nat \ {0} : x = Frac(n, d)
  BY RatIs
<1>2. PICK m \in Int, e \in Nat \ {0} : y = Frac(m, e)
  BY RatIs
<1>3. PICK k \in Int, f \in Nat \ {0} : z = Frac(k, f)
  BY RatIs
<1> DEFINE s == m * f + k * e
           t == e * f
           u == n * m
           v == d * e
           p == n * k
           q == d * f
<1>4. /\ s \in Int /\ u \in Int /\ p \in Int
      /\ t \in Nat \ {0} /\ v \in Nat \ {0} /\ q \in Nat \ {0}
  BY Positives
<1>5. y (+) z = Frac(s, t) /\ x (.) y = Frac(u, v) /\ x (.) z = Frac(p, q)
  <2>1. y (+) z = Frac(s, t)
    BY <1>2, <1>3, Operations
  <2>2. x (.) y = Frac(u, v)
    BY <1>1, <1>2, Operations
  <2>3. x (.) z = Frac(p, q)
    BY <1>1, <1>3, Operations
  <2>4. QED
    BY <2>1, <2>2, <2>3
<1>6. (n * s) * (v * q) = (u * q + p * v) * (d * t)
  OBVIOUS
<1> HIDE DEF s, t, u, v, p, q
<1>7. d * t \in Nat \ {0} /\ v * q \in Nat \ {0} /\ n * s \in Int /\ u * q + p * v \in Int
  BY <1>4, Positives
<1>8. x (.) Frac(s, t) = Frac(n * s, d * t)
  BY <1>1, <1>4, Operations
<1>9. Frac(u, v) (+) Frac(p, q) = Frac(u * q + p * v, v * q)
  BY <1>4, Operations
<1>10. Frac(n * s, d * t) = Frac(u * q + p * v, v * q)
  BY <1>6, <1>7, FracEq
<1>11. QED
  BY <1>5, <1>8, <1>9, <1>10

LEMMA TimesOne == ASSUME NEW x \in Rat PROVE x (.) One = x /\ x (.) Zero = Zero
<1>1. PICK n \in Int, d \in Nat \ {0} : x = Frac(n, d)
  BY RatIs
<1>2. 0 \in Int /\ 1 \in Int /\ 1 \in Nat \ {0}
  OBVIOUS
<1>3. x (.) One = Frac(n * 1, d * 1) /\ x (.) Zero = Frac(n * 0, d * 1)
  BY <1>1, <1>2, Operations, WholeIs
<1>4. n * 1 = n /\ d * 1 = d /\ n * 0 = 0
  OBVIOUS
<1>5. QED
  BY <1>1, <1>2, <1>3, <1>4, FracZero

\* A negative denominator is the same as a negative numerator.
LEMMA FracSign == ASSUME NEW n \in Int, NEW d \in Int, d < 0 PROVE Frac(n, d) = Frac(-n, -d)
<1>1. Abs(-n) = Abs(n) /\ Abs(-d) = Abs(d) /\ ~(d > 0) /\ -d > 0 /\ d # 0 /\ -d # 0
  BY DEF Abs
<1>2. QED
  BY <1>1 DEF Frac

\* To divide by a fraction that is not zero is to multiply by another.
LEMMA Reciprocal ==
  ASSUME NEW y \in Rat, y # Zero
  PROVE  \E z \in Rat : y (.) z = One /\ \A x \in Rat : x (/) y = x (.) z
<1>1. PICK m \in Int, e \in Nat \ {0} : y = Frac(m, e)
  BY RatIs
<1>2. m # 0
  BY <1>1, FracZero
<1>3. PICK k \in Int, f \in Nat \ {0} :
        /\ m * k = e * f
        /\ \A x \in Rat : x (/) y = x (.) Frac(k, f)
  <2>1. CASE m > 0
    <3>1. ASSUME NEW x \in Rat PROVE x (/) y = x (.) Frac(e, m)
      <4>1. PICK n \in Int, d \in Nat \ {0} : x = Frac(n, d)
        BY RatIs
      <4>2. e \in Int /\ m \in Nat \ {0}
        BY <2>1
      <4>3. QED
        BY <1>1, <2>1, <4>1, <4>2, Operations
    <3>2. e \in Int /\ m \in Nat \ {0} /\ m * e = e * m
      BY <2>1
    <3>3. QED
      BY <3>1, <3>2
  <2>2. CASE m < 0
    <3>1. -e \in Int /\ -m \in Nat \ {0} /\ m * (-e) = e * (-m)
      BY <2>2
    <3>2. ASSUME NEW x \in Rat PROVE x (/) y = x (.) Frac(-e, -m)
      <4>1. PICK n \in Int, d \in Nat \ {0} : x = Frac(n, d)
        BY RatIs
      <4>2. PICK g \in Nat \ {0}, a \in Int, b \in Nat \ {0} : Reduces(n, d, g, a, b)
        BY FracIs
      <4>3. PICK h \in Nat \ {0}, p \in Int, q \in Nat \ {0} : Reduces(m, e, h, p, q)
        BY FracIs
      <4>4. n = g * a /\ d = g * b /\ m = h * p /\ e = h * q
            /\ x = <<a, b>> /\ y = <<p, q>>
        BY <1>1, <4>1, <4>2, <4>3 DEF Reduces
      <4>5. p < 0
        <5>1. CASE p >= 0
          <6>1. h * p >= 0
            BY <5>1
          <6>2. QED
            BY <2>2, <4>4, <6>1
        <5>2. QED
          BY <5>1
      <4>6. x (/) y = Frac(a * q, b * p)
        BY <4>4 DEF (/), IsFinite
      <4>7. a * q \in Int /\ b * p \in Int /\ b * p < 0
        BY <4>5
      <4>8. Frac(a * q, b * p) = Frac(-(a * q), -(b * p))
        BY <4>7, FracSign
      <4>9. x (.) Frac(-e, -m) = Frac(n * (-e), d * (-m))
        BY <3>1, <4>1, Operations
      <4>10. Frac(-(a * q), -(b * p)) = Frac(n * (-e), d * (-m))
        <5>1. (-(a * q)) * (d * (-m)) = (n * (-e)) * (-(b * p))
          BY <4>4
        <5>2. -(a * q) \in Int /\ n * (-e) \in Int /\ -(b * p) \in Nat \ {0} /\ d * (-m) \in Nat \ {0}
          BY <3>1, <4>7, Positives
        <5>3. QED
          BY <5>1, <5>2, FracEq
      <4>11. QED
        BY <4>6, <4>8, <4>9, <4>10
    <3>3. QED
      BY <3>1, <3>2
  <2>3. QED
    BY <1>2, <2>1, <2>2
<1>4. y (.) Frac(k, f) = One
  <2>1. y (.) Frac(k, f) = Frac(m * k, e * f)
    BY <1>1, Operations
  <2>2. Frac(m * k, e * f) = Frac(1, 1)
    <3>1. (m * k) * 1 = 1 * (e * f) /\ m * k \in Int /\ 1 \in Int /\ 1 \in Nat \ {0}
      BY <1>3
    <3>2. e * f \in Nat \ {0}
      BY Positives
    <3>3. QED
      BY <3>1, <3>2, FracEq
  <2>3. QED
    BY <2>1, <2>2, WholeIs
<1>5. QED
  BY <1>3, <1>4, FracIn

-----------------------------------------------------------------------------

\* What a division by zero gives.
Infinite == <<1, 0>>
Value == Rat \cup {Infinite}

\* A finite fraction is a pair with a positive denominator.
LEMMA RatPair == ASSUME NEW x \in Rat PROVE x \in Int \X (Nat \ {0})
<1>1. PICK n \in Int, d \in Nat \ {0} : x = Frac(n, d)
  BY RatIs
<1>2. PICK g \in Nat \ {0}, a \in Int, b \in Nat \ {0} : Reduces(n, d, g, a, b)
  BY FracIs
<1>3. x = <<a, b>>
  BY <1>1, <1>2 DEF Reduces
<1>4. QED
  BY <1>3

\* IsFinite tells the finite fractions from what divisions by zero give.
LEMMA FiniteIs == ASSUME NEW x \in Value PROVE IsFinite(x) <=> x \in Rat
<1>1. ASSUME x \in Rat PROVE IsFinite(x)
  BY <1>1, RatPair DEF IsFinite
<1>2. ASSUME x = Infinite PROVE ~IsFinite(x)
  BY <1>2 DEF IsFinite, Infinite
<1>3. QED
  BY <1>1, <1>2 DEF Value

\* A division by zero is not undone by any operation.
LEMMA InfiniteStays ==
  ASSUME NEW x \in Value
  PROVE  /\ x (+) Infinite = Infinite /\ Infinite (+) x = Infinite
         /\ x (-) Infinite = Infinite /\ Infinite (-) x = Infinite
         /\ x (.) Infinite = Infinite /\ Infinite (.) x = Infinite
         /\ x (/) Infinite = Infinite /\ Infinite (/) x = Infinite /\ x (/) Zero = Infinite
         /\ Infinite \notin Rat
<1>1. x \in Int \X Nat
  <2>1. CASE x \in Rat
    BY <2>1, RatPair
  <2>2. CASE x = Infinite
    BY <2>2 DEF Infinite
  <2>3. QED
    BY <2>1, <2>2 DEF Value
<1>2. x[1] \in Int /\ x[2] \in Nat
  BY <1>1
<1>3. x[2] * 0 = 0 /\ 0 * x[2] = 0 /\ 0 * x[1] = 0
  BY <1>2
<1>4. \A n : Frac(n, 0) = Infinite
  BY DEF Frac, Infinite
<1>5. Infinite \notin Rat
  BY RatPair DEF Infinite
<1>6. Infinite[1] = 1 /\ Infinite[2] = 0 /\ Zero[1] = 0 /\ Zero[2] = 1
  BY DEF Infinite, Zero, Whole
<1>7. /\ x (+) Infinite = Infinite /\ Infinite (+) x = Infinite
      /\ x (-) Infinite = Infinite /\ Infinite (-) x = Infinite
      /\ x (.) Infinite = Infinite /\ Infinite (.) x = Infinite
  BY <1>3, <1>4, <1>6 DEF (+), (-), (.)
<1>8. x (/) Infinite = Infinite
  BY <1>6 DEF (/), IsFinite
<1>9. x (/) Zero = Infinite
  <2>1. x (/) Zero = Frac(x[1] * 1, x[2] * 0)
    BY <1>6 DEF (/), IsFinite
  <2>2. QED
    BY <1>3, <1>4, <2>1
<1>10. Infinite (/) x = Infinite
  <2>1. CASE x[2] = 0
    <3>1. x = Infinite
      BY <2>1, RatPair DEF Value
    <3>2. QED
      BY <1>8, <3>1 DEF Value
  <2>2. CASE x[2] # 0
    <3>1. Infinite (/) x = Frac(1 * x[2], 0 * x[1])
      BY <1>6, <2>2 DEF (/), IsFinite
    <3>2. QED
      BY <1>3, <1>4, <3>1
  <2>3. QED
    BY <2>1, <2>2
<1>11. QED
  BY <1>5, <1>7, <1>8, <1>9, <1>10

\* A sum is finite only if its terms are.
LEMMA Adding ==
  ASSUME NEW x \in Value, NEW y \in Value
  PROVE  /\ x (+) y \in Value /\ x (+) y = y (+) x /\ x (+) Zero = x
         /\ x (+) y \in Rat <=> x \in Rat /\ y \in Rat
         /\ Zero \in Value
<1>1. Zero \in Value /\ Zero \in Rat /\ Infinite \in Value
  BY WholeIs DEF Value
<1>2. CASE x \in Rat /\ y \in Rat
  BY <1>1, <1>2, Closed, PlusCommutes, PlusZero DEF Value
<1>3. CASE x = Infinite
  BY <1>1, <1>3, InfiniteStays
<1>4. CASE y = Infinite
  <2>1. x (+) Zero = x
    BY <1>1, PlusZero, InfiniteStays DEF Value
  <2>2. QED
    BY <1>1, <1>4, <2>1, InfiniteStays
<1>5. QED
  BY <1>2, <1>3, <1>4 DEF Value

\* Adding in any grouping.
LEMMA AddingAssociates ==
  ASSUME NEW x \in Value, NEW y \in Value, NEW z \in Value
  PROVE  (x (+) y) (+) z = x (+) (y (+) z)
<1>0. Infinite \in Value
  BY DEF Value
<1>1. CASE x \in Rat /\ y \in Rat /\ z \in Rat
  BY <1>1, PlusAssociates
<1>2. CASE x = Infinite
  BY <1>0, <1>2, Adding, InfiniteStays
<1>3. CASE y = Infinite
  BY <1>0, <1>3, Adding, InfiniteStays
<1>4. CASE z = Infinite
  BY <1>0, <1>4, Adding, InfiniteStays
<1>5. QED
  BY <1>1, <1>2, <1>3, <1>4 DEF Value

\* Likewise in any order.
LEMMA Swap ==
  ASSUME NEW x \in Value, NEW y \in Value, NEW z \in Value
  PROVE  x (+) (y (+) z) = y (+) (x (+) z)
<1>1. x (+) (y (+) z) = (x (+) y) (+) z /\ y (+) (x (+) z) = (y (+) x) (+) z
  BY AddingAssociates
<1>2. x (+) y = y (+) x
  BY Adding
<1>3. QED
  BY <1>1, <1>2

-----------------------------------------------------------------------------
(***************************************************************************)
(* Sums.  SumOf folds the values of a function in the order CHOOSE picks   *)
(* the arguments; as adding is commutative and associative, the order does *)
(* not matter, and a sum can be split, grouped and renamed.                *)
(***************************************************************************)

\* Induction over the subsets of a finite set.
LEMMA SubsetInduction ==
  ASSUME NEW D, IsFiniteSet(D), NEW G,
         \A s \in SUBSET D : (\A x \in s : s \ {x} \in G) => s \in G
  PROVE  SUBSET D \subseteq G
<1> DEFINE N == Cardinality(D)
           H == {n \in 0..N : \A s \in SUBSET D : Cardinality(s) <= n => s \in G}
<1>1. ASSUME NEW s \in SUBSET D PROVE IsFiniteSet(s) /\ Cardinality(s) \in Nat /\ Cardinality(s) <= N
  BY FS_Subset, FS_CardinalityType
<1>2. N \in Nat
  BY FS_CardinalityType
<1>3. 0 \in H
  <2>1. ASSUME NEW s \in SUBSET D, Cardinality(s) <= 0 PROVE s \in G
    <3>1. s = {}
      BY <1>1, <2>1, FS_EmptySet
    <3>2. QED
      BY <3>1
  <2>2. QED
    BY <1>2, <2>1
<1>4. ASSUME NEW n \in 0..N, n \in H, n < N PROVE n + 1 \in H
  <2>1. ASSUME NEW s \in SUBSET D, Cardinality(s) <= n + 1 PROVE s \in G
    <3>1. ASSUME NEW x \in s PROVE s \ {x} \in G
      <4>1. Cardinality(s \ {x}) = Cardinality(s) - 1
        BY <1>1, FS_RemoveElement
      <4>2. s \ {x} \in SUBSET D /\ Cardinality(s \ {x}) <= n
        BY <1>1, <1>4, <2>1, <4>1
      <4>3. QED
        BY <1>4, <4>2
    <3>2. QED
      BY <3>1
  <2>2. n + 1 \in 0..N
    BY <1>2, <1>4
  <2>3. QED
    BY <2>1, <2>2
<1>5. N \in H
  <2> HIDE DEF H
  <2>1. 0..N \subseteq H
    BY <1>2, <1>3, <1>4, Climb
  <2>2. QED
    BY <1>2, <2>1
<1>6. QED
  BY <1>1, <1>5

\* The sums over the subsets of D, as a fold takes them.
Pick(s) == CHOOSE x \in s : TRUE
Sums(c, f, D) ==
  c = [s \in SUBSET D |-> IF s = {} THEN Zero ELSE f[Pick(s)] (+) c[s \ {Pick(s)}]]

\* SumOf is a fold over the domain.
LEMMA SumIs == ASSUME NEW f PROVE SumOf(f) = (CHOOSE c : Sums(c, f, DOMAIN f))[DOMAIN f]
BY DEF SumOf, FoldFunction, FoldFunctionOnSet, MapThenFoldSet, Sums, Pick

\* The fold takes a member of the set that is left.
LEMMA Picked == ASSUME NEW s, s # {} PROVE Pick(s) \in s
BY DEF Pick

\* The recursive function of the fold is defined.
LEMMA SumsExist == ASSUME NEW D, IsFiniteSet(D), NEW f PROVE \E c : Sums(c, f, D)
<1> DEFINE N == Cardinality(D)
           Small(n) == {s \in SUBSET D : Cardinality(s) <= n}
           Fold(c, n) ==
             \A s \in Small(n) : c[s] = IF s = {} THEN Zero ELSE f[Pick(s)] (+) c[s \ {Pick(s)}]
           H == {n \in 0..N : \E c : Fold(c, n)}
<1>1. ASSUME NEW s \in SUBSET D PROVE IsFiniteSet(s) /\ Cardinality(s) \in Nat /\ Cardinality(s) <= N
  BY FS_Subset, FS_CardinalityType
<1>2. N \in Nat
  BY FS_CardinalityType
<1>3. 0 \in H
  <2> DEFINE c == [s \in SUBSET D |-> Zero]
  <2>1. ASSUME NEW s \in Small(0) PROVE s = {}
    BY <1>1, FS_EmptySet
  <2>2. Fold(c, 0)
    BY <2>1
  <2>3. 0 \in 0..N
    BY <1>2
  <2> HIDE DEF N, Fold, c
  <2>4. QED
    BY <2>2, <2>3
<1>4. ASSUME NEW n \in 0..N, n \in H, n < N PROVE n + 1 \in H
  <2>1. PICK c : Fold(c, n)
    BY <1>4
  <2> DEFINE e == [s \in SUBSET D |->
                     IF s = {} THEN Zero
                     ELSE IF s \in Small(n) THEN c[s] ELSE f[Pick(s)] (+) c[s \ {Pick(s)}]]
  <2>2. ASSUME NEW s \in Small(n + 1), s # {}
        PROVE  e[s] = f[Pick(s)] (+) e[s \ {Pick(s)}]
    <3> DEFINE t == s \ {Pick(s)}
    <3>1. Pick(s) \in s
      BY <2>2, Picked
    <3>2. Cardinality(t) = Cardinality(s) - 1
      BY <1>1, <3>1, FS_RemoveElement
    <3>3. t \in Small(n)
      BY <1>1, <1>4, <3>2
    <3>4. e[t] = c[t]
      <4>1. CASE t = {}
        <5>1. c[t] = Zero
          BY <2>1, <3>3, <4>1
        <5>2. QED
          BY <4>1, <5>1
      <4>2. CASE t # {}
        BY <3>3, <4>2
      <4>3. QED
        BY <4>1, <4>2
    <3>5. e[s] = f[Pick(s)] (+) c[t]
      <4>1. CASE s \in Small(n)
        BY <2>1, <2>2, <4>1
      <4>2. CASE s \notin Small(n)
        BY <2>2, <4>2
      <4>3. QED
        BY <4>1, <4>2
    <3>6. QED
      BY <3>4, <3>5
  <2>3. e[{}] = Zero
    OBVIOUS
  <2> HIDE DEF e
  <2>4. Fold(e, n + 1)
    BY <2>2, <2>3
  <2>5. n + 1 \in 0..N
    BY <1>2, <1>4
  <2>6. QED
    BY <2>4, <2>5
<1>5. N \in H
  <2> HIDE DEF H
  <2>1. 0..N \subseteq H
    BY <1>2, <1>3, <1>4, Climb
  <2>2. QED
    BY <1>2, <2>1
<1>6. PICK c : Fold(c, N)
  BY <1>5
<1> DEFINE e == [s \in SUBSET D |-> c[s]]
<1>7. ASSUME NEW s \in SUBSET D
      PROVE  e[s] = IF s = {} THEN Zero ELSE f[Pick(s)] (+) e[s \ {Pick(s)}]
  BY <1>1, <1>6
<1> HIDE DEF e
<1>8. e = [s \in SUBSET D |-> IF s = {} THEN Zero ELSE f[Pick(s)] (+) e[s \ {Pick(s)}]]
  <2>1. e = [s \in SUBSET D |-> e[s]]
    BY DEF e
  <2>2. QED
    BY <1>7, <2>1
<1>9. QED
  BY <1>8 DEF Sums

\* One such function gives the sums over all subsets.
LEMMA SumsAre ==
  ASSUME NEW D, IsFiniteSet(D), NEW f
  PROVE  \E c : /\ Sums(c, f, D)
                /\ \A S \in SUBSET D : SumOf([x \in S |-> f[x]]) = c[S]
<1>1. PICK c : Sums(c, f, D)
  BY SumsExist
<1>2. ASSUME NEW S \in SUBSET D PROVE SumOf([x \in S |-> f[x]]) = c[S]
  <2> DEFINE g == [x \in S |-> f[x]]
             e == CHOOSE e : Sums(e, g, S)
             G == {s \in SUBSET S : e[s] = c[s]}
  <2>1. DOMAIN g = S /\ \A x \in S : g[x] = f[x]
    OBVIOUS
  <2>2. IsFiniteSet(S)
    BY FS_Subset
  <2> HIDE DEF g
  <2>3. Sums(e, g, S)
    BY <2>2, SumsExist
  <2>4. SumOf(g) = e[S]
    BY <2>1, SumIs
  <2> HIDE DEF e
  <2>5. ASSUME NEW s \in SUBSET S, \A x \in s : s \ {x} \in G PROVE s \in G
    <3>1. CASE s = {}
      BY <1>1, <2>3, <3>1 DEF Sums
    <3>2. CASE s # {}
      <4>1. Pick(s) \in s
        BY <3>2, Picked
      <4>2. e[s \ {Pick(s)}] = c[s \ {Pick(s)}]
        BY <2>5, <4>1
      <4>3. e[s] = g[Pick(s)] (+) e[s \ {Pick(s)}]
        BY <2>3, <3>2 DEF Sums
      <4>4. c[s] = f[Pick(s)] (+) c[s \ {Pick(s)}]
        BY <1>1, <3>2 DEF Sums
      <4>5. g[Pick(s)] = f[Pick(s)]
        BY <2>1, <4>1
      <4>6. QED
        BY <4>2, <4>3, <4>4, <4>5
    <3>3. QED
      BY <3>1, <3>2
  <2> HIDE DEF G
  <2>6. SUBSET S \subseteq G
    BY <2>2, <2>5, SubsetInduction
  <2>7. e[S] = c[S]
    BY <2>6 DEF G
  <2>8. QED
    BY <2>4, <2>7 DEF g
<1>3. QED
  BY <1>1, <1>2

\* A sum has a value, and is that of any one term and the others.
LEMMA SumMore ==
  ASSUME NEW D, IsFiniteSet(D), NEW f \in [D -> Value], NEW S \in SUBSET D
  PROVE  /\ SumOf([x \in S |-> f[x]]) \in Value
         /\ S = {} => SumOf([x \in S |-> f[x]]) = Zero
         /\ \A x \in S :
              SumOf([y \in S |-> f[y]]) = f[x] (+) SumOf([y \in S \ {x} |-> f[y]])
<1>1. PICK c : Sums(c, f, D) /\ \A T \in SUBSET D : SumOf([x \in T |-> f[x]]) = c[T]
  BY SumsAre
<1>2. c[{}] = Zero /\ Zero \in Value
  BY <1>1, WholeIs DEF Sums, Value
<1>3. \A s \in SUBSET D : c[s] \in Value
  <2> DEFINE G == {s \in SUBSET D : c[s] \in Value}
  <2>1. ASSUME NEW s \in SUBSET D, \A x \in s : s \ {x} \in G PROVE s \in G
    <3>1. CASE s # {}
      <4>1. Pick(s) \in s
        BY <3>1, Picked
      <4>2. c[s] = f[Pick(s)] (+) c[s \ {Pick(s)}]
        BY <1>1, <3>1 DEF Sums
      <4>3. QED
        BY <2>1, <4>1, <4>2, Adding
    <3>2. QED
      BY <1>2, <3>1
  <2> HIDE DEF G
  <2>2. SUBSET D \subseteq G
    BY <2>1, SubsetInduction
  <2>3. QED
    BY <2>2 DEF G
<1> DEFINE G == {s \in SUBSET D : \A x \in s : c[s] = f[x] (+) c[s \ {x}]}
<1>4. ASSUME NEW s \in SUBSET D, \A x \in s : s \ {x} \in G PROVE s \in G
  <2> SUFFICES ASSUME NEW x \in s PROVE c[s] = f[x] (+) c[s \ {x}]
    OBVIOUS
  <2> DEFINE y == Pick(s)
             r == (s \ {y}) \ {x}
  <2>1. y \in s
    BY Picked
  <2>2. c[s] = f[y] (+) c[s \ {y}]
    BY <1>1 DEF Sums
  <2> HIDE DEF y
  <2>3. CASE x = y
    BY <2>2, <2>3
  <2>4. CASE x # y
    <3>1. x \in s \ {y} /\ y \in s \ {x} /\ r = (s \ {x}) \ {y} /\ r \in SUBSET D
      BY <2>1, <2>4
    <3>2. c[s \ {y}] = f[x] (+) c[r]
      BY <1>4, <2>1, <3>1
    <3>3. c[s \ {x}] = f[y] (+) c[r]
      BY <1>4, <2>1, <3>1
    <3>4. f[x] \in Value /\ f[y] \in Value /\ c[r] \in Value
      BY <1>3, <2>1, <3>1
    <3>5. QED
      BY <2>2, <3>2, <3>3, <3>4, Swap
  <2>5. QED
    BY <2>3, <2>4
<1> HIDE DEF G
<1>5. S \in G
  BY <1>4, SubsetInduction
<1>6. QED
  BY <1>1, <1>2, <1>3, <1>5 DEF G

\* The sum of some of the values of f.
SumOn(f, S) == SumOf([x \in S |-> f[x]])

\* The sum of some of the values, by any one of them.
LEMMA SumOnIs ==
  ASSUME NEW D, IsFiniteSet(D), NEW f \in [D -> Value], NEW S \in SUBSET D
  PROVE  /\ SumOn(f, S) \in Value
         /\ SumOn(f, {}) = Zero
         /\ \A x \in S : SumOn(f, S) = f[x] (+) SumOn(f, S \ {x})
<1>1. \A T \in SUBSET D : T = {} => SumOf([x \in T |-> f[x]]) = Zero
  BY SumMore
<1>2. SumOf([x \in {} |-> f[x]]) = Zero
  <2>1. {} \in SUBSET D
    OBVIOUS
  <2>2. QED
    BY <1>1, <2>1, Zenon
<1>3. QED
  BY <1>2, SumMore DEF SumOn

\* The sum of all values.
LEMMA SumOfIs ==
  ASSUME NEW D, IsFiniteSet(D), NEW f \in [D -> Value]
  PROVE  SumOf(f) = SumOn(f, D) /\ SumOf(f) \in Value
<1>1. f = [x \in D |-> f[x]] /\ D \in SUBSET D
  OBVIOUS
<1>2. QED
  BY <1>1, SumOnIs DEF SumOn

\* The sum over disjoint sets.
LEMMA SumUnion ==
  ASSUME NEW D, IsFiniteSet(D), NEW f \in [D -> Value],
         NEW A \in SUBSET D, NEW B \in SUBSET D, A \cap B = {}
  PROVE  SumOn(f, A \cup B) = SumOn(f, A) (+) SumOn(f, B)
<1> DEFINE G == {s \in SUBSET A : SumOn(f, s \cup B) = SumOn(f, s) (+) SumOn(f, B)}
<1>0. IsFiniteSet(A) /\ Zero \in Value
  BY FS_Subset, WholeIs DEF Value
<1>1. ASSUME NEW s \in SUBSET A, \A x \in s : s \ {x} \in G PROVE s \in G
  <2>0. SumOn(f, B) \in Value
    BY SumOnIs
  <2>1. CASE s = {}
    <3>1. SumOn(f, s) = Zero /\ s \cup B = B
      BY <2>1, SumOnIs
    <3>2. Zero (+) SumOn(f, B) = SumOn(f, B)
      BY <1>0, <2>0, Adding
    <3>3. SumOn(f, s \cup B) = SumOn(f, B)
      BY <3>1
    <3>4. QED
      BY <3>1, <3>2, <3>3
  <2>2. CASE s # {}
    <3>1. PICK x \in s : TRUE
      BY <2>2
    <3> DEFINE r == s \ {x}
    <3>2. r \in SUBSET D /\ s \in SUBSET D /\ s \cup B \in SUBSET D /\ x \in s \cup B
          /\ (s \cup B) \ {x} = r \cup B
      BY <3>1
    <3>3. SumOn(f, r \cup B) = SumOn(f, r) (+) SumOn(f, B)
      BY <1>1, <3>1
    <3>4. SumOn(f, s \cup B) = f[x] (+) SumOn(f, (s \cup B) \ {x})
      BY <3>2, SumOnIs
    <3>5. SumOn(f, s) = f[x] (+) SumOn(f, r)
      BY <3>1, <3>2, SumOnIs
    <3>6. f[x] \in Value /\ SumOn(f, r) \in Value
      BY <3>1, <3>2, SumOnIs
    <3>7. (f[x] (+) SumOn(f, r)) (+) SumOn(f, B) = f[x] (+) (SumOn(f, r) (+) SumOn(f, B))
      BY <2>0, <3>6, AddingAssociates
    <3>8. SumOn(f, (s \cup B) \ {x}) = SumOn(f, r \cup B)
      BY <3>2
    <3>9. SumOn(f, s \cup B) = SumOn(f, s) (+) SumOn(f, B)
      BY <3>3, <3>4, <3>5, <3>7, <3>8
    <3>10. QED
      BY <3>9
  <2>3. QED
    BY <2>1, <2>2
<1> HIDE DEF G
<1>2. A \in G
  BY <1>0, <1>1, SubsetInduction
<1>3. QED
  BY <1>2 DEF G

\* The sum of sums.
LEMMA SumPlus ==
  ASSUME NEW D, IsFiniteSet(D), NEW f \in [D -> Value], NEW g \in [D -> Value],
         NEW h \in [D -> Value], \A x \in D : h[x] = f[x] (+) g[x]
  PROVE  SumOf(h) = SumOf(f) (+) SumOf(g)
<1> DEFINE G == {s \in SUBSET D : SumOn(h, s) = SumOn(f, s) (+) SumOn(g, s)}
<1>0. Zero \in Value /\ Zero (+) Zero = Zero
  BY WholeIs, Adding DEF Value
<1>1. ASSUME NEW s \in SUBSET D, \A x \in s : s \ {x} \in G PROVE s \in G
  <2>1. CASE s = {}
    BY <1>0, <2>1, SumOnIs
  <2>2. CASE s # {}
    <3>1. PICK x \in s : TRUE
      BY <2>2
    <3> DEFINE r == s \ {x}
    <3>2. SumOn(h, r) = SumOn(f, r) (+) SumOn(g, r)
      BY <1>1, <3>1
    <3>3. /\ SumOn(h, s) = h[x] (+) SumOn(h, r)
          /\ SumOn(f, s) = f[x] (+) SumOn(f, r)
          /\ SumOn(g, s) = g[x] (+) SumOn(g, r)
      BY <3>1, SumOnIs
    <3>4. r \in SUBSET D
      OBVIOUS
    <3> DEFINE a == f[x]
               b == g[x]
               c == SumOn(f, r)
               d == SumOn(g, r)
    <3>5. a \in Value /\ b \in Value /\ c \in Value /\ d \in Value
      BY <3>1, <3>4, SumOnIs
    <3>6. h[x] = a (+) b
      BY <3>1
    <3> HIDE DEF r, a, b, c, d
    <3>7. c (+) d \in Value /\ b (+) d \in Value
      BY <3>5, Adding
    <3>8. (a (+) b) (+) (c (+) d) = a (+) (b (+) (c (+) d))
      BY <3>5, <3>7, AddingAssociates
    <3>9. b (+) (c (+) d) = c (+) (b (+) d)
      BY <3>5, Swap
    <3>10. (a (+) c) (+) (b (+) d) = a (+) (c (+) (b (+) d))
      BY <3>5, <3>7, AddingAssociates
    <3>11. QED
      BY <3>2, <3>3, <3>6, <3>8, <3>9, <3>10 DEF a, b, c, d
  <2>3. QED
    BY <2>1, <2>2
<1> HIDE DEF G
<1>2. D \in G
  BY <1>1, SubsetInduction
<1>3. QED
  BY <1>2, SumOfIs DEF G

\* A sum is finite if and only if its terms are.
LEMMA SumRat ==
  ASSUME NEW D, IsFiniteSet(D), NEW f \in [D -> Value]
  PROVE  SumOf(f) \in Rat <=> \A x \in D : f[x] \in Rat
<1> DEFINE G == {s \in SUBSET D : SumOn(f, s) \in Rat <=> \A x \in s : f[x] \in Rat}
<1>1. ASSUME NEW s \in SUBSET D, \A x \in s : s \ {x} \in G PROVE s \in G
  <2>1. CASE s = {}
    <3>1. Zero \in Rat /\ SumOn(f, s) = Zero
      BY <2>1, WholeIs, SumOnIs
    <3>2. QED
      BY <2>1, <3>1
  <2>2. CASE s # {}
    <3>1. PICK x \in s : TRUE
      BY <2>2
    <3> DEFINE r == s \ {x}
    <3>2. SumOn(f, r) \in Rat <=> \A y \in r : f[y] \in Rat
      BY <1>1, <3>1
    <3>3. SumOn(f, s) = f[x] (+) SumOn(f, r)
      BY <3>1, SumOnIs
    <3>4. f[x] \in Value /\ SumOn(f, r) \in Value
      BY <3>1, SumOnIs
    <3>5. SumOn(f, s) \in Rat <=> f[x] \in Rat /\ SumOn(f, r) \in Rat
      BY <3>3, <3>4, Adding
    <3>6. QED
      BY <3>1, <3>2, <3>5
  <2>3. QED
    BY <2>1, <2>2
<1> HIDE DEF G
<1>2. D \in G
  BY <1>1, SubsetInduction
<1>3. QED
  BY <1>2, SumOfIs DEF G

\* A factor common to all terms.
LEMMA SumTimes ==
  ASSUME NEW D, IsFiniteSet(D), NEW f \in [D -> Rat], NEW h \in [D -> Rat],
         NEW c \in Rat, \A x \in D : h[x] = f[x] (.) c
  PROVE  SumOf(h) = SumOf(f) (.) c /\ SumOf(f) \in Rat /\ SumOf(h) \in Rat
<1>0. f \in [D -> Value] /\ h \in [D -> Value]
  BY DEF Value
<1> DEFINE G == {s \in SUBSET D : SumOn(f, s) \in Rat /\ SumOn(h, s) = SumOn(f, s) (.) c}
<1>1. ASSUME NEW s \in SUBSET D, \A x \in s : s \ {x} \in G PROVE s \in G
  <2>1. CASE s = {}
    <3>1. Zero \in Rat /\ SumOn(f, s) = Zero /\ SumOn(h, s) = Zero
      BY <1>0, <2>1, WholeIs, SumOnIs
    <3>2. Zero (.) c = Zero
      BY <3>1, TimesOne, TimesCommutes
    <3>3. QED
      BY <3>1, <3>2
  <2>2. CASE s # {}
    <3>1. PICK x \in s : TRUE
      BY <2>2
    <3> DEFINE r == s \ {x}
    <3>2. SumOn(f, r) \in Rat /\ SumOn(h, r) = SumOn(f, r) (.) c
      BY <1>1, <3>1
    <3>3. /\ SumOn(h, s) = h[x] (+) SumOn(h, r)
          /\ SumOn(f, s) = f[x] (+) SumOn(f, r)
      BY <1>0, <3>1, SumOnIs
    <3> DEFINE a == f[x]
               b == SumOn(f, r)
    <3>4. a \in Rat /\ b \in Rat /\ h[x] = a (.) c
      BY <3>1, <3>2
    <3> HIDE DEF r, a, b
    <3>5. a (+) b \in Rat /\ a (.) c \in Rat /\ b (.) c \in Rat
      BY <3>4, Closed
    <3>6. (a (+) b) (.) c = c (.) (a (+) b) /\ c (.) a = a (.) c /\ c (.) b = b (.) c
      BY <3>4, <3>5, TimesCommutes
    <3>7. c (.) (a (+) b) = (c (.) a) (+) (c (.) b)
      BY <3>4, Distributes
    <3>8. QED
      BY <3>2, <3>3, <3>4, <3>5, <3>6, <3>7 DEF a, b
  <2>3. QED
    BY <2>1, <2>2
<1> HIDE DEF G
<1>2. D \in G
  BY <1>1, SubsetInduction
<1>3. SumOf(f) \in Rat /\ SumOf(h) = SumOf(f) (.) c
  BY <1>0, <1>2, SumOfIs DEF G
<1>4. QED
  BY <1>3, Closed

\* Counting one more.
LEMMA WholesAdd == ASSUME NEW i \in Int PROVE One (+) Whole(i) = Whole(i + 1)
<1>1. 1 \in Int /\ 1 \in Nat \ {0} /\ i + 1 \in Int
  OBVIOUS
<1>2. Frac(1, 1) (+) Frac(i, 1) = Frac(1 * 1 + i * 1, 1 * 1)
  BY <1>1, Operations
<1>3. 1 * 1 + i * 1 = i + 1 /\ 1 * 1 = 1
  OBVIOUS
<1>4. QED
  BY <1>1, <1>2, <1>3, WholeIs

\* The sum of equal terms.
LEMMA SumSame ==
  ASSUME NEW D, IsFiniteSet(D), NEW f \in [D -> Rat], NEW c \in Rat, \A x \in D : f[x] = c
  PROVE  SumOf(f) = Whole(Cardinality(D)) (.) c
<1> DEFINE e == [x \in D |-> One]
           G == {s \in SUBSET D : SumOn(e, s) = Whole(Cardinality(s))}
<1>1. One \in Rat /\ e \in [D -> Rat] /\ e \in [D -> Value]
  BY WholeIs DEF Value
<1>2. ASSUME NEW s \in SUBSET D, \A x \in s : s \ {x} \in G PROVE s \in G
  <2>1. CASE s = {}
    <3>1. SumOn(e, s) = Zero
      BY <1>1, <2>1, SumOnIs
    <3>2. Cardinality(s) = 0
      BY <2>1, FS_EmptySet
    <3>3. QED
      BY <3>1, <3>2 DEF Zero
  <2>2. CASE s # {}
    <3>1. PICK x \in s : TRUE
      BY <2>2
    <3> DEFINE r == s \ {x}
               n == Cardinality(r)
    <3>2. IsFiniteSet(s) /\ IsFiniteSet(r)
      BY FS_Subset
    <3>3. n \in Nat /\ Cardinality(s) = n + 1
      <4>1. n = Cardinality(s) - 1 /\ Cardinality(s) \in Nat /\ n \in Nat
        BY <3>1, <3>2, FS_RemoveElement, FS_CardinalityType
      <4>2. QED
        BY <4>1
    <3>4. SumOn(e, s) = e[x] (+) SumOn(e, r)
      BY <1>1, <3>1, SumOnIs
    <3>5. SumOn(e, r) = Whole(n) /\ e[x] = One
      BY <1>2, <3>1
    <3>6. SumOn(e, s) = Whole(n + 1)
      BY <3>3, <3>4, <3>5, WholesAdd
    <3>7. QED
      BY <3>3, <3>6
  <2>3. QED
    BY <2>1, <2>2
<1> HIDE DEF G
<1>3. D \in G
  BY <1>2, SubsetInduction
<1>4. SumOf(e) = Whole(Cardinality(D))
  BY <1>1, <1>3, SumOfIs DEF G
<1>5. \A x \in D : f[x] = e[x] (.) c
  <2>1. One (.) c = c
    BY <1>1, TimesOne, TimesCommutes
  <2>2. QED
    BY <2>1
<1> HIDE DEF e
<1>6. SumOf(f) = SumOf(e) (.) c
  BY <1>1, <1>5, SumTimes
<1>7. QED
  BY <1>4, <1>6

\* Summing the same values under other names.
LEMMA SumRenamed ==
  ASSUME NEW D, NEW E, IsFiniteSet(E), NEW f \in [D -> Value], NEW g \in [E -> Value],
         NEW m \in Bijection(E, D), \A x \in E : g[x] = f[m[x]]
  PROVE  SumOf(g) = SumOf(f) /\ IsFiniteSet(D)
<1>0. /\ m \in [E -> D] /\ D = {m[x] : x \in E} /\ IsFiniteSet(D)
      /\ \A x, y \in E : m[x] = m[y] => x = y
  <2>1. m \in Surjection(E, D) /\ m \in Injection(E, D)
    BY DEF Bijection
  <2>2. IsFiniteSet(D)
    BY <2>1, FS_Surjection
  <2>3. QED
    BY <2>1, <2>2 DEF Surjection, Injection, IsInjective
<1> DEFINE Im(s) == {m[x] : x \in s}
           G == {s \in SUBSET E : SumOn(g, s) = SumOn(f, Im(s))}
<1>1. ASSUME NEW s \in SUBSET E, \A x \in s : s \ {x} \in G PROVE s \in G
  <2>1. CASE s = {}
    <3>1. Im(s) = {}
      BY <2>1
    <3>2. SumOn(g, s) = Zero /\ SumOn(f, Im(s)) = Zero
      BY <1>0, <2>1, <3>1, SumOnIs
    <3>3. QED
      BY <3>2
  <2>2. CASE s # {}
    <3>1. PICK x \in s : TRUE
      BY <2>2
    <3> DEFINE r == s \ {x}
    <3>2. Im(r) = Im(s) \ {m[x]} /\ m[x] \in Im(s) /\ Im(s) \in SUBSET D
      BY <1>0, <3>1
    <3>3. SumOn(g, s) = g[x] (+) SumOn(g, r)
      BY <3>1, SumOnIs
    <3>4. SumOn(f, Im(s)) = f[m[x]] (+) SumOn(f, Im(s) \ {m[x]})
      BY <1>0, <3>2, SumOnIs
    <3>5. SumOn(g, r) = SumOn(f, Im(r))
      BY <1>1, <3>1
    <3>6. SumOn(f, Im(s) \ {m[x]}) = SumOn(f, Im(r))
      BY <3>2
    <3>7. SumOn(g, s) = SumOn(f, Im(s))
      BY <3>1, <3>3, <3>4, <3>5, <3>6
    <3>8. QED
      BY <3>7
  <2>3. QED
    BY <2>1, <2>2
<1> HIDE DEF G
<1>2. E \in G
  BY <1>1, SubsetInduction
<1>3. SumOn(g, E) = SumOn(f, D)
  BY <1>0, <1>2 DEF G
<1>4. QED
  BY <1>0, <1>3, SumOfIs

\* Summing by groups.
LEMMA SumGroups ==
  ASSUME NEW D, IsFiniteSet(D), NEW f \in [D -> Value], NEW K, IsFiniteSet(K),
         NEW k \in [D -> K], NEW h \in [K -> Value],
         \A i \in K : h[i] = SumOn(f, {x \in D : k[x] = i})
  PROVE  SumOf(h) = SumOf(f)
<1> DEFINE In(s) == {x \in D : k[x] \in s}
           G == {s \in SUBSET K : SumOn(h, s) = SumOn(f, In(s))}
<1>1. ASSUME NEW s \in SUBSET K, \A i \in s : s \ {i} \in G PROVE s \in G
  <2>1. CASE s = {}
    <3>1. In(s) = {}
      BY <2>1
    <3>2. SumOn(h, s) = Zero /\ SumOn(f, In(s)) = Zero
      BY <2>1, <3>1, SumOnIs
    <3>3. QED
      BY <3>2
  <2>2. CASE s # {}
    <3>1. PICK i \in s : TRUE
      BY <2>2
    <3> DEFINE r == s \ {i}
               one == {x \in D : k[x] = i}
    <3>2. In(s) = one \cup In(r) /\ one \cap In(r) = {} /\ one \in SUBSET D /\ In(r) \in SUBSET D
      BY <3>1
    <3>3. SumOn(h, s) = h[i] (+) SumOn(h, r)
      BY <3>1, SumOnIs
    <3>4. SumOn(f, one \cup In(r)) = SumOn(f, one) (+) SumOn(f, In(r))
      <4> DEFINE A == one
                 B == In(r)
      <4>1. A \in SUBSET D /\ B \in SUBSET D /\ A \cap B = {}
        BY <3>2
      <4> HIDE DEF A, B
      <4>2. SumOn(f, A \cup B) = SumOn(f, A) (+) SumOn(f, B)
        BY <4>1, SumUnion
      <4>3. QED
        BY <4>2 DEF A, B
    <3>5. SumOn(h, r) = SumOn(f, In(r))
      BY <1>1, <3>1
    <3>6. h[i] = SumOn(f, one)
      BY <3>1
    <3>7. SumOn(f, In(s)) = SumOn(f, one \cup In(r))
      BY <3>2
    <3>8. SumOn(h, s) = SumOn(f, In(s))
      BY <3>3, <3>4, <3>5, <3>6, <3>7
    <3>9. QED
      BY <3>8
  <2>3. QED
    BY <2>1, <2>2
<1> HIDE DEF G
<1>2. K \in G
  BY <1>1, SubsetInduction
<1>3. SumOn(h, K) = SumOn(f, In(K)) /\ In(K) = D
  BY <1>2 DEF G
<1>4. SumOn(f, In(K)) = SumOn(f, D)
  BY <1>3
<1>5. QED
  BY <1>3, <1>4, SumOfIs

-----------------------------------------------------------------------------
(***************************************************************************)
(* The inductive invariant of a computation.  What was fetched has the     *)
(* types of amounts and prices, and what is to be answered is the function *)
(* of it that the source computes: the total is one of Totals, the entries *)
(* are those of the total, and the answer is the entries, merged unless    *)
(* the aggregate parameter says otherwise.                                 *)
(***************************************************************************)

\* The metric lists, as far as they have been fetched.
FetchedOK ==
  /\ params \in Params
  /\ Known \subseteq Pods
  /\ DOMAIN costs = CostMetrics
  /\ \A c \in CostMetrics :
       DOMAIN costs[c] \subseteq Pods /\ \A p \in DOMAIN costs[c] : costs[c][p] \in Int

\* The last of them, without which there is no computation.
PricesOK ==
  /\ DOMAIN nodeCost \subseteq Nodes /\ DOMAIN nodeCost # {}
  /\ \A n \in DOMAIN nodeCost : nodeCost[n] \in Int

\* What is answered.
Answer ==
  \/ allocSet = Entries(total) /\ (params.aggregate = "pod" \/ DOMAIN Entries(total) = {})
  \/ allocSet = SplitIdle(AggSet(Entries(total))) /\ params.aggregate # "pod"

AllocationInv ==
  /\ FetchedOK
  /\ pc \in {"compute", "aggregate", "done"} => PricesOK
  /\ pc \in {"aggregate", "done"} => total \in Totals /\ ~BadSplit
  /\ pc = "aggregate" => allocSet = Entries(total)
  /\ pc = "done" => Answer

-----------------------------------------------------------------------------

\* Costs, ratios and totals are finite: Ratio compares the total with zero.
LEMMA PodCostsRat ==
  ASSUME FetchedOK, PricesOK, NEW all \in Totals
  PROVE  /\ TotalNodeCost \in Rat /\ all \in Rat
         /\ \A p : Estimated(p) \in Rat /\ Ratio(p) \in Rat /\ PodCost(p, all) \in Rat
<1>1. TotalNodeCost \in Rat
  <2> DEFINE f == [n \in DOMAIN nodeCost |-> Whole(nodeCost[n])]
  <2>1. IsFiniteSet(DOMAIN nodeCost)
    BY AllocationAssumption, FS_Subset DEF PricesOK
  <2>2. f \in [DOMAIN nodeCost -> Rat]
    BY WholeIs DEF PricesOK
  <2>3. f \in [DOMAIN nodeCost -> Value]
    BY <2>2 DEF Value
  <2> HIDE DEF f
  <2>4. SumOf(f) \in Rat
    BY <2>1, <2>2, <2>3, SumRat
  <2>5. QED
    BY <2>4 DEF TotalNodeCost, f
<1>2. all \in Rat
  <2>1. \A b \in Bills : b \in Int
    BY AllocationAssumption
  <2>2. Zero \in Rat /\ \A i \in Int : Whole(i) \in Rat
    BY WholeIs
  <2>3. all = TotalNodeCost \/ all = Zero \/ \E b \in Bills : all = Whole(b)
    BY DEF Totals
  <2>4. QED
    BY <1>1, <2>1, <2>2, <2>3
<1>3. ASSUME NEW p PROVE Estimated(p) \in Rat
  <2> DEFINE a == Of("cost_pod_cpu_request", p)
             b == Of("cost_pod_memory_request", p)
  <2>1. a \in Int /\ b \in Int
    BY DEF Of, FetchedOK, CostMetrics
  <2>2. Weights[1] \in Int /\ Weights[2] \in Int
    BY AllocationAssumption
  <2> HIDE DEF a, b
  <2>3. Weights[1] * a + Weights[2] * b \in Int
    BY <2>1, <2>2
  <2>4. QED
    BY <2>3, WholeIs DEF Estimated, a, b
<1>4. ASSUME NEW p PROVE Ratio(p) \in Rat
  <2>1. CASE TotalNodeCost = Zero
    BY <2>1, WholeIs DEF Ratio
  <2>2. CASE TotalNodeCost # Zero
    <3>1. PICK z \in Rat : \A x \in Rat : x (/) TotalNodeCost = x (.) z
      BY <1>1, <2>2, Reciprocal
    <3>2. Ratio(p) = Estimated(p) (.) z
      BY <1>3, <2>2, <3>1 DEF Ratio
    <3>3. QED
      BY <1>3, <3>2, Closed
  <2>3. QED
    BY <2>1, <2>2
<1>5. ASSUME NEW p PROVE PodCost(p, all) \in Rat
  BY <1>2, <1>3, <1>4, Closed DEF PodCost
<1>6. QED
  BY <1>1, <1>2, <1>3, <1>4, <1>5

\* No list is followed by the computation but the last.
LEMMA AfterIs ==
  ASSUME NEW i \in 1..Len(PodMetrics)
  PROVE  After(i) \notin {"compute", "aggregate", "done"}
BY DEF After, PodMetrics

\* The invariant holds before the first list is fetched.
LEMMA InvInitially == Init => AllocationInv
<1> SUFFICES ASSUME Init PROVE AllocationInv
  OBVIOUS
<1>1. FetchedOK
  BY DEF Init, FetchedOK, Known, Nothing
<1>2. QED
  BY <1>1 DEF Init, AllocationInv

\* What the answer is made of changes only with what was fetched.
LEMMA Untouched ==
  ASSUME UNCHANGED <<params, fetched>>
  PROVE  /\ FetchedOK => FetchedOK'
         /\ PricesOK => PricesOK'
         /\ Totals' = Totals /\ BadSplit' = BadSplit
         /\ \A all : Entries(all)' = Entries(all)
         /\ \A set : SplitIdle(AggSet(set))' = SplitIdle(AggSet(set))
<1>1. /\ params' = params /\ podMap' = podMap /\ labelled' = labelled
      /\ costs' = costs /\ nodeCost' = nodeCost
  BY DEF fetched
<1>2. Known' = Known /\ ShowIdle' = ShowIdle /\ ByNode' = ByNode
  BY <1>1 DEF Known, ShowIdle, ByNode
<1>3. TotalNodeCost' = TotalNodeCost
  BY <1>1 DEF TotalNodeCost
<1>4. \A p : Estimated(p)' = Estimated(p)
  BY <1>1 DEF Estimated, Of
<1>5. \A p : Ratio(p)' = Ratio(p)
  BY <1>3, <1>4 DEF Ratio
<1>6. \A p, all : PodCost(p, all)' = PodCost(p, all)
  BY <1>1, <1>4, <1>5 DEF PodCost
<1>7. \A all : TotalPodCost(all)' = TotalPodCost(all)
  BY <1>2, <1>6 DEF TotalPodCost
<1>8. \A p, all : Shared(p, all)' = Shared(p, all)
  BY <1>1, <1>2, <1>6, <1>7 DEF Shared
<1>9. \A all : PodEntries(all)' = PodEntries(all)
  BY <1>1, <1>2, <1>5, <1>6, <1>8 DEF PodEntries
<1>10. \A all : IdleEntries(all)' = IdleEntries(all)
  BY <1>1, <1>2, <1>3, <1>5, <1>7 DEF IdleEntries
<1>11. \A all : Entries(all)' = Entries(all)
  BY <1>9, <1>10 DEF Entries
<1>12. \A x : AggregateKey(x)' = AggregateKey(x)
  BY <1>1 DEF AggregateKey, Group
<1>13. \A set : AggSet(set)' = AggSet(set)
  BY <1>12 DEF AggSet, Merged
<1>14. \A set : SplitIdle(set)' = SplitIdle(set)
  BY <1>2 DEF SplitIdle
<1>15. \A set : SplitIdle(AggSet(set))' = SplitIdle(AggSet(set))
  BY <1>13, <1>14
<1>16. Totals' = Totals /\ BadSplit' = BadSplit
  BY <1>1, <1>2, <1>3 DEF Totals, BadSplit
<1>17. (FetchedOK => FetchedOK') /\ (PricesOK => PricesOK')
  BY <1>1, <1>2 DEF FetchedOK, PricesOK
<1>18. QED
  BY <1>11, <1>15, <1>16, <1>17

\* The answer, made of what stays, stays.
LEMMA AnswerStays ==
  ASSUME UNCHANGED <<params, fetched>>, total' = total,
         \/ allocSet' = Entries(total) /\ (params.aggregate = "pod" \/ DOMAIN Entries(total) = {})
         \/ allocSet' = SplitIdle(AggSet(Entries(total))) /\ params.aggregate # "pod"
  PROVE  Answer'
<1>1. PICK all : all = total
  OBVIOUS
<1>2. Entries(total)' = Entries(total)
  <2>1. Entries(all)' = Entries(all)
    BY Untouched
  <2>2. QED
    BY <1>1, <2>1
<1>3. SplitIdle(AggSet(Entries(total)))' = SplitIdle(AggSet(Entries(total)))
  <2>1. PICK set : set = Entries(total)
    OBVIOUS
  <2>2. SplitIdle(AggSet(set))' = SplitIdle(AggSet(set))
    BY Untouched
  <2>3. QED
    BY <1>2, <2>1, <2>2
<1>4. QED
  BY <1>2, <1>3 DEF Answer

\* Every step keeps the invariant.
LEMMA InvPreserved == AllocationInv /\ [Next]_vars => AllocationInv'
<1> SUFFICES ASSUME AllocationInv, [Next]_vars PROVE AllocationInv'
  OBVIOUS
<1> USE DEF AllocationInv
<1>1. ASSUME UNCHANGED <<params, fetched>>, pc' \notin {"compute", "aggregate", "done"}
      PROVE  AllocationInv'
  BY <1>1 DEF FetchedOK, Known, fetched
<1>2. CASE UseNilList
  BY <1>1, <1>2 DEF UseNilList
<1>3. CASE FetchPodInfo
  <2>1. Known' \subseteq Pods
    BY <1>3 DEF FetchPodInfo, Known
  <2>2. QED
    BY <1>3, <2>1 DEF FetchPodInfo, FetchedOK
<1>4. CASE FetchPodLabels
  BY <1>4 DEF FetchPodLabels, FetchedOK, Known
<1>5. CASE FetchNodeInfo
  BY <1>1, <1>5 DEF FetchNodeInfo, PodMetrics
<1>6. ASSUME NEW i \in 1..Len(PodMetrics), ApplyMetric(i) PROVE AllocationInv'
  <2>1. pc' \notin {"compute", "aggregate", "done"} /\ UNCHANGED <<params, podMap>>
    BY <1>6, AfterIs DEF ApplyMetric
  <2>2. FetchedOK'
    <3>1. CASE UNCHANGED costs
      BY <2>1, <3>1 DEF FetchedOK, Known
    <3>2. CASE pc \in CostMetrics
      <4>1. PICK known \in SUBSET DOMAIN podMap :
              \E f \in [known -> PodAmounts] : costs' = [costs EXCEPT ![pc] = f]
        BY <1>6, <3>2 DEF ApplyMetric
      <4>2. PICK f \in [known -> PodAmounts] : costs' = [costs EXCEPT ![pc] = f]
        BY <4>1
      <4>3. DOMAIN f \subseteq Pods /\ \A p \in DOMAIN f : f[p] \in Int
        BY AllocationAssumption DEF FetchedOK, Known
      <4>4. QED
        BY <2>1, <4>2, <4>3 DEF FetchedOK, Known
    <3>3. QED
      BY <1>6, <3>1, <3>2 DEF ApplyMetric
  <2>3. QED
    BY <2>1, <2>2
<1>7. ASSUME NEW i \in 1..Len(PodMetrics), ApplyUnknownPod(i) PROVE AllocationInv'
  BY <1>1, <1>7 DEF ApplyUnknownPod
<1>8. CASE FetchNodeCost
  <2>1. FetchedOK'
    BY <1>8 DEF FetchNodeCost, FetchedOK, Known
  <2>2. PICK known \in (SUBSET Nodes) \ {{}} : nodeCost' \in [known -> NodeAmounts]
    BY <1>8 DEF FetchNodeCost
  <2>3. PricesOK'
    <3>1. DOMAIN nodeCost' = known /\ \A n \in known : nodeCost'[n] \in Int
      BY <2>2, AllocationAssumption
    <3>2. known \subseteq Nodes /\ known # {}
      BY <2>2
    <3>3. QED
      BY <3>1, <3>2 DEF PricesOK
  <2>4. QED
    BY <1>8, <2>1, <2>3 DEF FetchNodeCost
<1>9. CASE Compute
  <2>1. UNCHANGED <<params, fetched>> /\ pc' = "aggregate" /\ ~BadSplit /\ PricesOK
    BY <1>9 DEF Compute
  <2>2. PICK all \in Totals : total' = all /\ allocSet' = Entries(all)
    BY <1>9 DEF Compute
  <2>3. Entries(all)' = Entries(all)
    BY <2>1, Untouched
  <2>4. QED
    BY <2>1, <2>2, <2>3, Untouched
<1>10. CASE ComputeFails
  BY <1>1, <1>10 DEF ComputeFails
<1>11. CASE Aggregate
  <2>1. UNCHANGED <<params, fetched>> /\ total' = total /\ pc = "aggregate" /\ pc' = "done"
    BY <1>11 DEF Aggregate
  <2>2. Answer'
    <3>1. allocSet' = IF params.aggregate = "pod" \/ DOMAIN Entries(total) = {} THEN Entries(total)
                      ELSE SplitIdle(AggSet(Entries(total)))
      BY <1>11 DEF Aggregate
    <3>2. QED
      BY <2>1, <3>1, AnswerStays
  <2>3. QED
    BY <2>1, <2>2, Untouched
<1>12. CASE AggregateFails
  BY <1>1, <1>12 DEF AggregateFails
<1>13. CASE UNCHANGED vars
  <2>1. UNCHANGED <<params, fetched>> /\ UNCHANGED <<total, allocSet>> /\ pc' = pc
    BY <1>13 DEF vars, fetched
  <2>2. Entries(total)' = Entries(total)
    BY <2>1, Untouched
  <2>3. Answer => Answer'
    BY <2>1, AnswerStays DEF Answer
  <2>4. QED
    BY <2>1, <2>2, <2>3, Untouched
<1>14. CASE Answered
  BY <1>13, <1>14 DEF Answered
<1>15. QED
  BY <1>2, <1>3, <1>4, <1>5, <1>6, <1>7, <1>8, <1>9, <1>10, <1>11, <1>12, <1>13, <1>14 DEF Next

\* The inductive invariant holds throughout.
LEMMA AllocationCorrect == Spec => []AllocationInv
BY InvInitially, InvPreserved, PTL DEF Spec

-----------------------------------------------------------------------------
(***************************************************************************)
(* The entries of an allocation, and when they are finite numbers.         *)
(***************************************************************************)

\* The names of the entries, and what each of them has.
IdleNames ==
  IF ~ShowIdle \/ params.shareIdle THEN {}
  ELSE IF ByNode THEN {IdleOf(n) : n \in DOMAIN nodeCost} ELSE {IdleName}
PodNames == {Pod(p) : p \in Known}

NodeEntry(n, all) ==
  LET part == Whole(nodeCost[n]) (/) TotalNodeCost IN [cost |-> part (.) all, ratio |-> part]

RestEntry(all) ==
  [cost |-> all (-) TotalPodCost(all), ratio |-> One (-) SumOf([p \in Known |-> Ratio(p)])]

PodEntry(p, all) ==
  IF ShowIdle /\ params.shareIdle THEN Shared(p, all)
  ELSE [cost |-> PodCost(p, all), ratio |-> Ratio(p)]

\* The entries before they are merged, by name.
LEMMA EntriesAre ==
  ASSUME NEW all
  PROVE  /\ DOMAIN Entries(all) = PodNames \cup IdleNames
         /\ PodNames \cap IdleNames = {}
         /\ \A p \in Known : Entries(all)[Pod(p)] = PodEntry(p, all)
         /\ IdleName \in IdleNames => Entries(all)[IdleName] = RestEntry(all)
         /\ \A n : IdleOf(n) \in IdleNames => Entries(all)[IdleOf(n)] = NodeEntry(n, all)
<1>1. DOMAIN PodEntries(all) = PodNames /\ DOMAIN IdleEntries(all) = IdleNames
  BY DEF PodEntries, IdleEntries, PodNames, IdleNames, Nothing
<1>2. \A x \in PodNames : x[1] = "pod"
  BY DEF PodNames, Pod
<1>3. \A x \in IdleNames : x[1] # "pod"
  BY DEF IdleNames, IdleOf, IdleName
<1>4. PodNames \cap IdleNames = {}
  BY <1>2, <1>3
<1>5. DOMAIN Entries(all) = PodNames \cup IdleNames
  BY <1>1 DEF Entries
<1>6. \A x \in PodNames : Entries(all)[x] = PodEntries(all)[x]
  BY <1>1 DEF Entries
<1>7. \A x \in IdleNames : Entries(all)[x] = IdleEntries(all)[x]
  BY <1>1, <1>4 DEF Entries
<1>8. ASSUME NEW p \in Known PROVE Entries(all)[Pod(p)] = PodEntry(p, all)
  <2>1. Pod(p) \in PodNames /\ Pod(p)[2] = p
    BY DEF PodNames, Pod
  <2>2. PodEntries(all)[Pod(p)] = PodEntry(p, all)
    BY <2>1 DEF PodEntries, PodEntry, PodNames
  <2>3. QED
    BY <1>6, <2>1, <2>2
<1>9. ASSUME IdleName \in IdleNames PROVE Entries(all)[IdleName] = RestEntry(all)
  <2>1. ~ByNode
    BY <1>9 DEF IdleNames, IdleOf, IdleName
  <2>2. IdleEntries(all)[IdleName] = RestEntry(all)
    BY <1>9, <2>1 DEF IdleEntries, IdleNames, RestEntry
  <2>3. QED
    BY <1>7, <1>9, <2>2
<1>10. ASSUME NEW n, IdleOf(n) \in IdleNames PROVE Entries(all)[IdleOf(n)] = NodeEntry(n, all)
  <2>1. ByNode /\ IdleOf(n)[2] = n
    BY <1>10 DEF IdleNames, IdleOf, IdleName
  <2>2. IdleEntries(all)[IdleOf(n)] = NodeEntry(n, all)
    BY <1>10, <2>1 DEF IdleEntries, IdleNames, NodeEntry
  <2>3. QED
    BY <1>7, <1>10, <2>2
<1>11. QED
  BY <1>4, <1>5, <1>8, <1>9, <1>10

\* A division by a finite number is finite unless that is zero.
LEMMA Dividing ==
  ASSUME NEW x \in Value, NEW y \in Rat
  PROVE  x (/) y \in Value /\ (x (/) y \in Rat <=> x \in Rat /\ y # Zero)
<1>1. CASE y = Zero
  BY <1>1, InfiniteStays DEF Value
<1>2. CASE y # Zero /\ x \in Rat
  <2>1. PICK z \in Rat : x (/) y = x (.) z
    BY <1>2, Reciprocal
  <2>2. QED
    BY <1>2, <2>1, Closed DEF Value
<1>3. CASE x = Infinite
  BY <1>3, InfiniteStays DEF Value
<1>4. QED
  BY <1>1, <1>2, <1>3 DEF Value

\* Whole numbers are zero only as numbers.
LEMMA WholeZero == ASSUME NEW i \in Int PROVE Whole(i) = Zero <=> i = 0
BY DEF Whole, Zero

\* What a computation can rely on.
Fetched(all) == FetchedOK /\ PricesOK /\ all \in Totals /\ ~BadSplit

\* There are finitely many pods and priced nodes.
LEMMA KnownFinite == ASSUME NEW all, Fetched(all) PROVE IsFiniteSet(Known) /\ IsFiniteSet(DOMAIN nodeCost)
BY AllocationAssumption, FS_Subset DEF Fetched, FetchedOK, PricesOK

\* The sums over pods and nodes are finite numbers.
LEMMA PodSums ==
  ASSUME NEW all, Fetched(all)
  PROVE  /\ all \in Rat /\ TotalNodeCost \in Rat
         /\ \A p : PodCost(p, all) \in Rat /\ Ratio(p) \in Rat
         /\ TotalPodCost(all) \in Rat /\ SumOf([p \in Known |-> Ratio(p)]) \in Rat
<1>1. \A p : PodCost(p, all) \in Rat /\ Ratio(p) \in Rat
  BY PodCostsRat DEF Fetched
<1>2. \A f \in [Known -> Rat] : SumOf(f) \in Rat
  <2>1. \A f \in [Known -> Rat] : f \in [Known -> Value]
    BY DEF Value
  <2>2. QED
    BY <2>1, KnownFinite, SumRat
<1>3. [p \in Known |-> PodCost(p, all)] \in [Known -> Rat] /\ [p \in Known |-> Ratio(p)] \in [Known -> Rat]
  BY <1>1
<1>4. TotalPodCost(all) \in Rat /\ SumOf([p \in Known |-> Ratio(p)]) \in Rat
  BY <1>2, <1>3 DEF TotalPodCost
<1>5. all \in Rat /\ TotalNodeCost \in Rat
  BY PodCostsRat DEF Fetched
<1>6. QED
  BY <1>1, <1>4, <1>5

\* A pod's part of the idle cost.
Part(p, all) ==
  IF params.shareSplit = "weighted"
    THEN ((all (-) TotalPodCost(all)) (.) PodCost(p, all)) (/) TotalPodCost(all)
    ELSE (all (-) TotalPodCost(all)) (/) Whole(Cardinality(Known))

\* A pod's part is finite unless there is a division by zero.
LEMMA PartIs ==
  ASSUME NEW all, Fetched(all), NEW p \in Known
  PROVE  /\ Part(p, all) \in Value
         /\ Part(p, all) \in Rat <=> (params.shareSplit = "weighted" => TotalPodCost(all) # Zero)
         /\ Shared(p, all) = [cost |-> PodCost(p, all) (+) Part(p, all),
                              ratio |-> (PodCost(p, all) (+) Part(p, all)) (/) all]
<1> DEFINE tp == TotalPodCost(all)
           idle == all (-) tp
           pc1 == PodCost(p, all)
           num == idle (.) pc1
           n == Whole(Cardinality(Known))
<1>1. idle \in Rat /\ tp \in Rat
  BY PodSums, Closed
<1>2. num \in Rat
  <2>1. pc1 \in Rat
    BY PodSums
  <2> HIDE DEF pc1, idle
  <2>2. QED
    BY <1>1, <2>1, Closed
<1>3. n \in Rat /\ n # Zero
  <2>1. Cardinality(Known) \in Nat /\ Cardinality(Known) # 0
    BY KnownFinite, FS_CardinalityType, FS_EmptySet
  <2>2. QED
    BY <2>1, WholeIs, WholeZero
<1>4. Shared(p, all) = [cost |-> PodCost(p, all) (+) Part(p, all),
                        ratio |-> (PodCost(p, all) (+) Part(p, all)) (/) all]
  BY DEF Shared, Part
<1>5. Part(p, all) = IF params.shareSplit = "weighted" THEN num (/) tp ELSE idle (/) n
  BY DEF Part
<1> HIDE DEF tp, idle, num, n
<1>6. idle \in Value /\ num \in Value
  BY <1>1, <1>2 DEF Value
<1>7. num (/) tp \in Value /\ (num (/) tp \in Rat <=> tp # Zero)
  BY <1>1, <1>2, <1>6, Dividing
<1>8. idle (/) n \in Value /\ idle (/) n \in Rat
  BY <1>1, <1>3, <1>6, Dividing
<1>9. QED
  BY <1>4, <1>5, <1>7, <1>8 DEF tp

\* No entry is computed by a division by zero.
\* The divisions of a computation that shows idle cost are not by zero.
Divisible(all) ==
  IF params.shareIdle
    THEN all # Zero /\ (params.shareSplit = "weighted" => TotalPodCost(all) # Zero)
    ELSE ByNode => TotalNodeCost # Zero

\* An entry is finite if and only if nothing is divided by zero.
LEMMA EntriesHaveValues ==
  ASSUME NEW all, Fetched(all), NEW x \in DOMAIN Entries(all)
  PROVE  LET e == Entries(all)[x]
         IN  /\ e.cost \in Value /\ e.ratio \in Value
             /\ (ShowIdle => Divisible(all)) => e.cost \in Rat /\ e.ratio \in Rat
             /\ e.cost \in Rat /\ e.ratio \in Rat /\ ShowIdle /\ (params.shareIdle \/ x \notin PodNames)
                  => Divisible(all)
<1> DEFINE e == Entries(all)[x]
<1>0. \A y : y \in Rat => y \in Value
  BY DEF Value
<1>1. ASSUME NEW p \in Known, x = Pod(p), ShowIdle, params.shareIdle
      PROVE  /\ e.cost \in Value /\ e.ratio \in Value
             /\ e.cost \in Rat /\ e.ratio \in Rat <=> Divisible(all)
  <2> DEFINE a == PodCost(p, all)
             b == Part(p, all)
  <2>1. e = [cost |-> a (+) b, ratio |-> (a (+) b) (/) all]
    BY <1>1, EntriesAre, PartIs DEF PodEntry
  <2>2. a \in Rat /\ b \in Value
        /\ (b \in Rat <=> (params.shareSplit = "weighted" => TotalPodCost(all) # Zero))
    BY PodSums, PartIs
  <2> HIDE DEF a, b, e
  <2>3. a (+) b \in Value /\ (a (+) b \in Rat <=> b \in Rat)
    BY <1>0, <2>2, Adding
  <2>4. all \in Rat
    BY PodSums
  <2>5. (a (+) b) (/) all \in Value /\ ((a (+) b) (/) all \in Rat <=> b \in Rat /\ all # Zero)
    BY <2>3, <2>4, Dividing
  <2>6. Divisible(all) <=> b \in Rat /\ all # Zero
    <3>1. Divisible(all) <=> all # Zero /\ (params.shareSplit = "weighted" => TotalPodCost(all) # Zero)
      BY <1>1, Zenon DEF Divisible
    <3>2. QED
      BY <2>2, <3>1
  <2>7. e.cost = a (+) b /\ e.ratio = (a (+) b) (/) all
    BY <2>1
  <2>8. QED
    BY <2>3, <2>5, <2>6, <2>7
<1>2. ASSUME NEW p \in Known, x = Pod(p), ~(ShowIdle /\ params.shareIdle)
      PROVE  e.cost \in Rat /\ e.ratio \in Rat
  <2>1. e = [cost |-> PodCost(p, all), ratio |-> Ratio(p)]
    BY <1>2, EntriesAre DEF PodEntry
  <2>2. PodCost(p, all) \in Rat /\ Ratio(p) \in Rat
    BY PodSums
  <2> HIDE DEF e
  <2>3. QED
    BY <2>1, <2>2
<1>3. ASSUME x = IdleName, x \in IdleNames PROVE e.cost \in Rat /\ e.ratio \in Rat /\ ~ByNode
  <2>1. e = RestEntry(all)
    BY <1>3, EntriesAre
  <2>2. all (-) TotalPodCost(all) \in Rat
    BY PodSums, Closed
  <2>3. One (-) SumOf([p \in Known |-> Ratio(p)]) \in Rat
    BY PodSums, WholeIs, Closed
  <2>4. ~ByNode
    BY <1>3 DEF IdleNames, IdleOf, IdleName
  <2>5. QED
    BY <2>1, <2>2, <2>3, <2>4 DEF RestEntry
<1>4. ASSUME NEW n \in DOMAIN nodeCost, x = IdleOf(n), x \in IdleNames
      PROVE  /\ e.cost \in Value /\ e.ratio \in Value /\ ByNode
             /\ e.cost \in Rat <=> TotalNodeCost # Zero
             /\ e.ratio \in Rat <=> TotalNodeCost # Zero
  <2> DEFINE part == Whole(nodeCost[n]) (/) TotalNodeCost
  <2>1. Whole(nodeCost[n]) \in Rat /\ TotalNodeCost \in Rat /\ all \in Rat
    BY PodSums, WholeIs DEF Fetched, PricesOK
  <2>2. part \in Value /\ (part \in Rat <=> TotalNodeCost # Zero)
    BY <1>0, <2>1, Dividing
  <2>3. e = [cost |-> part (.) all, ratio |-> part] /\ ByNode
    BY <1>4, EntriesAre DEF NodeEntry, IdleNames, IdleOf, IdleName
  <2> HIDE DEF part, e
  <2>4. part (.) all \in Value /\ (part (.) all \in Rat <=> part \in Rat)
    <3>1. CASE part \in Rat
      BY <1>0, <2>1, <3>1, Closed
    <3>2. CASE part = Infinite
      BY <1>0, <2>1, <3>2, InfiniteStays DEF Value
    <3>3. QED
      BY <2>2, <3>1, <3>2 DEF Value
  <2>5. QED
    BY <2>2, <2>3, <2>4
<1>5. x \in PodNames \/ x \in IdleNames
  BY EntriesAre
<1>6. CASE x \in PodNames
  BY <1>0, <1>1, <1>2, <1>6 DEF PodNames
<1>7. CASE x \in IdleNames
  <2>1. ~params.shareIdle /\ ShowIdle
    BY <1>7 DEF IdleNames
  <2>2. CASE x = IdleName
    BY <1>0, <1>3, <1>7, <2>1, <2>2 DEF Divisible
  <2>3. CASE \E n \in DOMAIN nodeCost : x = IdleOf(n)
    BY <1>4, <1>7, <2>1, <2>3 DEF Divisible
  <2>4. QED
    BY <1>7, <2>2, <2>3 DEF IdleNames
<1>8. QED
  BY <1>5, <1>6, <1>7

-----------------------------------------------------------------------------
(***************************************************************************)
(* What the entries add up to.                                             *)
(***************************************************************************)

\* A dividend is the divisor times the quotient.
LEMMA Undivided ==
  ASSUME NEW x \in Rat, NEW y \in Rat, y # Zero
  PROVE  y (.) (x (/) y) = x /\ x (/) y \in Rat /\ x (/) y = x (.) (One (/) y)
<1>1. PICK z \in Rat : y (.) z = One /\ \A u \in Rat : u (/) y = u (.) z
  BY Reciprocal
<1>2. One \in Rat /\ x (/) y = x (.) z /\ One (/) y = One (.) z /\ One (.) z = z
  <2>1. One \in Rat
    BY WholeIs
  <2>2. One (.) z = z
    BY <2>1, TimesCommutes, TimesOne
  <2>3. QED
    BY <1>1, <2>1, <2>2
<1>3. y (.) (x (.) z) = x
  <2>1. x (.) z = z (.) x /\ z \in Rat /\ z (.) x \in Rat
    BY TimesCommutes, Closed
  <2>2. y (.) (z (.) x) = (y (.) z) (.) x
    BY TimesAssociates
  <2>3. One (.) x = x
    BY <1>2, TimesCommutes, TimesOne
  <2>4. QED
    BY <1>1, <2>1, <2>2, <2>3
<1>4. x (.) z \in Rat
  BY Closed
<1>5. QED
  BY <1>2, <1>3, <1>4

\* A number is any other and the rest.
LEMMA Rest == ASSUME NEW x \in Rat, NEW y \in Rat PROVE y (+) (x (-) y) = x
<1>1. x (-) y \in Rat
  BY Closed
<1>2. QED
  BY <1>1, MinusPlus, PlusCommutes

\* The sum over a set in two parts.
LEMMA SumSplit ==
  ASSUME NEW A, NEW B, IsFiniteSet(A), IsFiniteSet(B), A \cap B = {},
         NEW D, D = A \cup B, NEW f \in [D -> Value]
  PROVE  SumOf(f) = SumOf([x \in A |-> f[x]]) (+) SumOf([x \in B |-> f[x]])
<1>1. IsFiniteSet(D) /\ A \in SUBSET D /\ B \in SUBSET D
  BY FS_Union
<1>2. SumOf(f) = SumOn(f, D)
  BY <1>1, SumOfIs
<1>3. SumOn(f, A \cup B) = SumOn(f, A) (+) SumOn(f, B)
  BY <1>1, SumUnion
<1>4. QED
  BY <1>2, <1>3 DEF SumOn

\* The sum of one term.
LEMMA SumSingle == ASSUME NEW a, NEW f \in [{a} -> Value] PROVE SumOf(f) = f[a]
<1>1. IsFiniteSet({a}) /\ {a} \in SUBSET {a} /\ {a} \ {a} = {}
  BY FS_Singleton
<1>2. SumOn(f, {a}) = f[a] (+) SumOn(f, {a} \ {a}) /\ SumOn(f, {}) = Zero
  BY <1>1, SumOnIs
<1>3. SumOn(f, {a} \ {a}) = SumOn(f, {})
  BY <1>1
<1>4. f[a] (+) Zero = f[a]
  BY Adding, WholeIs DEF Value
<1>5. QED
  BY <1>1, <1>2, <1>3, <1>4, SumOfIs

\* The sum of none.
LEMMA SumNone == ASSUME NEW f \in [{} -> Value] PROVE SumOf(f) = Zero
<1>1. IsFiniteSet({}) /\ {} \in SUBSET {}
  BY FS_EmptySet
<1>2. QED
  BY <1>1, SumOnIs, SumOfIs

\* The pods' parts of the idle cost make up the idle cost.
LEMMA PartsSum ==
  ASSUME NEW all, Fetched(all), Known # {}, params.shareSplit = "weighted" => TotalPodCost(all) # Zero
  PROVE  /\ [p \in Known |-> Part(p, all)] \in [Known -> Rat]
         /\ SumOf([p \in Known |-> Part(p, all)]) = all (-) TotalPodCost(all)
<1> DEFINE tp == TotalPodCost(all)
           idle == all (-) tp
           f == [p \in Known |-> PodCost(p, all)]
           h == [p \in Known |-> Part(p, all)]
           n == Whole(Cardinality(Known))
<1>1. idle \in Rat /\ tp \in Rat /\ f \in [Known -> Rat]
  BY PodSums, Closed
<1>2. h \in [Known -> Rat]
  BY PartIs
<1>3. IsFiniteSet(Known) /\ SumOf(f) = tp
  BY KnownFinite DEF TotalPodCost
<1>4. n \in Rat /\ n # Zero
  <2>1. Cardinality(Known) \in Nat /\ Cardinality(Known) # 0
    BY KnownFinite, FS_CardinalityType, FS_EmptySet
  <2>2. QED
    BY <2>1, WholeIs, WholeZero
<1>5. \A p \in Known : /\ h[p] = IF params.shareSplit = "weighted" THEN (idle (.) f[p]) (/) tp ELSE idle (/) n
                       /\ f[p] \in Rat
  <2>1. \A p \in Known : f[p] = PodCost(p, all) /\ h[p] = Part(p, all)
    OBVIOUS
  <2>2. \A p \in Known : Part(p, all) = IF params.shareSplit = "weighted"
                                        THEN (idle (.) PodCost(p, all)) (/) tp ELSE idle (/) n
    BY DEF Part
  <2> HIDE DEF h, f, idle, tp, n
  <2>3. QED
    BY <1>1, <2>1, <2>2
<1>6. params.shareSplit = "weighted" => tp # Zero
  OBVIOUS
<1> HIDE DEF tp, idle, f, h, n
<1>7. CASE params.shareSplit = "weighted"
  <2> DEFINE z == One (/) tp
             c == idle (.) z
  <2>1. z \in Rat
    BY <1>1, <1>6, <1>7, Undivided, WholeIs
  <2>2. c \in Rat /\ c = idle (/) tp
    BY <1>1, <1>6, <1>7, <2>1, Undivided, Closed
  <2>3. ASSUME NEW p \in Known PROVE h[p] = f[p] (.) c
    <3>1. f[p] \in Rat /\ h[p] = (idle (.) f[p]) (/) tp
      BY <1>5, <1>7
    <3>2. idle (.) f[p] = f[p] (.) idle /\ idle (.) f[p] \in Rat
      BY <1>1, <3>1, TimesCommutes, Closed
    <3>3. (idle (.) f[p]) (/) tp = (idle (.) f[p]) (.) z
      BY <1>1, <1>6, <1>7, <3>2, Undivided
    <3>4. (f[p] (.) idle) (.) z = f[p] (.) (idle (.) z)
      BY <1>1, <2>1, <3>1, TimesAssociates
    <3>5. QED
      BY <3>1, <3>2, <3>3, <3>4
  <2> HIDE DEF c
  <2>4. SumOf(h) = SumOf(f) (.) c
    BY <1>1, <1>2, <1>3, <2>2, <2>3, SumTimes
  <2>5. tp (.) c = idle
    BY <1>1, <1>6, <1>7, <2>2, Undivided
  <2>6. QED
    BY <1>2, <1>3, <2>4, <2>5 DEF h, idle, tp
<1>8. CASE params.shareSplit # "weighted"
  <2> DEFINE c == idle (/) n
  <2>1. c \in Rat /\ n (.) c = idle
    BY <1>1, <1>4, Undivided
  <2>2. \A p \in Known : h[p] = c
    BY <1>5, <1>8
  <2> HIDE DEF c
  <2>3. SumOf(h) = n (.) c
    BY <1>2, <1>3, <2>1, <2>2, SumSame DEF n
  <2>4. QED
    BY <1>2, <2>1, <2>3 DEF h, idle, tp
<1>9. QED
  BY <1>7, <1>8

\* Names that carry a tag do not change a sum.
LEMMA TaggedSum ==
  ASSUME NEW t, NEW K, IsFiniteSet(K), NEW e \in [{<<t, x>> : x \in K} -> Value]
  PROVE  SumOf(e) = SumOf([x \in K |-> e[<<t, x>>]]) /\ IsFiniteSet({<<t, x>> : x \in K})
<1> DEFINE D == {<<t, x>> : x \in K}
           m == [x \in K |-> <<t, x>>]
           g == [x \in K |-> e[<<t, x>>]]
<1>1. g \in [K -> Value]
  OBVIOUS
<1>2. m \in Bijection(K, D)
  BY DEF Bijection, Surjection, Injection, IsInjective
<1>3. \A x \in K : g[x] = e[m[x]]
  OBVIOUS
<1> HIDE DEF D, m, g
<1>4. e \in [D -> Value]
  BY DEF D
<1>5. SumOf(g) = SumOf(e) /\ IsFiniteSet(D)
  BY <1>1, <1>2, <1>3, <1>4, SumRenamed
<1>6. QED
  BY <1>5 DEF g, D

\* The sum over the pods' names.
LEMMA PodNamesSum ==
  ASSUME NEW K, IsFiniteSet(K), NEW e \in [{Pod(p) : p \in K} -> Value]
  PROVE  SumOf(e) = SumOf([p \in K |-> e[Pod(p)]]) /\ IsFiniteSet({Pod(p) : p \in K})
BY TaggedSum DEF Pod

\* The sum over the names of the nodes' idle costs.
LEMMA NodeNamesSum ==
  ASSUME NEW K, IsFiniteSet(K), NEW e \in [{IdleOf(n) : n \in K} -> Value]
  PROVE  SumOf(e) = SumOf([n \in K |-> e[IdleOf(n)]]) /\ IsFiniteSet({IdleOf(n) : n \in K})
BY TaggedSum DEF IdleOf

\* There are finitely many entries.
LEMMA NamesFinite ==
  ASSUME NEW all, Fetched(all)
  PROVE  IsFiniteSet(PodNames) /\ IsFiniteSet(IdleNames) /\ IsFiniteSet(DOMAIN Entries(all))
<1> DEFINE one == [p \in {Pod(p) : p \in Known} |-> Zero]
           two == [x \in {IdleOf(n) : n \in DOMAIN nodeCost} |-> Zero]
<1>1. Zero \in Value
  BY WholeIs DEF Value
<1>2. one \in [{Pod(p) : p \in Known} -> Value]
  BY <1>1
<1>3. two \in [{IdleOf(n) : n \in DOMAIN nodeCost} -> Value]
  BY <1>1
<1> HIDE DEF one, two
<1>4. IsFiniteSet(PodNames)
  BY <1>2, KnownFinite, PodNamesSum DEF PodNames
<1>5. IsFiniteSet({IdleOf(n) : n \in DOMAIN nodeCost})
  BY <1>3, KnownFinite, NodeNamesSum
<1>6. IsFiniteSet(IdleNames)
  BY <1>5, FS_EmptySet, FS_Singleton DEF IdleNames
<1>7. IsFiniteSet(PodNames \cup IdleNames)
  BY <1>4, <1>6, FS_Union
<1>8. DOMAIN Entries(all) = PodNames \cup IdleNames
  BY EntriesAre
<1>9. QED
  BY <1>4, <1>6, <1>7, <1>8

\* The sum of the pods' entries and of the idle cost's.
LEMMA EntriesSum ==
  ASSUME NEW all, Fetched(all), NEW e \in [PodNames \cup IdleNames -> Value]
  PROVE  SumOf(e) = SumOf([p \in Known |-> e[Pod(p)]]) (+) SumOf([x \in IdleNames |-> e[x]])
<1> DEFINE d == [x \in PodNames |-> e[x]]
<1>1. SumOf(e) = SumOf(d) (+) SumOf([x \in IdleNames |-> e[x]])
  BY NamesFinite, EntriesAre, SumSplit
<1>2. d \in [{Pod(p) : p \in Known} -> Value]
  BY DEF PodNames
<1>3. [p \in Known |-> d[Pod(p)]] = [p \in Known |-> e[Pod(p)]]
  BY DEF PodNames
<1> HIDE DEF d
<1>4. SumOf(d) = SumOf([p \in Known |-> d[Pod(p)]])
  BY <1>2, KnownFinite, PodNamesSum
<1>5. QED
  BY <1>1, <1>3, <1>4

\* With shareIdle the pods' entries make up the total.
LEMMA SharedSum ==
  ASSUME NEW all, Fetched(all), ShowIdle, params.shareIdle, Known # {}, Divisible(all)
  PROVE  /\ SumOf([p \in Known |-> PodEntry(p, all).cost]) = all
         /\ SumOf([p \in Known |-> PodEntry(p, all).ratio]) = One
<1> DEFINE tp == TotalPodCost(all)
           f == [p \in Known |-> PodCost(p, all)]
           g == [p \in Known |-> Part(p, all)]
           h == [p \in Known |-> PodEntry(p, all).cost]
           r == [p \in Known |-> PodEntry(p, all).ratio]
           z == One (/) all
<1>1. all \in Rat /\ all # Zero /\ (params.shareSplit = "weighted" => tp # Zero)
  BY PodSums, Zenon DEF Divisible
<1>2. tp \in Rat /\ f \in [Known -> Rat] /\ SumOf(f) = tp
  BY PodSums DEF TotalPodCost
<1>3. g \in [Known -> Rat] /\ SumOf(g) = all (-) tp
  BY <1>1, PartsSum
<1>4. \A p \in Known : h[p] = f[p] (+) g[p] /\ r[p] = (f[p] (+) g[p]) (/) all
  BY PartIs DEF PodEntry
<1>5. h = [p \in Known |-> h[p]] /\ r = [p \in Known |-> r[p]]
  OBVIOUS
<1>6. IsFiniteSet(Known)
  BY KnownFinite
<1> HIDE DEF f, g, h, r, tp
<1>7. h \in [Known -> Rat]
  BY <1>2, <1>3, <1>4, <1>5, Closed
<1>8. SumOf(h) = SumOf(f) (+) SumOf(g)
  <2>1. f \in [Known -> Value] /\ g \in [Known -> Value] /\ h \in [Known -> Value]
    BY <1>2, <1>3, <1>7 DEF Value
  <2>2. QED
    BY <1>4, <1>6, <2>1, SumPlus
<1>9. SumOf(h) = all
  BY <1>1, <1>2, <1>3, <1>8, Rest
<1>10. z \in Rat
  BY <1>1, Undivided, WholeIs
<1>11. \A p \in Known : r[p] = h[p] (.) z
  BY <1>1, <1>4, <1>7, Undivided
<1> HIDE DEF z
<1>12. r \in [Known -> Rat]
  BY <1>5, <1>7, <1>10, <1>11, Closed
<1>13. SumOf(r) = all (.) z
  BY <1>6, <1>7, <1>9, <1>10, <1>11, <1>12, SumTimes
<1>14. all (.) z = One
  BY <1>1, Undivided, WholeIs DEF z
<1>15. QED
  BY <1>9, <1>13, <1>14 DEF h, r

\* The nodes' entries make up the total.
LEMMA NodesSum ==
  ASSUME NEW all, Fetched(all), TotalNodeCost # Zero
  PROVE  /\ SumOf([n \in DOMAIN nodeCost |-> NodeEntry(n, all).cost]) = all
         /\ SumOf([n \in DOMAIN nodeCost |-> NodeEntry(n, all).ratio]) = One
         /\ \A n \in DOMAIN nodeCost : NodeEntry(n, all).cost \in Rat /\ NodeEntry(n, all).ratio \in Rat
<1> DEFINE K == DOMAIN nodeCost
           f == [n \in K |-> Whole(nodeCost[n])]
           h == [n \in K |-> NodeEntry(n, all).cost]
           r == [n \in K |-> NodeEntry(n, all).ratio]
           z == One (/) TotalNodeCost
<1>1. all \in Rat /\ TotalNodeCost \in Rat /\ SumOf(f) = TotalNodeCost /\ IsFiniteSet(K)
  BY PodSums, KnownFinite DEF TotalNodeCost
<1>2. f \in [K -> Rat]
  BY WholeIs DEF Fetched, PricesOK
<1>3. z \in Rat
  BY <1>1, Undivided, WholeIs
<1>4. \A n \in K : r[n] = f[n] (/) TotalNodeCost /\ h[n] = r[n] (.) all
  BY DEF NodeEntry
<1>5. h = [n \in K |-> h[n]] /\ r = [n \in K |-> r[n]]
  OBVIOUS
<1>6. \A n \in K : NodeEntry(n, all).cost = h[n] /\ NodeEntry(n, all).ratio = r[n]
  OBVIOUS
<1> HIDE DEF K, f, h, r, z
<1>7. \A n \in K : r[n] = f[n] (.) z
  <2>1. \A n \in K : f[n] \in Rat
    BY <1>2
  <2>2. QED
    BY <1>1, <1>4, <2>1, Undivided DEF z
<1>8. r \in [K -> Rat]
  BY <1>2, <1>3, <1>5, <1>7, Closed
<1>9. SumOf(r) = TotalNodeCost (.) z
  BY <1>1, <1>2, <1>3, <1>7, <1>8, SumTimes
<1>10. TotalNodeCost (.) z = One
  BY <1>1, Undivided, WholeIs DEF z
<1>11. h \in [K -> Rat]
  BY <1>1, <1>4, <1>5, <1>8, Closed
<1>12. SumOf(h) = One (.) all
  BY <1>1, <1>4, <1>8, <1>9, <1>10, <1>11, SumTimes
<1>13. One (.) all = all
  BY <1>1, WholeIs, TimesCommutes, TimesOne
<1>14. QED
  BY <1>6, <1>8, <1>9, <1>10, <1>11, <1>12, <1>13 DEF h, r, K

-----------------------------------------------------------------------------
(***************************************************************************)
(* Merging them.                                                           *)
(***************************************************************************)

\* Merging the entries of a key keeps sums, and finite numbers finite.
LEMMA MergedSum ==
  ASSUME NEW D, IsFiniteSet(D), NEW f \in [D -> Value]
  PROVE  LET K == {AggregateKey(x) : x \in D}
             h == [k \in K |-> SumOf([x \in {y \in D : AggregateKey(y) = k} |-> f[x]])]
         IN  /\ IsFiniteSet(K) /\ h \in [K -> Value] /\ SumOf(h) = SumOf(f)
             /\ \A i \in K : h[i] \in Rat <=> \A x \in D : AggregateKey(x) = i => f[x] \in Rat
<1> DEFINE K == {AggregateKey(x) : x \in D}
           h == [k \in K |-> SumOf([x \in {y \in D : AggregateKey(y) = k} |-> f[x]])]
           key == [x \in D |-> AggregateKey(x)]
<1>1. key \in [D -> K] /\ \A x \in D : key[x] = AggregateKey(x)
  OBVIOUS
<1>2. K = {key[x] : x \in D}
  OBVIOUS
<1>3. \A i \in K : h[i] = SumOf([x \in {y \in D : AggregateKey(y) = i} |-> f[x]])
  OBVIOUS
<1>4. h = [i \in K |-> h[i]]
  OBVIOUS
<1> HIDE DEF K, h, key
<1>5. IsFiniteSet(K)
  <2>1. key \in Surjection(D, K)
    BY <1>1, <1>2 DEF Surjection
  <2>2. QED
    BY <2>1, FS_Surjection
<1>6. ASSUME NEW i \in K
      PROVE  /\ h[i] = SumOn(f, {x \in D : key[x] = i})
             /\ h[i] \in Value
             /\ h[i] \in Rat <=> \A x \in D : AggregateKey(x) = i => f[x] \in Rat
  <2> DEFINE S == {y \in D : AggregateKey(y) = i}
             g == [x \in S |-> f[x]]
  <2>1. S = {x \in D : key[x] = i} /\ S \in SUBSET D /\ IsFiniteSet(S)
    BY <1>1, FS_Subset
  <2>2. h[i] = SumOf(g)
    BY <1>3
  <2>3. g \in [S -> Value]
    OBVIOUS
  <2>4. SumOf(g) = SumOn(f, S)
    BY DEF SumOn
  <2>5. \A x \in S : g[x] = f[x]
    OBVIOUS
  <2> HIDE DEF g
  <2>6. SumOf(g) \in Value /\ (SumOf(g) \in Rat <=> \A x \in S : g[x] \in Rat)
    BY <2>1, <2>3, SumRat, SumOfIs
  <2>7. h[i] = SumOn(f, {x \in D : key[x] = i})
    BY <2>1, <2>2, <2>4
  <2>8. h[i] \in Rat <=> \A x \in S : f[x] \in Rat
    BY <2>2, <2>5, <2>6
  <2>9. QED
    BY <2>2, <2>6, <2>7, <2>8
<1>7. h \in [K -> Value]
  BY <1>4, <1>6
<1>8. SumOf(h) = SumOf(f)
  <2>1. \A i \in K : h[i] = SumOn(f, {x \in D : key[x] = i})
    BY <1>6
  <2>2. QED
    BY <1>1, <1>5, <1>7, <2>1, SumGroups
<1>9. QED
  BY <1>5, <1>6, <1>7, <1>8 DEF K, h

\* A set of entries, and what AggregateBy merges them to.
\* Finitely many entries, each a fraction or the result of a division by zero.
HasValues(set) ==
  /\ IsFiniteSet(DOMAIN set)
  /\ \A x \in DOMAIN set : set[x].cost \in Value /\ set[x].ratio \in Value

\* AggregateBy keeps the sums of costs and of ratios, and what is finite.
LEMMA AggSetIs ==
  ASSUME NEW set, HasValues(set)
  PROVE  /\ DOMAIN AggSet(set) = {AggregateKey(x) : x \in DOMAIN set}
         /\ HasValues(AggSet(set))
         /\ SumOf([k \in DOMAIN AggSet(set) |-> AggSet(set)[k].cost])
              = SumOf([x \in DOMAIN set |-> set[x].cost])
         /\ SumOf([k \in DOMAIN AggSet(set) |-> AggSet(set)[k].ratio])
              = SumOf([x \in DOMAIN set |-> set[x].ratio])
         /\ (\A k \in DOMAIN AggSet(set) : AggSet(set)[k].cost \in Rat /\ AggSet(set)[k].ratio \in Rat)
              <=> \A x \in DOMAIN set : set[x].cost \in Rat /\ set[x].ratio \in Rat
<1> DEFINE D == DOMAIN set
           K == {AggregateKey(x) : x \in D}
           c == [x \in D |-> set[x].cost]
           r == [x \in D |-> set[x].ratio]
           S(i) == {y \in D : AggregateKey(y) = i}
           hc == [k \in K |-> SumOf([x \in S(k) |-> c[x]])]
           hr == [k \in K |-> SumOf([x \in S(k) |-> r[x]])]
           A == AggSet(set)
<1>1. IsFiniteSet(D) /\ c \in [D -> Value] /\ r \in [D -> Value]
  BY DEF HasValues
<1>2. DOMAIN A = K
  BY DEF AggSet
<1>3. ASSUME NEW i \in K PROVE A[i].cost = hc[i] /\ A[i].ratio = hr[i]
  <2>1. [x \in S(i) |-> set[x].cost] = [x \in S(i) |-> c[x]]
        /\ [x \in S(i) |-> set[x].ratio] = [x \in S(i) |-> r[x]]
    OBVIOUS
  <2>2. A[i] = [cost |-> SumOf([x \in S(i) |-> set[x].cost]), ratio |-> SumOf([x \in S(i) |-> set[x].ratio])]
    BY DEF AggSet, Merged
  <2>3. QED
    BY <2>1, <2>2
<1>4. /\ IsFiniteSet(K) /\ hc \in [K -> Value] /\ SumOf(hc) = SumOf(c)
      /\ \A i \in K : hc[i] \in Rat <=> \A x \in D : AggregateKey(x) = i => c[x] \in Rat
  <2> HIDE DEF c, D
  <2>1. QED
    BY <1>1, MergedSum, Zenon
<1>5. /\ hr \in [K -> Value] /\ SumOf(hr) = SumOf(r)
      /\ \A i \in K : hr[i] \in Rat <=> \A x \in D : AggregateKey(x) = i => r[x] \in Rat
  <2> HIDE DEF r, D
  <2>1. QED
    BY <1>1, MergedSum, Zenon
<1>6. hc = [i \in K |-> hc[i]] /\ hr = [i \in K |-> hr[i]]
  OBVIOUS
<1>7. \A x \in D : AggregateKey(x) \in K
  OBVIOUS
<1>8. \A x \in D : c[x] = set[x].cost /\ r[x] = set[x].ratio
  OBVIOUS
<1> HIDE DEF K, c, r, hc, hr, A
<1>9. [k \in K |-> A[k].cost] = hc /\ [k \in K |-> A[k].ratio] = hr
  BY <1>3, <1>6
<1>10. HasValues(A)
  BY <1>2, <1>3, <1>4, <1>5 DEF HasValues
<1>11. (\A k \in K : A[k].cost \in Rat /\ A[k].ratio \in Rat)
         <=> \A x \in D : set[x].cost \in Rat /\ set[x].ratio \in Rat
  BY <1>3, <1>4, <1>5, <1>7, <1>8
<1>12. QED
  BY <1>2, <1>4, <1>5, <1>9, <1>10, <1>11 DEF A, c, r, K

\* Without idle costs of nodes SplitIdle does nothing.
LEMMA SplitIdleSame ==
  ASSUME NEW set, ~ByNode \/ \A k \in DOMAIN AggSet(set) : k[1] # "idle"
  PROVE  SplitIdle(AggSet(set)) = AggSet(set)
<1> DEFINE A == AggSet(set)
<1>1. A = [k \in DOMAIN A |-> A[k]]
  BY DEF AggSet
<1>2. SplitIdle(A) = [k \in DOMAIN A |-> A[k]]
  BY DEF SplitIdle
<1>3. QED
  BY <1>1, <1>2

\* The entries are finite if and only if nothing is divided by zero.
LEMMA EntriesValues ==
  ASSUME NEW all, Fetched(all)
  PROVE  /\ HasValues(Entries(all))
         /\ (ShowIdle => Divisible(all)) =>
              \A x \in DOMAIN Entries(all) : Entries(all)[x].cost \in Rat /\ Entries(all)[x].ratio \in Rat
BY NamesFinite, EntriesHaveValues DEF HasValues

\* Unless each node has an entry of its own, the entries make up the total.
LEMMA EntriesSumToTotal ==
  ASSUME NEW all, Fetched(all), ShowIdle, Divisible(all), params.shareIdle \/ ~ByNode,
         params.shareIdle => Known # {}
  PROVE  /\ SumOf([x \in DOMAIN Entries(all) |-> Entries(all)[x].cost]) = all
         /\ SumOf([x \in DOMAIN Entries(all) |-> Entries(all)[x].ratio]) = One
<1> DEFINE D == DOMAIN Entries(all)
           c == [x \in D |-> Entries(all)[x].cost]
           r == [x \in D |-> Entries(all)[x].ratio]
           pods(e) == SumOf([p \in Known |-> e[Pod(p)]])
           idle(e) == SumOf([x \in IdleNames |-> e[x]])
<1>1. D = PodNames \cup IdleNames
  BY EntriesAre
<1>2. c \in [PodNames \cup IdleNames -> Value] /\ r \in [PodNames \cup IdleNames -> Value]
  BY <1>1, EntriesValues DEF HasValues
<1>3. SumOf(c) = pods(c) (+) idle(c) /\ SumOf(r) = pods(r) (+) idle(r)
  <2> HIDE DEF c, r
  <2>1. QED
    BY <1>2, EntriesSum
<1>4. \A p \in Known : c[Pod(p)] = PodEntry(p, all).cost /\ r[Pod(p)] = PodEntry(p, all).ratio
  BY <1>1, EntriesAre DEF PodNames
<1>5. \A x \in IdleNames : c[x] = Entries(all)[x].cost /\ r[x] = Entries(all)[x].ratio
  BY <1>1
<1> HIDE DEF c, r
<1>6. /\ pods(c) = SumOf([p \in Known |-> PodEntry(p, all).cost])
      /\ pods(r) = SumOf([p \in Known |-> PodEntry(p, all).ratio])
  <2>1. [p \in Known |-> c[Pod(p)]] = [p \in Known |-> PodEntry(p, all).cost]
    BY <1>4
  <2>2. [p \in Known |-> r[Pod(p)]] = [p \in Known |-> PodEntry(p, all).ratio]
    BY <1>4
  <2>3. QED
    BY <2>1, <2>2
<1>7. CASE params.shareIdle
  <2>1. pods(c) = all /\ pods(r) = One
    BY <1>6, <1>7, SharedSum
  <2>2. IdleNames = {}
    BY <1>7 DEF IdleNames
  <2>3. idle(c) = Zero /\ idle(r) = Zero
    <3>1. [x \in IdleNames |-> c[x]] \in [{} -> Value] /\ [x \in IdleNames |-> r[x]] \in [{} -> Value]
      BY <2>2
    <3>2. QED
      BY <3>1, SumNone
  <2>4. all (+) Zero = all /\ One (+) Zero = One
    BY PodSums, PlusZero, WholeIs
  <2>5. QED
    BY <1>3, <2>1, <2>3, <2>4 DEF c, r
<1>8. CASE ~params.shareIdle
  <2>1. pods(c) = TotalPodCost(all) /\ pods(r) = SumOf([p \in Known |-> Ratio(p)])
    <3>1. [p \in Known |-> PodEntry(p, all).cost] = [p \in Known |-> PodCost(p, all)]
      BY <1>8 DEF PodEntry
    <3>2. [p \in Known |-> PodEntry(p, all).ratio] = [p \in Known |-> Ratio(p)]
      BY <1>8 DEF PodEntry
    <3>3. QED
      BY <1>6, <3>1, <3>2 DEF TotalPodCost
  <2>2. IdleNames = {IdleName}
    BY <1>8 DEF IdleNames
  <2>3. c[IdleName] = RestEntry(all).cost /\ r[IdleName] = RestEntry(all).ratio
    BY <1>5, <2>2, EntriesAre
  <2>4. idle(c) = c[IdleName] /\ idle(r) = r[IdleName]
    <3> DEFINE f == [x \in IdleNames |-> c[x]]
               g == [x \in IdleNames |-> r[x]]
    <3>1. f \in [{IdleName} -> Value] /\ g \in [{IdleName} -> Value]
          /\ f[IdleName] = c[IdleName] /\ g[IdleName] = r[IdleName]
      BY <1>2, <2>2
    <3> HIDE DEF f, g
    <3>2. SumOf(f) = f[IdleName] /\ SumOf(g) = g[IdleName]
      BY <3>1, SumSingle
    <3>3. QED
      BY <3>1, <3>2 DEF f, g
  <2>5. TotalPodCost(all) (+) (all (-) TotalPodCost(all)) = all
    BY PodSums, Rest
  <2> DEFINE s == SumOf([p \in Known |-> Ratio(p)])
  <2>6. s \in Rat /\ One \in Rat
    BY PodSums, WholeIs
  <2>7. RestEntry(all).cost = all (-) TotalPodCost(all) /\ RestEntry(all).ratio = One (-) s
    BY DEF RestEntry
  <2> HIDE DEF s
  <2>8. s (+) (One (-) s) = One
    BY <2>6, Rest
  <2>9. QED
    BY <1>3, <2>1, <2>3, <2>4, <2>5, <2>7, <2>8 DEF c, r, s
<1>9. QED
  BY <1>7, <1>8

-----------------------------------------------------------------------------
(***************************************************************************)
(* Merging by node, with an idle cost of each.                             *)
(***************************************************************************)

\* The pods of a node, and the name they are merged under.
NodePods(n) == {q \in Known : Properties[q].node = n}
GroupOf(n) == <<"group", n>>

\* By node, the keys of pods, nodes and the unallocated are different.
LEMMA NodeKeys ==
  ASSUME ByNode
  PROVE  /\ \A p : AggregateKey(Pod(p)) =
                     IF Properties[p].node = "" THEN Unallocated ELSE GroupOf(Properties[p].node)
         /\ \A n : AggregateKey(IdleOf(n)) = IdleOf(n)
         /\ \A n, m : IdleOf(n) # GroupOf(m)
         /\ \A n : IdleOf(n) # Unallocated /\ GroupOf(n) # Unallocated
         /\ \A n, m : IdleOf(n) = IdleOf(m) \/ GroupOf(n) = GroupOf(m) => n = m
<1>1. ASSUME NEW p PROVE Group(p) = Properties[p].node
  BY DEF Group, ByNode
<1>2. ASSUME NEW p PROVE AggregateKey(Pod(p)) =
                           IF Properties[p].node = "" THEN Unallocated ELSE GroupOf(Properties[p].node)
  <2>1. Pod(p)[1] = "pod" /\ Pod(p)[2] = p
    BY DEF Pod
  <2>2. QED
    BY <1>1, <2>1 DEF AggregateKey, GroupOf
<1>3. \A n : AggregateKey(IdleOf(n)) = IdleOf(n)
  <2>1. \A n : IdleOf(n)[1] # "pod"
    BY DEF IdleOf
  <2>2. QED
    BY <2>1 DEF AggregateKey
<1>4. \A n : IdleOf(n)[1] = "idle" /\ GroupOf(n)[1] = "group" /\ Unallocated[1] = "__unallocated__"
  BY DEF IdleOf, GroupOf, Unallocated
<1>5. \A n : IdleOf(n)[2] = n /\ GroupOf(n)[2] = n
  BY DEF IdleOf, GroupOf
<1>6. (\A n, m : IdleOf(n) # GroupOf(m)) /\ (\A n : IdleOf(n) # Unallocated /\ GroupOf(n) # Unallocated)
  BY <1>4
<1>7. \A n, m : IdleOf(n) = IdleOf(m) \/ GroupOf(n) = GroupOf(m) => n = m
  BY <1>5
<1>8. QED
  BY <1>2, <1>3, <1>6, <1>7

\* Nothing taken off.
LEMMA MinusZero == ASSUME NEW x \in Rat PROVE x (-) Zero = x
<1>1. Zero \in Rat /\ x (+) Zero = x
  BY PlusZero, WholeIs
<1>2. (x (+) Zero) (-) Zero = x
  BY <1>1, PlusMinus
<1>3. QED
  BY <1>1, <1>2

\* What is merged under a key: a node's idle cost alone, or the pods of a node.
LEMMA NodeMerged ==
  ASSUME NEW all, Fetched(all), ShowIdle, ~params.shareIdle, ByNode
  PROVE  LET E == Entries(all)
             A == AggSet(E)
         IN  /\ DOMAIN A = {AggregateKey(x) : x \in DOMAIN E}
             /\ \A n \in DOMAIN nodeCost :
                  /\ IdleOf(n) \in DOMAIN A
                  /\ A[IdleOf(n)].cost = NodeEntry(n, all).cost
                  /\ A[IdleOf(n)].ratio = NodeEntry(n, all).ratio
             /\ \A n : n # "" =>
                  /\ GroupOf(n) \in DOMAIN A <=> NodePods(n) # {}
                  /\ GroupOf(n) \in DOMAIN A =>
                       /\ A[GroupOf(n)].cost = SumOf([p \in NodePods(n) |-> PodCost(p, all)])
                       /\ A[GroupOf(n)].ratio = SumOf([p \in NodePods(n) |-> Ratio(p)])
<1> DEFINE E == Entries(all)
           A == AggSet(E)
           S(k) == {y \in DOMAIN E : AggregateKey(y) = k}
<1>1. IdleNames = {IdleOf(n) : n \in DOMAIN nodeCost} /\ DOMAIN E = PodNames \cup IdleNames
  BY EntriesAre DEF IdleNames
<1>2. DOMAIN A = {AggregateKey(x) : x \in DOMAIN E}
  BY DEF AggSet
<1>3. ASSUME NEW k \in DOMAIN A
      PROVE  A[k] = [cost |-> SumOf([x \in S(k) |-> E[x].cost]), ratio |-> SumOf([x \in S(k) |-> E[x].ratio])]
  BY <1>3 DEF AggSet, Merged
<1>4. HasValues(E)
  BY EntriesValues
<1>5. ASSUME NEW n \in DOMAIN nodeCost
      PROVE  /\ IdleOf(n) \in DOMAIN A
             /\ A[IdleOf(n)].cost = NodeEntry(n, all).cost
             /\ A[IdleOf(n)].ratio = NodeEntry(n, all).ratio
  <2> DEFINE i == IdleOf(n)
             f == [x \in S(i) |-> E[x].cost]
             g == [x \in S(i) |-> E[x].ratio]
  <2>1. i \in IdleNames /\ i \in DOMAIN E /\ AggregateKey(i) = i
    BY <1>1, NodeKeys
  <2>2. S(i) = {i}
    <3>1. ASSUME NEW x \in PodNames PROVE AggregateKey(x) # i
      <4>1. PICK p \in Known : x = Pod(p)
        BY DEF PodNames
      <4>2. AggregateKey(Pod(p)) # i
        <5>1. AggregateKey(Pod(p)) \in {Unallocated, GroupOf(Properties[p].node)}
          BY NodeKeys
        <5>2. i # Unallocated /\ i # GroupOf(Properties[p].node)
          BY NodeKeys
        <5>3. QED
          BY <5>1, <5>2
      <4>3. QED
        BY <4>1, <4>2
    <3>2. ASSUME NEW x \in IdleNames PROVE AggregateKey(x) = x
      <4>1. PICK m \in DOMAIN nodeCost : x = IdleOf(m)
        BY <1>1
      <4>2. AggregateKey(IdleOf(m)) = IdleOf(m)
        BY NodeKeys
      <4>3. QED
        BY <4>1, <4>2
    <3> HIDE DEF E, i
    <3>3. QED
      BY <1>1, <2>1, <3>1, <3>2
  <2>3. E[i] = NodeEntry(n, all)
    BY <2>1, EntriesAre
  <2>4. f \in [{i} -> Value] /\ g \in [{i} -> Value] /\ f[i] = E[i].cost /\ g[i] = E[i].ratio
    BY <1>4, <2>1, <2>2 DEF HasValues
  <2>5. A[i] = [cost |-> SumOf(f), ratio |-> SumOf(g)] /\ i \in DOMAIN A
    BY <1>2, <1>3, <2>1
  <2> HIDE DEF f, g, i, E, A
  <2>6. SumOf(f) = f[i] /\ SumOf(g) = g[i]
    BY <2>4, SumSingle
  <2>7. QED
    BY <2>3, <2>4, <2>5, <2>6 DEF i
<1>6. ASSUME NEW n, n # ""
      PROVE  /\ GroupOf(n) \in DOMAIN A <=> NodePods(n) # {}
             /\ GroupOf(n) \in DOMAIN A =>
                  /\ A[GroupOf(n)].cost = SumOf([p \in NodePods(n) |-> PodCost(p, all)])
                  /\ A[GroupOf(n)].ratio = SumOf([p \in NodePods(n) |-> Ratio(p)])
  <2> DEFINE i == GroupOf(n)
             P == NodePods(n)
             f == [x \in S(i) |-> E[x].cost]
             g == [x \in S(i) |-> E[x].ratio]
  <2>1. S(i) = {Pod(p) : p \in P}
    <3>1. ASSUME NEW x \in IdleNames PROVE AggregateKey(x) # i
      <4>1. PICK m \in DOMAIN nodeCost : x = IdleOf(m)
        BY <1>1
      <4>2. AggregateKey(IdleOf(m)) = IdleOf(m) /\ IdleOf(m) # i
        BY NodeKeys
      <4>3. QED
        BY <4>1, <4>2
    <3>2. ASSUME NEW p \in Known PROVE AggregateKey(Pod(p)) = i <=> p \in P
      BY <1>6, NodeKeys DEF NodePods
    <3>3. P \subseteq Known
      BY DEF NodePods
    <3> HIDE DEF E, i, P
    <3>4. QED
      BY <1>1, <3>1, <3>2, <3>3 DEF PodNames
  <2>2. i \in DOMAIN A <=> S(i) # {}
    BY <1>2
  <2>3. i \in DOMAIN A <=> P # {}
    BY <2>1, <2>2
  <2>4. ASSUME i \in DOMAIN A
        PROVE  A[i].cost = SumOf([p \in P |-> PodCost(p, all)]) /\ A[i].ratio = SumOf([p \in P |-> Ratio(p)])
    <3>1. A[i] = [cost |-> SumOf(f), ratio |-> SumOf(g)]
      BY <1>3, <2>4
    <3>2. f \in [{Pod(p) : p \in P} -> Value] /\ g \in [{Pod(p) : p \in P} -> Value]
      BY <1>4, <2>1 DEF HasValues
    <3>3. IsFiniteSet(P)
      BY KnownFinite, FS_Subset DEF NodePods
    <3>4. ASSUME NEW p \in P PROVE f[Pod(p)] = PodCost(p, all) /\ g[Pod(p)] = Ratio(p)
      <4>1. E[Pod(p)] = PodEntry(p, all)
        BY EntriesAre DEF NodePods
      <4>2. Pod(p) \in S(i)
        BY <2>1
      <4>3. f[Pod(p)] = E[Pod(p)].cost /\ g[Pod(p)] = E[Pod(p)].ratio
        BY <4>2
      <4>4. QED
        BY <4>1, <4>3 DEF PodEntry
    <3> HIDE DEF f, g, P, A, i
    <3>5. SumOf(f) = SumOf([p \in P |-> f[Pod(p)]]) /\ SumOf(g) = SumOf([p \in P |-> g[Pod(p)]])
      BY <3>2, <3>3, PodNamesSum
    <3>6. [p \in P |-> f[Pod(p)]] = [p \in P |-> PodCost(p, all)] /\ [p \in P |-> g[Pod(p)]] = [p \in P |-> Ratio(p)]
      BY <3>4
    <3>7. QED
      BY <3>1, <3>5, <3>6
  <2>5. QED
    BY <2>3, <2>4
<1>7. QED
  BY <1>2, <1>5, <1>6

\* What a node's pods have together.
Together(f, n) == SumOf([p \in NodePods(n) |-> f[p]])

\* It is a finite number.
LEMMA TogetherIs ==
  ASSUME IsFiniteSet(Known), NEW f \in [Known -> Rat], NEW n
  PROVE  /\ Together(f, n) \in Rat
         /\ NodePods(n) = {} => Together(f, n) = Zero
         /\ Together(f, n) = SumOn(f, {p \in Known : Properties[p].node = n})
<1> DEFINE P == NodePods(n)
           g == [p \in P |-> f[p]]
<1>1. IsFiniteSet(P)
  BY FS_Subset DEF NodePods
<1>2. g \in [P -> Rat] /\ g \in [P -> Value]
  BY DEF NodePods, Value
<1> HIDE DEF P, g
<1>3. SumOf(g) \in Rat
  BY <1>1, <1>2, SumRat
<1>4. P = {} => SumOf(g) = Zero
  BY <1>2, SumNone
<1>5. Together(f, n) = SumOf(g)
  BY DEF Together, P, g
<1>6. SumOf(g) = SumOn(f, {p \in Known : Properties[p].node = n})
  BY DEF SumOn, g, P, NodePods
<1>7. QED
  BY <1>3, <1>4, <1>5, <1>6 DEF P

\* If their nodes are all there, the nodes have what all pods have.
LEMMA TogetherSum ==
  ASSUME IsFiniteSet(Known), NEW f \in [Known -> Rat], NEW M, IsFiniteSet(M),
         \A p \in Known : Properties[p].node \in M
  PROVE  LET s == [n \in M |-> Together(f, n)]
         IN  s \in [M -> Rat] /\ SumOf(s) = SumOf(f) /\ SumOf(f) \in Rat
<1> DEFINE s == [n \in M |-> Together(f, n)]
           node == [p \in Known |-> Properties[p].node]
<1>1. s \in [M -> Rat]
  BY TogetherIs
<1>2. s \in [M -> Value] /\ f \in [Known -> Value] /\ node \in [Known -> M]
  BY <1>1 DEF Value
<1>3. ASSUME NEW i \in M PROVE s[i] = SumOn(f, {p \in Known : node[p] = i})
  <2>1. {p \in Known : node[p] = i} = {p \in Known : Properties[p].node = i}
    OBVIOUS
  <2>2. s[i] = Together(f, i)
    OBVIOUS
  <2>3. QED
    BY <2>1, <2>2, TogetherIs
<1> HIDE DEF s, node
<1>4. SumOf(s) = SumOf(f)
  BY <1>2, <1>3, SumGroups
<1>5. SumOf(f) \in Rat
  BY <1>2, SumRat
<1>6. QED
  BY <1>1, <1>4, <1>5 DEF s

\* Taking the pods' sums off the nodes' takes all that the pods have off the total.
LEMMA LeftSum ==
  ASSUME IsFiniteSet(Known), NEW f \in [Known -> Rat], NEW M, IsFiniteSet(M),
         \A p \in Known : Properties[p].node \in M, NEW e \in [M -> Rat]
  PROVE  LET d == [n \in M |-> e[n] (-) Together(f, n)]
         IN  d \in [M -> Rat] /\ SumOf(d) (+) SumOf(f) = SumOf(e)
<1> DEFINE s == [n \in M |-> Together(f, n)]
           d == [n \in M |-> e[n] (-) Together(f, n)]
<1>1. s \in [M -> Rat] /\ SumOf(s) = SumOf(f)
  BY TogetherSum
<1>2. \A n \in M : d[n] = e[n] (-) s[n]
  OBVIOUS
<1>3. d = [n \in M |-> d[n]]
  OBVIOUS
<1> HIDE DEF s, d
<1>4. d \in [M -> Rat]
  BY <1>1, <1>2, <1>3, Closed
<1>5. \A n \in M : e[n] = d[n] (+) s[n]
  BY <1>1, <1>2, MinusPlus
<1>6. SumOf(e) = SumOf(d) (+) SumOf(s)
  <2>1. s \in [M -> Value] /\ d \in [M -> Value] /\ e \in [M -> Value]
    BY <1>1, <1>4 DEF Value
  <2>2. QED
    BY <1>5, <2>1, SumPlus
<1>7. QED
  BY <1>1, <1>4, <1>6 DEF d

\* By node: a node's idle cost is what its pods leave, and together they are the total.
LEMMA NodeAnswer ==
  ASSUME NEW all, Fetched(all), ShowIdle, ~params.shareIdle, ByNode
  PROVE  LET F == SplitIdle(AggSet(Entries(all)))
             c == [p \in Known |-> PodCost(p, all)]
             r == [p \in Known |-> Ratio(p)]
         IN  /\ DOMAIN F = {AggregateKey(x) : x \in DOMAIN Entries(all)}
             /\ \A n \in DOMAIN nodeCost :
                  /\ IdleOf(n) \in DOMAIN F
                  /\ F[IdleOf(n)].cost = NodeEntry(n, all).cost (-) Together(c, n)
                  /\ F[IdleOf(n)].ratio = NodeEntry(n, all).ratio (-) Together(r, n)
             /\ \A n : n # "" /\ GroupOf(n) \in DOMAIN F =>
                  F[GroupOf(n)].cost = Together(c, n) /\ F[GroupOf(n)].ratio = Together(r, n)
<1> DEFINE E == Entries(all)
           A == AggSet(E)
           F == SplitIdle(A)
           c == [p \in Known |-> PodCost(p, all)]
           r == [p \in Known |-> Ratio(p)]
<1>1. \A n : /\ Together(c, n) = SumOf([p \in NodePods(n) |-> PodCost(p, all)])
             /\ Together(r, n) = SumOf([p \in NodePods(n) |-> Ratio(p)])
  <2>1. ASSUME NEW n
        PROVE  /\ [p \in NodePods(n) |-> c[p]] = [p \in NodePods(n) |-> PodCost(p, all)]
               /\ [p \in NodePods(n) |-> r[p]] = [p \in NodePods(n) |-> Ratio(p)]
    BY DEF NodePods
  <2>2. QED
    BY <2>1 DEF Together
<1>2. c \in [Known -> Rat] /\ r \in [Known -> Rat] /\ IsFiniteSet(Known)
  BY PodSums, KnownFinite
<1>3. DOMAIN A = {AggregateKey(x) : x \in DOMAIN E}
  BY NodeMerged
<1>4. \A n \in DOMAIN nodeCost :
        /\ IdleOf(n) \in DOMAIN A
        /\ A[IdleOf(n)].cost = NodeEntry(n, all).cost
        /\ A[IdleOf(n)].ratio = NodeEntry(n, all).ratio
  BY NodeMerged
<1>5. \A n : n # "" =>
        /\ GroupOf(n) \in DOMAIN A <=> NodePods(n) # {}
        /\ GroupOf(n) \in DOMAIN A => A[GroupOf(n)].cost = Together(c, n) /\ A[GroupOf(n)].ratio = Together(r, n)
  <2>1. \A n : n # "" =>
          /\ GroupOf(n) \in DOMAIN A <=> NodePods(n) # {}
          /\ GroupOf(n) \in DOMAIN A =>
               /\ A[GroupOf(n)].cost = SumOf([p \in NodePods(n) |-> PodCost(p, all)])
               /\ A[GroupOf(n)].ratio = SumOf([p \in NodePods(n) |-> Ratio(p)])
    BY NodeMerged
  <2> HIDE DEF A, c, r
  <2>2. QED
    BY <1>1, <2>1
<1>6. DOMAIN F = DOMAIN A
  BY DEF SplitIdle
<1>7. \A k \in DOMAIN A :
        F[k] = IF k[1] = "idle" /\ GroupOf(k[2]) \in DOMAIN A
                 THEN [cost |-> A[k].cost (-) A[GroupOf(k[2])].cost,
                       ratio |-> A[k].ratio (-) A[GroupOf(k[2])].ratio]
                 ELSE A[k]
  BY DEF SplitIdle, GroupOf
<1>8. HasValues(A)
  BY EntriesValues, AggSetIs
<1> HIDE DEF A, F, E, c, r
<1>9. ASSUME NEW n \in DOMAIN nodeCost
      PROVE  /\ F[IdleOf(n)].cost = NodeEntry(n, all).cost (-) Together(c, n)
             /\ F[IdleOf(n)].ratio = NodeEntry(n, all).ratio (-) Together(r, n)
  <2>0. n # ""
    BY AllocationAssumption DEF Fetched, PricesOK
  <2> DEFINE k == IdleOf(n)
  <2>1. k \in DOMAIN A /\ k[1] = "idle" /\ k[2] = n
    BY <1>4 DEF IdleOf
  <2>2. CASE GroupOf(n) \in DOMAIN A
    <3>1. F[k] = [cost |-> A[k].cost (-) A[GroupOf(n)].cost, ratio |-> A[k].ratio (-) A[GroupOf(n)].ratio]
      BY <1>7, <2>1, <2>2
    <3>2. QED
      <4>1. A[GroupOf(n)].cost = Together(c, n) /\ A[GroupOf(n)].ratio = Together(r, n)
        BY <1>5, <2>0, <2>2
      <4>2. A[k].cost = NodeEntry(n, all).cost /\ A[k].ratio = NodeEntry(n, all).ratio
        BY <1>4
      <4> HIDE DEF k
      <4>3. F[k].cost = A[k].cost (-) A[GroupOf(n)].cost /\ F[k].ratio = A[k].ratio (-) A[GroupOf(n)].ratio
        BY <3>1
      <4>4. QED
        BY <4>1, <4>2, <4>3 DEF k
  <2>3. CASE GroupOf(n) \notin DOMAIN A
    <3>1. F[k] = A[k]
      BY <1>7, <2>1, <2>3
    <3>2. Together(c, n) = Zero /\ Together(r, n) = Zero
      BY <1>2, <1>5, <2>0, <2>3, TogetherIs
    <3>3. A[k].cost \in Value /\ A[k].ratio \in Value
      BY <1>8, <2>1 DEF HasValues
    <3>4. \A v \in Value : v (-) Zero = v
      BY MinusZero, InfiniteStays, WholeIs DEF Value
    <3>5. QED
      BY <1>4, <3>1, <3>2, <3>3, <3>4
  <2>4. QED
    BY <2>2, <2>3
<1>10. ASSUME NEW n, n # "", GroupOf(n) \in DOMAIN F
       PROVE  F[GroupOf(n)].cost = Together(c, n) /\ F[GroupOf(n)].ratio = Together(r, n)
  <2>1. GroupOf(n)[1] # "idle"
    BY DEF GroupOf
  <2>2. F[GroupOf(n)] = A[GroupOf(n)]
    BY <1>6, <1>7, <1>10, <2>1
  <2>3. QED
    BY <1>5, <1>6, <1>10, <2>2
<1>11. QED
  BY <1>3, <1>4, <1>6, <1>9, <1>10 DEF F, E, A, c, r

\* The sum over the groups' names.
LEMMA GroupNamesSum ==
  ASSUME NEW K, IsFiniteSet(K), NEW e \in [{GroupOf(n) : n \in K} -> Value]
  PROVE  SumOf(e) = SumOf([n \in K |-> e[GroupOf(n)]]) /\ IsFiniteSet({GroupOf(n) : n \in K})
BY TaggedSum DEF GroupOf

\* The entries of the nodes and of the groups, for costs or for ratios: the nodes' shares a,
\* less what their pods have, and what the pods have.
LEMMA NodeAnswerSum ==
  ASSUME NEW all, Fetched(all), ShowIdle, ~params.shareIdle, ByNode,
         \A p \in Known : Properties[p].node \in DOMAIN nodeCost,
         NEW f \in [Known -> Rat], NEW a \in [DOMAIN nodeCost -> Rat],
         NEW e \in [{AggregateKey(x) : x \in DOMAIN Entries(all)} -> Value],
         \A n \in DOMAIN nodeCost : e[IdleOf(n)] = a[n] (-) Together(f, n),
         \A n \in DOMAIN nodeCost : GroupOf(n) \in DOMAIN e => e[GroupOf(n)] = Together(f, n)
  PROVE  SumOf(e) = SumOf(a)
<1> DEFINE M == DOMAIN nodeCost
           U == {Properties[p].node : p \in Known}
           I == {IdleOf(n) : n \in M}
           G == {GroupOf(n) : n \in U}
           d == [n \in M |-> a[n] (-) Together(f, n)]
           t == [n \in U |-> Together(f, n)]
<1>1. IsFiniteSet(Known) /\ IsFiniteSet(M) /\ U \subseteq M /\ IsFiniteSet(U)
  <2>1. IsFiniteSet(Known) /\ IsFiniteSet(M) /\ U \subseteq M
    BY KnownFinite
  <2>2. QED
    BY <2>1, FS_Subset
<1>2. "" \notin M
  BY AllocationAssumption DEF Fetched, PricesOK
<1>3. DOMAIN e = I \cup G
  <2>1. DOMAIN Entries(all) = PodNames \cup I
    BY EntriesAre DEF IdleNames
  <2>2. \A n \in M : AggregateKey(IdleOf(n)) = IdleOf(n)
    BY NodeKeys
  <2>3. ASSUME NEW p \in Known PROVE AggregateKey(Pod(p)) = GroupOf(Properties[p].node)
    BY <1>2, NodeKeys
  <2>4. {AggregateKey(x) : x \in I} = I
    BY <2>2
  <2>5. {AggregateKey(x) : x \in PodNames} = G
    <3>1. G = {GroupOf(Properties[p].node) : p \in Known}
      OBVIOUS
    <3>2. {AggregateKey(x) : x \in PodNames} = {AggregateKey(Pod(p)) : p \in Known}
      BY DEF PodNames
    <3> HIDE DEF G
    <3>3. QED
      BY <2>3, <3>1, <3>2
  <2>6. DOMAIN e = {AggregateKey(x) : x \in DOMAIN Entries(all)}
    OBVIOUS
  <2> HIDE DEF I, G
  <2>7. QED
    BY <2>1, <2>4, <2>5, <2>6
<1>4. I \cap G = {}
  <2>1. \A n, m : IdleOf(n) # GroupOf(m)
    BY DEF IdleOf, GroupOf
  <2>2. QED
    BY <2>1
<1> DEFINE ei == [x \in I |-> e[x]]
           eg == [x \in G |-> e[x]]
<1>5. ei \in [I -> Value] /\ eg \in [G -> Value]
  BY <1>3
<1>6. SumOf(ei) = SumOf([n \in M |-> ei[IdleOf(n)]]) /\ IsFiniteSet(I)
  <2> HIDE DEF ei, M
  <2>1. QED
    BY <1>1, <1>5, NodeNamesSum
<1>7. SumOf(eg) = SumOf([n \in U |-> eg[GroupOf(n)]]) /\ IsFiniteSet(G)
  <2> HIDE DEF eg, U
  <2>1. QED
    BY <1>1, <1>5, GroupNamesSum
<1>8. [n \in M |-> ei[IdleOf(n)]] = d
  OBVIOUS
<1>9. [n \in U |-> eg[GroupOf(n)]] = t
  <2>1. ASSUME NEW n \in U PROVE eg[GroupOf(n)] = Together(f, n)
    <3>1. n \in M /\ GroupOf(n) \in G /\ GroupOf(n) \in DOMAIN e
      BY <1>1, <1>3
    <3>2. QED
      BY <3>1
  <2> HIDE DEF eg, U
  <2>2. QED
    BY <2>1
<1>10. d \in [M -> Rat] /\ SumOf(d) (+) SumOf(f) = SumOf(a)
  <2> HIDE DEF M
  <2>1. a \in [M -> Rat] /\ \A p \in Known : Properties[p].node \in M
    BY DEF M
  <2>2. QED
    BY <1>1, <2>1, LeftSum
<1>11. SumOf(t) = SumOf(f)
  <2>1. \A p \in Known : Properties[p].node \in U
    OBVIOUS
  <2> HIDE DEF U
  <2>2. QED
    BY <1>1, <2>1, TogetherSum
<1>12. SumOf(e) = SumOf(ei) (+) SumOf(eg)
  <2> DEFINE D == DOMAIN e
  <2>1. D = I \cup G /\ e \in [D -> Value] /\ IsFiniteSet(D) /\ I \in SUBSET D /\ G \in SUBSET D
    <3>1. D = I \cup G
      BY <1>3
    <3> HIDE DEF I, G
    <3>2. IsFiniteSet(I \cup G)
      BY <1>6, <1>7, FS_Union
    <3>3. QED
      BY <3>1, <3>2
  <2> HIDE DEF I, G, D
  <2>2. SumOf(e) = SumOn(e, D)
    BY <2>1, SumOfIs
  <2>3. SumOn(e, I \cup G) = SumOn(e, I) (+) SumOn(e, G)
    BY <1>4, <2>1, SumUnion
  <2>4. QED
    BY <2>1, <2>2, <2>3 DEF SumOn
<1>13. QED
  BY <1>6, <1>7, <1>8, <1>9, <1>10, <1>11, <1>12

-----------------------------------------------------------------------------
(***************************************************************************)
(* The answer.                                                             *)
(***************************************************************************)

\* All numbers of a set of entries are finite.
AllRat(set) == \A x \in DOMAIN set : set[x].cost \in Rat /\ set[x].ratio \in Rat

\* What the invariant says of an answer.
LEMMA DoneIs == ASSUME AllocationInv, pc = "done" PROVE Fetched(total) /\ Answer
BY DEF AllocationInv, Fetched

\* An answer of finite numbers is finite,
LEMMA RatIsFinite == ASSUME AllRat(allocSet) PROVE Finite
BY FiniteIs DEF AllRat, Finite, Value

\* and the other way round.
LEMMA FiniteIsRat == ASSUME Finite, HasValues(allocSet) PROVE AllRat(allocSet)
BY FiniteIs DEF AllRat, Finite, HasValues

\* SplitIdle keeps finite numbers finite.
LEMMA SplitIdleRat == ASSUME NEW set, AllRat(set) PROVE AllRat(SplitIdle(set))
<1> DEFINE F == SplitIdle(set)
<1>1. ASSUME NEW k \in DOMAIN set PROVE F[k].cost \in Rat /\ F[k].ratio \in Rat
  <2>1. CASE ByNode /\ k[1] = "idle" /\ <<"group", k[2]>> \in DOMAIN set
    <3> DEFINE g == <<"group", k[2]>>
    <3>1. F[k] = [cost |-> set[k].cost (-) set[g].cost, ratio |-> set[k].ratio (-) set[g].ratio]
      BY <2>1 DEF SplitIdle
    <3>2. g \in DOMAIN set
      BY <2>1
    <3> HIDE DEF F, g
    <3>3. set[k].cost (-) set[g].cost \in Rat /\ set[k].ratio (-) set[g].ratio \in Rat
      BY <3>2, Closed DEF AllRat
    <3>4. QED
      BY <3>1, <3>3
  <2>2. CASE ~(ByNode /\ k[1] = "idle" /\ <<"group", k[2]>> \in DOMAIN set)
    <3>1. F[k] = set[k]
      BY <2>2 DEF SplitIdle
    <3>2. QED
      BY <3>1 DEF AllRat
  <2>3. QED
    BY <2>1, <2>2
<1>2. DOMAIN F = DOMAIN set
  BY DEF SplitIdle
<1> HIDE DEF F
<1>3. QED
  BY <1>1, <1>2 DEF AllRat, F

\* No division by zero, and every number of the answer is finite.
LEMMA DivisibleIsFinite ==
  ASSUME AllocationInv, pc = "done", ShowIdle => Divisible(total)
  PROVE  Finite
<1>1. Fetched(total) /\ Answer
  BY DoneIs
<1>2. HasValues(Entries(total)) /\ AllRat(Entries(total))
  BY <1>1, EntriesValues DEF AllRat
<1>3. AllRat(SplitIdle(AggSet(Entries(total))))
  <2>1. AllRat(AggSet(Entries(total)))
    BY <1>2, AggSetIs DEF AllRat
  <2>2. QED
    BY <2>1, SplitIdleRat
<1>4. AllRat(allocSet)
  BY <1>1, <1>2, <1>3 DEF Answer
<1>5. QED
  BY <1>4, RatIsFinite

\* The answer is finite unless something was divided by zero.
LEMMA FiniteInv == ASSUME AllocationInv PROVE FiniteUnlessDividedByZero
<1> SUFFICES ASSUME pc = "done", ~Finite
             PROVE  /\ ShowIdle
                    /\ IF params.shareIdle THEN TotalPodCost(total) = Zero \/ total = Zero
                                           ELSE ByNode /\ TotalNodeCost = Zero
  BY Zenon DEF FiniteUnlessDividedByZero
<1>1. ShowIdle /\ ~Divisible(total)
  BY DivisibleIsFinite
<1>2. QED
  BY <1>1, Zenon DEF Divisible

\* Merged by node, the answer is finite only if the nodes cost something.
LEMMA NodesCost ==
  ASSUME AllocationInv, pc = "done", ShowIdle, ~params.shareIdle, ByNode, Finite
  PROVE  /\ TotalNodeCost # Zero
         /\ allocSet = SplitIdle(AggSet(Entries(total)))
<1>1. Fetched(total) /\ Answer
  BY DoneIs
<1>2. PICK n \in DOMAIN nodeCost : TRUE
  BY <1>1 DEF Fetched, PricesOK
<1>3. IdleOf(n) \in DOMAIN Entries(total) /\ IdleOf(n) \in IdleNames
  BY <1>1, <1>2, EntriesAre DEF IdleNames
<1>4. allocSet = SplitIdle(AggSet(Entries(total)))
  BY <1>1, <1>3 DEF Answer, ByNode
<1> DEFINE c == [p \in Known |-> PodCost(p, total)]
           v == NodeEntry(n, total).cost
<1>5. IdleOf(n) \in DOMAIN allocSet /\ allocSet[IdleOf(n)].cost = v (-) Together(c, n)
  BY <1>1, <1>2, <1>4, NodeAnswer
<1>6. Together(c, n) \in Rat
  <2>1. c \in [Known -> Rat] /\ IsFiniteSet(Known)
    BY <1>1, PodSums, KnownFinite
  <2> HIDE DEF c
  <2>2. QED
    BY <2>1, TogetherIs
<1>7. IsFinite(v (-) Together(c, n))
  BY <1>5 DEF Finite
<1>8. TotalNodeCost = Zero => v = Infinite
  <2> SUFFICES ASSUME TotalNodeCost = Zero PROVE v = Infinite
    OBVIOUS
  <2>1. Whole(nodeCost[n]) \in Value /\ total \in Value
    BY <1>1, PodSums, WholeIs DEF Fetched, PricesOK, Value
  <2>2. Whole(nodeCost[n]) (/) TotalNodeCost = Infinite
    BY <2>1, InfiniteStays
  <2>3. Infinite (.) total = Infinite
    BY <2>1, InfiniteStays
  <2>4. QED
    BY <2>2, <2>3 DEF NodeEntry
<1>9. ~IsFinite(Infinite (-) Together(c, n))
  <2>1. Infinite (-) Together(c, n) = Infinite
    BY <1>6, InfiniteStays DEF Value
  <2>2. QED
    BY <2>1 DEF IsFinite, Infinite
<1>10. QED
  BY <1>4, <1>7, <1>8, <1>9

\* A node's idle cost is what its pods leave.
LEMMA NodeIdleInv == ASSUME AllocationInv PROVE NodeIdleIsWhatPodsLeave
<1> SUFFICES ASSUME pc = "done", ShowIdle, ~params.shareIdle, ByNode, Finite, NEW n \in DOMAIN nodeCost
             PROVE  allocSet[IdleOf(n)].cost =
                      ((Whole(nodeCost[n]) (/) TotalNodeCost) (.) total)
                        (-) SumOf([p \in {q \in Known : Properties[q].node = n} |-> PodCost(p, total)])
  BY Zenon DEF NodeIdleIsWhatPodsLeave
<1> DEFINE c == [p \in Known |-> PodCost(p, total)]
<1>1. allocSet = SplitIdle(AggSet(Entries(total))) /\ Fetched(total)
  BY NodesCost, DoneIs
<1>2. allocSet[IdleOf(n)].cost = NodeEntry(n, total).cost (-) Together(c, n)
  BY <1>1, NodeAnswer
<1>3. NodeEntry(n, total).cost = (Whole(nodeCost[n]) (/) TotalNodeCost) (.) total
  BY DEF NodeEntry
<1>4. Together(c, n) = SumOf([p \in {q \in Known : Properties[q].node = n} |-> PodCost(p, total)])
  <2>1. [p \in NodePods(n) |-> c[p]] = [p \in NodePods(n) |-> PodCost(p, total)]
    BY DEF NodePods
  <2> HIDE DEF c
  <2>2. QED
    BY <2>1 DEF Together, NodePods
<1>5. QED
  BY <1>2, <1>3, <1>4

\* What the answer adds up to.
CostSum == SumOf([x \in DOMAIN allocSet |-> allocSet[x].cost])
RatioSum == SumOf([x \in DOMAIN allocSet |-> allocSet[x].ratio])

\* With the idle cost shared there are only pods, so SplitIdle finds nothing to split.
LEMMA NothingToSplit ==
  ASSUME NEW all, params.shareIdle \/ ~ByNode
  PROVE  SplitIdle(AggSet(Entries(all))) = AggSet(Entries(all))
<1> SUFFICES ASSUME params.shareIdle, NEW k \in DOMAIN AggSet(Entries(all)) PROVE k[1] # "idle"
  BY SplitIdleSame
<1>1. PICK p \in Known : k = AggregateKey(Pod(p))
  BY EntriesAre DEF AggSet, IdleNames, PodNames
<1>2. k = Unallocated \/ k = <<"group", Group(p)>>
  BY <1>1 DEF AggregateKey, Pod
<1>3. QED
  BY <1>2 DEF Unallocated

\* The answer, unless each node has an entry of its own: the entries, merged or not.
LEMMA EntriesAnswer ==
  ASSUME AllocationInv, IdleIsAccounted, params.shareIdle \/ ~ByNode
  PROVE  CostSum = total /\ RatioSum = One
<1> DEFINE E == Entries(total)
<1>1. Fetched(total) /\ Answer /\ ShowIdle /\ Finite
  BY DoneIs DEF IdleIsAccounted
<1>2. params.shareIdle => Known # {}
  BY DEF IdleIsAccounted
<1>3. allocSet = E \/ allocSet = AggSet(E)
  BY <1>1, NothingToSplit DEF Answer
<1>4. HasValues(E)
  BY <1>1, EntriesValues
<1> HIDE DEF E
<1>5. HasValues(allocSet)
  BY <1>3, <1>4, AggSetIs
<1>6. AllRat(allocSet)
  BY <1>1, <1>5, FiniteIsRat
<1>7. AllRat(E)
  BY <1>3, <1>4, <1>6, AggSetIs DEF AllRat
<1>8. CostSum = SumOf([x \in DOMAIN E |-> E[x].cost])
  BY <1>3, <1>4, AggSetIs DEF CostSum
<1>9. RatioSum = SumOf([x \in DOMAIN E |-> E[x].ratio])
  BY <1>3, <1>4, AggSetIs DEF RatioSum
<1>10. Divisible(total)
  <2>1. CASE params.shareIdle
    <3>1. PICK p \in Known : TRUE
      BY <1>2, <2>1
    <3>2. Pod(p) \in DOMAIN E
      BY <3>1, EntriesAre DEF E, PodNames
    <3>3. E[Pod(p)].cost \in Rat /\ E[Pod(p)].ratio \in Rat
      BY <1>7, <3>2 DEF AllRat
    <3>4. QED
      BY <1>1, <2>1, <3>2, <3>3, EntriesHaveValues DEF E
  <2>2. CASE ~params.shareIdle
    BY <2>2, Zenon DEF Divisible
  <2>3. QED
    BY <2>1, <2>2
<1>11. /\ SumOf([x \in DOMAIN E |-> E[x].cost]) = total
       /\ SumOf([x \in DOMAIN E |-> E[x].ratio]) = One
  BY <1>1, <1>2, <1>10, EntriesSumToTotal DEF E
<1>12. QED
  BY <1>8, <1>9, <1>11

\* The answer by node.
LEMMA NodesAnswer ==
  ASSUME AllocationInv, IdleIsAccounted, ~params.shareIdle, ByNode
  PROVE  CostSum = total /\ RatioSum = One
<1> DEFINE E == Entries(total)
           F == SplitIdle(AggSet(E))
           ec == [x \in DOMAIN allocSet |-> allocSet[x].cost]
           er == [x \in DOMAIN allocSet |-> allocSet[x].ratio]
           c == [p \in Known |-> PodCost(p, total)]
           r == [p \in Known |-> Ratio(p)]
           ac == [n \in DOMAIN nodeCost |-> NodeEntry(n, total).cost]
           ar == [n \in DOMAIN nodeCost |-> NodeEntry(n, total).ratio]
<1>1. Fetched(total) /\ ShowIdle /\ pc = "done" /\ Finite
  BY DoneIs DEF IdleIsAccounted
<1>2. \A p \in Known : Properties[p].node \in DOMAIN nodeCost
  BY DEF IdleIsAccounted
<1>3. TotalNodeCost # Zero /\ allocSet = F
  BY <1>1, NodesCost
<1>4. /\ DOMAIN allocSet = {AggregateKey(x) : x \in DOMAIN E}
      /\ \A n \in DOMAIN nodeCost :
           /\ IdleOf(n) \in DOMAIN allocSet
           /\ allocSet[IdleOf(n)].cost = NodeEntry(n, total).cost (-) Together(c, n)
           /\ allocSet[IdleOf(n)].ratio = NodeEntry(n, total).ratio (-) Together(r, n)
  BY <1>1, <1>3, NodeAnswer
<1>5. \A n \in DOMAIN nodeCost : n # ""
  BY <1>1, AllocationAssumption DEF Fetched, PricesOK
<1>6. ASSUME NEW n \in DOMAIN nodeCost, GroupOf(n) \in DOMAIN allocSet
      PROVE  allocSet[GroupOf(n)].cost = Together(c, n) /\ allocSet[GroupOf(n)].ratio = Together(r, n)
  <2>1. n # ""
    BY <1>5
  <2>2. QED
    BY <1>1, <1>3, <1>6, <2>1, NodeAnswer
<1>7. AllRat(allocSet)
  <2>1. HasValues(E) /\ AllRat(E)
    BY <1>1, <1>3, EntriesValues DEF AllRat, Divisible
  <2>2. AllRat(AggSet(E))
    BY <2>1, AggSetIs DEF AllRat
  <2>3. QED
    BY <1>3, <2>2, SplitIdleRat
<1>8. c \in [Known -> Rat] /\ r \in [Known -> Rat]
  BY <1>1, PodSums
<1>9. /\ ac \in [DOMAIN nodeCost -> Rat] /\ ar \in [DOMAIN nodeCost -> Rat]
      /\ SumOf(ac) = total /\ SumOf(ar) = One
  BY <1>1, <1>3, NodesSum
<1>10. ec \in [DOMAIN allocSet -> Value] /\ er \in [DOMAIN allocSet -> Value]
  BY <1>7 DEF AllRat, Value
<1>11. ec \in [{AggregateKey(x) : x \in DOMAIN E} -> Value] /\ er \in [{AggregateKey(x) : x \in DOMAIN E} -> Value]
  BY <1>4, <1>10
<1>12. /\ \A n \in DOMAIN nodeCost : ec[IdleOf(n)] = ac[n] (-) Together(c, n)
       /\ \A n \in DOMAIN nodeCost : GroupOf(n) \in DOMAIN ec => ec[GroupOf(n)] = Together(c, n)
  <2> HIDE DEF c, r, E, F
  <2>1. \A n \in DOMAIN nodeCost : ec[IdleOf(n)] = ac[n] (-) Together(c, n)
    BY <1>4
  <2>2. \A n \in DOMAIN nodeCost : GroupOf(n) \in DOMAIN ec => ec[GroupOf(n)] = Together(c, n)
    BY <1>6
  <2>3. QED
    BY <2>1, <2>2
<1>13. /\ \A n \in DOMAIN nodeCost : er[IdleOf(n)] = ar[n] (-) Together(r, n)
       /\ \A n \in DOMAIN nodeCost : GroupOf(n) \in DOMAIN er => er[GroupOf(n)] = Together(r, n)
  <2> HIDE DEF c, r, E, F
  <2>1. \A n \in DOMAIN nodeCost : er[IdleOf(n)] = ar[n] (-) Together(r, n)
    BY <1>4
  <2>2. \A n \in DOMAIN nodeCost : GroupOf(n) \in DOMAIN er => er[GroupOf(n)] = Together(r, n)
    BY <1>6
  <2>3. QED
    BY <2>1, <2>2
<1> HIDE DEF ec, er, c, r, ac, ar, F
<1>14. SumOf(ec) = SumOf(ac)
  BY <1>1, <1>2, <1>8, <1>9, <1>11, <1>12, NodeAnswerSum
<1>15. SumOf(er) = SumOf(ar)
  BY <1>1, <1>2, <1>8, <1>9, <1>11, <1>13, NodeAnswerSum
<1>16. QED
  BY <1>9, <1>14, <1>15 DEF CostSum, RatioSum, ec, er

\* What is accounted for adds up.
LEMMA AccountedInv == ASSUME AllocationInv PROVE CostIsConserved /\ RatiosSumToOne
<1>1. ASSUME IdleIsAccounted PROVE CostSum = total /\ RatioSum = One
  BY <1>1, EntriesAnswer, NodesAnswer, Zenon
<1>2. QED
  BY <1>1 DEF CostIsConserved, RatiosSumToOne, CostSum, RatioSum

\* Whichever way idle cost is shown or shared and whatever the entries are aggregated by, the
\* costs of an answer that has the idle cost in it add up to the total.
THEOREM CostConserved == Spec => []CostIsConserved
<1>1. AllocationInv => CostIsConserved
  BY AccountedInv
<1>2. QED
  BY <1>1, AllocationCorrect, PTL

\* Likewise their ratios add up to one.
THEOREM RatiosComplete == Spec => []RatiosSumToOne
<1>1. AllocationInv => RatiosSumToOne
  BY AccountedInv
<1>2. QED
  BY <1>1, AllocationCorrect, PTL

\* By node, a node's idle cost is its share of the total less the costs of its pods.
THEOREM NodesKeepTheRest == Spec => []NodeIdleIsWhatPodsLeave
<1>1. AllocationInv => NodeIdleIsWhatPodsLeave
  BY NodeIdleInv
<1>2. QED
  BY <1>1, AllocationCorrect, PTL

\* Only the divisions by zero FiniteUnlessDividedByZero names keep an answer from being finite.
THEOREM FiniteUnlessDivided == Spec => []FiniteUnlessDividedByZero
<1>1. AllocationInv => FiniteUnlessDividedByZero
  BY FiniteInv
<1>2. QED
  BY <1>1, AllocationCorrect, PTL

-----------------------------------------------------------------------------
(***************************************************************************)
(* Answers without idle cost.                                              *)
(***************************************************************************)

\* Only with idle cost shown by node is there anything to split.
LEMMA NoIdleNoSplit ==
  ASSUME NEW all, ~ShowIdle
  PROVE  SplitIdle(AggSet(Entries(all))) = AggSet(Entries(all))
<1> SUFFICES ASSUME NEW k \in DOMAIN AggSet(Entries(all)) PROVE k[1] # "idle"
  BY SplitIdleSame
<1>1. IdleNames = {}
  BY DEF IdleNames
<1>2. PICK p \in Known : k = AggregateKey(Pod(p))
  BY <1>1, EntriesAre DEF AggSet, PodNames
<1>3. k = Unallocated \/ k = <<"group", Group(p)>>
  BY <1>2 DEF AggregateKey, Pod
<1>4. QED
  BY <1>3 DEF Unallocated

\* A pod costs its ratio of the total, unless there is no total to have a part of.
LEMMA CostIsRatioOfTotal ==
  ASSUME Fetched(total), total # Zero \/ params.apiType = "allocation", NEW p
  PROVE  PodCost(p, total) = Ratio(p) (.) total
<1>1. CASE params.apiType = "allocation"
  BY <1>1 DEF PodCost
<1>2. CASE params.apiType # "allocation"
  <2>1. total = TotalNodeCost /\ total # Zero
    BY <1>2 DEF Fetched, FetchedOK, Params, Totals
  <2>2. Estimated(p) \in Rat /\ total \in Rat /\ Ratio(p) \in Rat
    BY PodCostsRat DEF Fetched
  <2>3. PICK z \in Rat : total (.) z = One /\ \A x \in Rat : x (/) total = x (.) z
    BY <2>1, <2>2, Reciprocal
  <2>4. Ratio(p) = Estimated(p) (.) z
    BY <2>1, <2>2, <2>3 DEF Ratio
  <2>5. (Estimated(p) (.) z) (.) total = Estimated(p) (.) (z (.) total)
    BY <2>2, <2>3, TimesAssociates
  <2>6. z (.) total = One
    BY <2>2, <2>3, TimesCommutes
  <2>7. Estimated(p) (.) One = Estimated(p)
    BY <2>2, TimesOne
  <2>8. PodCost(p, total) = Estimated(p)
    BY <1>2 DEF PodCost
  <2>9. QED
    BY <2>4, <2>5, <2>6, <2>7, <2>8
<1>3. QED
  BY <1>1, <1>2

PodsAnswer ==
  pc = "done" /\ ~ShowIdle =>
    /\ Finite
    /\ CostSum = TotalPodCost(total)
    /\ total # Zero \/ params.apiType = "allocation" => CostSum = RatioSum (.) total

LEMMA PodsAnswerInv == ASSUME AllocationInv PROVE PodsAnswer
<1> SUFFICES ASSUME pc = "done", ~ShowIdle
             PROVE  /\ Finite
                    /\ CostSum = TotalPodCost(total)
                    /\ total # Zero \/ params.apiType = "allocation"
                         => CostSum = RatioSum (.) total
  BY Zenon DEF PodsAnswer
<1> DEFINE E == Entries(total)
           c == [p \in Known |-> PodCost(p, total)]
           r == [p \in Known |-> Ratio(p)]
<1>1. Fetched(total) /\ Answer /\ Finite
  BY DoneIs, DivisibleIsFinite
<1>2. allocSet = E \/ allocSet = AggSet(E)
  BY <1>1, NoIdleNoSplit DEF Answer
<1>3. HasValues(E)
  BY <1>1, EntriesValues
<1>4. IdleNames = {} /\ DOMAIN E = PodNames
  BY EntriesAre DEF IdleNames
<1>5. \A p \in Known : Pod(p) \in PodNames /\ E[Pod(p)] = [cost |-> c[p], ratio |-> r[p]]
  BY EntriesAre DEF PodEntry, PodNames
<1>6. c \in [Known -> Rat] /\ r \in [Known -> Rat] /\ IsFiniteSet(Known) /\ total \in Rat
  BY <1>1, PodSums, KnownFinite
<1> HIDE DEF E, c, r
<1>7. /\ CostSum = SumOf([x \in DOMAIN E |-> E[x].cost])
      /\ RatioSum = SumOf([x \in DOMAIN E |-> E[x].ratio])
  <2>1. CostSum = SumOf([x \in DOMAIN E |-> E[x].cost])
    BY <1>2, <1>3, AggSetIs DEF CostSum
  <2>2. RatioSum = SumOf([x \in DOMAIN E |-> E[x].ratio])
    BY <1>2, <1>3, AggSetIs DEF RatioSum
  <2>3. QED
    BY <2>1, <2>2
<1>8. CostSum = SumOf(c) /\ RatioSum = SumOf(r)
  <2> DEFINE ec == [x \in PodNames |-> E[x].cost]
             er == [x \in PodNames |-> E[x].ratio]
  <2>1. ec \in [{Pod(p) : p \in Known} -> Value] /\ er \in [{Pod(p) : p \in Known} -> Value]
    BY <1>3, <1>4 DEF HasValues, PodNames
  <2>2. [p \in Known |-> ec[Pod(p)]] = c /\ [p \in Known |-> er[Pod(p)]] = r
    <3>1. \A p \in Known : ec[Pod(p)] = c[p] /\ er[Pod(p)] = r[p]
      <4>1. \A x \in PodNames : ec[x] = E[x].cost /\ er[x] = E[x].ratio
        OBVIOUS
      <4> HIDE DEF ec, er
      <4>2. SUFFICES ASSUME NEW p \in Known PROVE ec[Pod(p)] = c[p] /\ er[Pod(p)] = r[p]
        OBVIOUS
      <4>3. Pod(p) \in PodNames /\ E[Pod(p)] = [cost |-> c[p], ratio |-> r[p]]
        BY <1>5
      <4>4. ec[Pod(p)] = E[Pod(p)].cost /\ er[Pod(p)] = E[Pod(p)].ratio
        BY <4>1, <4>3
      <4>5. E[Pod(p)].cost = c[p] /\ E[Pod(p)].ratio = r[p]
        BY <4>3
      <4>6. QED
        BY <4>4, <4>5
    <3>2. c = [p \in Known |-> c[p]] /\ r = [p \in Known |-> r[p]]
      BY <1>6
    <3> HIDE DEF ec, er
    <3>3. QED
      BY <3>1, <3>2
  <2>3. CostSum = SumOf(ec) /\ RatioSum = SumOf(er)
    BY <1>4, <1>7
  <2> HIDE DEF ec, er
  <2>4. SumOf(ec) = SumOf([p \in Known |-> ec[Pod(p)]])
    BY <1>6, <2>1, PodNamesSum
  <2>5. SumOf(er) = SumOf([p \in Known |-> er[Pod(p)]])
    BY <1>6, <2>1, PodNamesSum
  <2>6. QED
    BY <2>2, <2>3, <2>4, <2>5
<1>9. ASSUME total # Zero \/ params.apiType = "allocation"
      PROVE  SumOf(c) = SumOf(r) (.) total
  <2>1. \A p \in Known : c[p] = r[p] (.) total
    BY <1>1, <1>9, CostIsRatioOfTotal DEF c, r
  <2>2. QED
    BY <1>6, <2>1, SumTimes
<1>10. QED
  BY <1>1, <1>8, <1>9 DEF TotalPodCost, c

\* Without idle cost, and so with any filter but one by cluster, an answer is finite and adds
\* up to the cost of its pods, whatever it is aggregated by; its ratios say how much of the
\* total that is (cost_manager.go:125-178, allocation.go:80-168).
THEOREM PodsAddUp == Spec => []PodsAnswer
<1>1. AllocationInv => PodsAnswer
  BY PodsAnswerInv
<1>2. QED
  BY <1>1, AllocationCorrect, PTL
=============================================================================
