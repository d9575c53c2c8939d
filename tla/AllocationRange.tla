-------------------------- MODULE AllocationRange --------------------------
(***************************************************************************)
(* One request of /v2/allocation or /v2/cost: the checks of the handlers,  *)
(* the loop of CostManager.GetRangeAllocation that cuts the window into    *)
(* steps, and preprocessFilter, which every step calls on the one Filter   *)
(* of the request and which replaces, in place, the names of deployments   *)
(* by the names of their replica sets (pkg/metrics/costv2/cost_manager.go).*)
(* The computation of one step is the module CostAllocation; here it       *)
(* succeeds, fails or panics.                                              *)
(*                                                                         *)
(* Time is counted in units from the start of the window.  The cluster     *)
(* lives on while the request runs: deployments appear and go, and a       *)
(* rollout gives one other replica sets.                                   *)
(***************************************************************************)
EXTENDS Integers, Sequences, FiniteSets

CONSTANTS
  Day,          \* 24 hours, in units
  WindowEnds,   \* the ends a window may have (its start is 0)
  Steps,        \* the steps a request may ask for
  Workloads,    \* the names a controller filter may hold: deployments and others
  ReplicaSets,  \* the names of replica sets
  MaxSets       \* bound: the sets of a range whose step never reaches the end

ASSUME RangeAssumption ==
  /\ Day \in Nat \ {0}
  /\ WindowEnds \subseteq Int /\ Steps \subseteq Int
  /\ Workloads \cap ReplicaSets = {}
  /\ MaxSets \in Nat

Name == Workloads \cup ReplicaSets

VARIABLES
  api,       \* "allocation" or "cost": which handler
  end,       \* params.window.End()
  step,      \* params.step: as asked for, or the length of the window
  asked,     \* the names of the request's controllerName filter ({}: no such filter)
  names,     \* filter.ControllerName now
  stage,        \* "handler", "loop", "filter", "compute", "aggregate", or how it ended:
             \* "done", "badRequest", "error" or "panic"
  stepStart, stepEnd,
  todo,      \* preprocessFilter: the names still to be looked at
  resolved,  \* preprocessFilter: newControllerName
  asr,       \* the sets appended so far: their bounds and the filter they were computed with
  owned,     \* cluster: deployment |-> its replica sets, for the deployments there are
  lost       \* history: the names that were replaced by nothing

request == <<api, end, step, asked>>
rangeVars == <<request, names, stage, stepStart, stepEnd, todo, resolved, asr, owned, lost>>

Cluster == UNION {[D -> SUBSET ReplicaSets] : D \in SUBSET Workloads}

RangeInit ==
  /\ api \in {"allocation", "cost"}
  /\ end \in WindowEnds
  /\ step \in Steps \cup {end}
  /\ asked \in SUBSET Workloads
  /\ names = asked
  /\ stage = "handler"
  /\ stepStart = 0 /\ stepEnd = 0
  /\ todo = {} /\ resolved = {}
  /\ asr = << >>
  /\ owned \in Cluster
  /\ lost = {}

-----------------------------------------------------------------------------

\* Mutant: /v2/allocation takes any step.
Legal_AnyStep == IF api = "allocation" THEN end >= Day ELSE end >= 0

\* What the handlers and the head of GetRangeAllocation let through: /v2/allocation wants at
\* least a day for the window and for the step, /v2/cost only a window that is not negative.
Legal == IF api = "allocation" THEN end >= Day /\ step >= Day ELSE end >= 0

Handle ==
  /\ stage = "handler"
  /\ IF Legal THEN stage' = "loop" /\ stepEnd' = stepStart + step
              ELSE stage' = "badRequest" /\ UNCHANGED stepEnd
  /\ UNCHANGED <<request, names, stepStart, todo, resolved, asr, owned, lost>>

\* Mutant: every step resolves the names of the request again.
ToResolve_Asked == asked

\* The filter is shared by all steps: the names the step before has left in it.
ToResolve == names

\* for params.window.End().After(stepStart)
NextStep ==
  /\ stage = "loop" /\ end > stepStart
  /\ Len(asr) < MaxSets
  /\ stage' = "filter"
  /\ todo' = ToResolve /\ resolved' = {}
  /\ UNCHANGED <<request, names, stepStart, stepEnd, asr, owned, lost>>

LoopEnds ==
  /\ stage = "loop" /\ end <= stepStart
  /\ stage' = "aggregate"
  /\ UNCHANGED <<request, names, stepStart, stepEnd, todo, resolved, asr, owned, lost>>

\* Mutant: a name that is no deployment's is dropped.
KeepName_Drop(c) ==
  /\ UNCHANGED <<resolved, lost>>

\* No deployment has the name, or the list of deployments could not be read.
KeepName(c) ==
  /\ resolved' = resolved \cup {c}
  /\ UNCHANGED lost

\* The replica sets of the deployments of that name; there may be one in each of several
\* namespaces, and those of some or all of them may fail to be read.
ReplaceName(c, found) ==
  /\ resolved' = resolved \cup found
  /\ lost' = IF found = {} THEN lost \cup {c} ELSE lost

\* One turn of the loop of preprocessFilter; errors of the API server are only logged.
ResolveName(c) ==
  /\ stage = "filter" /\ c \in todo
  /\ todo' = todo \ {c}
  /\ \/ KeepName(c)
     \/ c \in DOMAIN owned /\ \E found \in SUBSET owned[c] : ReplaceName(c, found)
  /\ UNCHANGED <<request, names, stage, stepStart, stepEnd, asr, owned>>

\* filter.ControllerName = newControllerName
SetFilter ==
  /\ stage = "filter" /\ todo = {}
  /\ names' = resolved
  /\ stage' = "compute"
  /\ UNCHANGED <<request, stepStart, stepEnd, todo, resolved, asr, owned, lost>>

\* Mutant: the end of a step is not cut off.
Clamp_Never(t) == t

\* if stepEnd.After(*params.window.End()) { stepEnd = *params.window.End() }
Clamp(t) == IF t > end THEN end ELSE t

\* ComputeAllocation returned a set: append it, go to the next step.
SetComputed ==
  /\ stage = "compute"
  /\ asr' = Append(asr, [start |-> stepStart, end |-> stepEnd, names |-> names])
  /\ stepStart' = stepEnd
  /\ stepEnd' = Clamp(stepEnd + step)
  /\ stage' = "loop"
  /\ UNCHANGED <<request, names, todo, resolved, owned, lost>>

\* It returned an error (a bad selector, targetType or shareSplit), or dereferenced a list that
\* could not be had: the whole range fails.
SetFails ==
  /\ stage = "compute"
  /\ stage' \in {"error", "panic"}
  /\ UNCHANGED <<request, names, stepStart, stepEnd, todo, resolved, asr, owned, lost>>

\* asr.AggregateBy; an unknown aggregate parameter is an error.
AggregateRange ==
  /\ stage = "aggregate"
  /\ stage' \in {"done", "error"}
  /\ UNCHANGED <<request, names, stepStart, stepEnd, todo, resolved, asr, owned, lost>>

\* The cluster goes on.  (It is of no interest before the first and after the last step.)
Churn ==
  /\ stage \in {"loop", "filter"}
  /\ owned' \in Cluster \ {owned}
  /\ UNCHANGED <<request, names, stage, stepStart, stepEnd, todo, resolved, asr, lost>>

Ended == stage \in {"done", "badRequest", "error", "panic"}

\* The request is answered, or has run into the bound of the model.
Stopped ==
  /\ Ended \/ (stage = "loop" /\ Len(asr) = MaxSets)
  /\ UNCHANGED rangeVars

Serve ==
  \/ Handle \/ NextStep \/ LoopEnds \/ SetFilter \/ SetComputed \/ SetFails \/ AggregateRange
  \/ \E c \in Name : ResolveName(c)

RangeNext == Serve \/ Churn \/ Stopped

RangeSpec == RangeInit /\ [][RangeNext]_rangeVars

\* The handler's goroutine keeps running; the API server answers.
FairSpec == RangeSpec /\ WF_rangeVars(Serve)

-----------------------------------------------------------------------------

TypeOK ==
  /\ api \in {"allocation", "cost"}
  /\ end \in WindowEnds /\ step \in Steps \cup WindowEnds
  /\ asked \subseteq Workloads /\ names \subseteq Name
  /\ stage \in {"handler", "loop", "filter", "compute", "aggregate",
                "done", "badRequest", "error", "panic"}
  /\ stepStart \in Int /\ stepEnd \in Int
  /\ todo \subseteq Name /\ resolved \subseteq Name
  /\ asr \in Seq([start : Int, end : Int, names : SUBSET Name])
  /\ owned \in Cluster
  /\ lost \subseteq Workloads

\* The sets of a range tile its window: the first begins where the window begins, each of
\* the others where the one before ends, all but the last are one step long, and none but
\* the first goes beyond the end of the window (the first does if the step is longer than
\* the window: the code cuts only the later ones off).  A range that is returned leaves no
\* part of the window out (cost_manager.go:438-453).
StepsTileWindow ==
  /\ \A i \in 1..Len(asr) :
       /\ asr[i].start = IF i = 1 THEN 0 ELSE asr[i-1].end
       /\ i < Len(asr) => asr[i].end = asr[i].start + step
       /\ IF i = 1 THEN asr[i].end = step ELSE asr[i].end <= end
  /\ stage = "done" => (IF asr = << >> THEN end = 0 ELSE asr[Len(asr)].end >= end)

\* The replica sets a deployment was resolved to for one step are those of every later
\* step: a rollout in the middle of a request does not give its steps different pods
\* (preprocessFilter writes its result back into the filter, cost_manager.go:795).
SameReplicaSets ==
  \A i, j \in 1..Len(asr) :
    i < j => asr[i].names \cap ReplicaSets \subseteq asr[j].names

\* A request with a controller filter is computed without it (an empty list is no filter,
\* types/filter.go:24-27) only if every name it asked for is a deployment that was found
\* without replica sets, which is also what an error of the API server looks like.
WidenedOnlyByLoss ==
  \A i \in 1..Len(asr) : asked # {} /\ asr[i].names = {} => asked \subseteq lost

\* Every request to /v2/allocation comes to an end, and every one to /v2/cost with a positive
\* step.  (/v2/cost takes a step that is zero or negative, and never comes to the end.)
EveryRequestEnds ==
  (api = "allocation" \/ step > 0) ~> Ended
=============================================================================
