--------------------------- MODULE CostHttpProofs ---------------------------
(***************************************************************************)
(* The safety invariants of CostHttp, for any number of concurrent         *)
(* requests and any pods, whatever the requests ask for (CostRequests).    *)
(* They rest on the order of MetricList (PlaceInList): the limits of the   *)
(* memory come after those of the CPU and the costs right after the total. *)
(***************************************************************************)
EXTENDS CostRequests, SequenceTheorems, TLAPS

\* What requests ask for restricts what CostHttp does, and changes nothing else of it.
THEOREM ImplementsHttp == Spec => HttpSpec
<1>1. Init => HttpInit
  BY DEF Init
<1>2. ASSUME [Next]_vars PROVE [HttpNext]_httpVars
  <2>1. CASE Next
    <3>1. PICK r \in Requests : Ask(r) \/ Fetch(r) \/ Continue(r) \/ Depart(r)
      BY <2>1 DEF Next
    <3>2. QED
      BY <3>1 DEF Ask, Fetch, Continue, Depart, HttpNext
  <2>2. CASE UNCHANGED vars
    BY <2>2 DEF vars
  <2>3. QED
    BY <1>2, <2>1, <2>2
<1>3. QED
  BY <1>1, <1>2, PTL DEF Spec, HttpSpec

LEMMA PlaceInList ==
  /\ Len(MetricList) = 10
  /\ \A k \in 1..10 : /\ MetricList[k] = "cpu_limit" => k = 2
                      /\ MetricList[k] = "memory_limit" => k = 4
                      /\ MetricList[k] = "total" => k = 8
                      /\ MetricList[k] = "cost" => k = 9
<1>1. Len(MetricList) = 10
  BY DEF MetricList
<1>2. ASSUME NEW k \in 1..10
      PROVE  /\ MetricList[k] = "cpu_limit" => k = 2
             /\ MetricList[k] = "memory_limit" => k = 4
             /\ MetricList[k] = "total" => k = 8
             /\ MetricList[k] = "cost" => k = 9
  <2>1. k \in {1, 2, 3, 4, 5, 6, 7, 8, 9, 10}
    BY <1>2
  <2>2. QED
    BY <2>1 DEF MetricList
<1>3. QED
  BY <1>1, <1>2

RequestType ==
  [pc : {"idle", "fetch", "store", "divide", "reply", "done", "panic"},
   kind : {"detail", "summary"}, i : 1..Len(MetricList), todo : SUBSET (Word \cup Pods),
   limit : [Pods -> {"none", "cpu_limit", "memory_limit"}],
   memoryLimited : SUBSET Pods, divisor : [Pods -> Seq(Requests \cup {Unset})],
   disturbed : BOOLEAN]

\* A request with one field replaced by a value of the field's type is a request.
LEMMA FieldTypes ==
  ASSUME NEW q \in RequestType
  PROVE  /\ \A x \in {"idle", "fetch", "store", "divide", "reply", "done", "panic"} :
              [q EXCEPT !.pc = x] \in RequestType
         /\ \A x \in 1..Len(MetricList) : [q EXCEPT !.i = x] \in RequestType
         /\ \A x \in SUBSET (Word \cup Pods) : [q EXCEPT !.todo = x] \in RequestType
         /\ \A x \in [Pods -> {"none", "cpu_limit", "memory_limit"}] :
              [q EXCEPT !.limit = x] \in RequestType
         /\ \A x \in SUBSET Pods : [q EXCEPT !.memoryLimited = x] \in RequestType
         /\ \A x \in [Pods -> Seq(Requests \cup {Unset})] : [q EXCEPT !.divisor = x] \in RequestType
         /\ \A x \in BOOLEAN : [q EXCEPT !.disturbed = x] \in RequestType
BY DEF RequestType

\* How far a request has come: where it is tells the place in the list, and nothing is
\* divided before the total was fetched.
Staged(q) ==
  /\ q.pc = "store" => q.i = 8 /\ q.kind = "detail"
  /\ q.pc = "divide" => q.i = 9
  /\ q.pc = "fetch" /\ q.i <= 8 => \A p \in Pods : q.divisor[p] = <<>>
  /\ q.pc = "store" => \A p \in Pods : q.divisor[p] = <<>>
  /\ q.pc = "fetch" /\ q.i <= 4 => q.memoryLimited = {}
  /\ \A p \in q.memoryLimited : q.limit[p] = "memory_limit"

TypeInv ==
  /\ costTotal \in [Word -> Requests \cup {Unset}]
  /\ req \in [Requests -> RequestType]
  /\ \A r \in Requests : Staged(req[r])

LEMMA FreshRequest ==
  ASSUME NEW where \in {"idle", "fetch"}, NEW kind \in {"detail", "summary"}
  PROVE  Request(where, kind) \in RequestType /\ Staged(Request(where, kind))
BY PlaceInList DEF Request, RequestType, Staged

LEMMA TypeInit == HttpInit => TypeInv
BY FreshRequest DEF HttpInit, TypeInv

\* A request moves to a state of its type, and nothing else changes.
LEMMA MoveType ==
  ASSUME TypeInv, NEW r \in Requests, NEW to \in RequestType, Staged(to), Move(r, to),
         UNCHANGED costTotal
  PROVE  TypeInv'
BY DEF TypeInv, Move

\* A request moves and disturbs all the others.
LEMMA DisturbType ==
  ASSUME TypeInv, NEW r \in Requests, NEW to \in RequestType, Staged(to),
         costTotal' \in [Word -> Requests \cup {Unset}],
         req' = [q \in Requests |-> IF q = r THEN to ELSE [req[q] EXCEPT !.disturbed = TRUE]]
  PROVE  TypeInv'
<1>1. ASSUME NEW q \in Requests
      PROVE  [req[q] EXCEPT !.disturbed = TRUE] \in RequestType
    BY FieldTypes DEF TypeInv
<1>2. ASSUME NEW q \in Requests
      PROVE  Staged([req[q] EXCEPT !.disturbed = TRUE])
  <2>1. Staged(req[q]) /\ req[q] \in RequestType
    BY DEF TypeInv
  <2>2. QED
    BY <2>1 DEF RequestType, Staged
<1>3. QED
  BY <1>1, <1>2 DEF TypeInv

\* What comes next in the list, for a request that fetched what it was at.
LEMMA AdvanceType ==
  ASSUME TypeInv, NEW r \in Requests, NEW to \in RequestType,
         to.i = req[r].i, Advance(r, to), UNCHANGED costTotal,
         \A p \in to.memoryLimited : to.limit[p] = "memory_limit",
         to.i <= 3 => to.memoryLimited = {},
         to.i <= 7 => \A p \in Pods : to.divisor[p] = <<>>
  PROVE  TypeInv'
<1> USE PlaceInList
<1>1. CASE req[r].i = Len(MetricList)
  <2>1. [to EXCEPT !.pc = "reply"] \in RequestType /\ Staged([to EXCEPT !.pc = "reply"])
    BY DEF RequestType, Staged
  <2>2. QED
    BY <1>1, <2>1, MoveType DEF Advance
<1>2. CASE req[r].i # Len(MetricList)
  <2> DEFINE next == [to EXCEPT !.pc = "fetch", !.i = @ + 1]
  <2>1. to.i + 1 \in 1..Len(MetricList)
    BY <1>2 DEF RequestType
  <2>2. next \in RequestType
    BY <2>1 DEF RequestType
  <2>3. /\ next.pc = "fetch" /\ next.i = to.i + 1 /\ next.memoryLimited = to.memoryLimited
        /\ next.limit = to.limit /\ next.divisor = to.divisor
    BY DEF RequestType
  <2>4. Staged(next)
    <3> HIDE DEF next
    <3>1. to.i \in 1..10 /\ (next.i <= 4 => to.i <= 3) /\ (next.i <= 8 => to.i <= 7)
      BY <2>3 DEF RequestType
    <3>2. QED
      BY <2>3, <3>1 DEF Staged
  <2>5. QED
    BY <1>2, <2>2, <2>4, MoveType DEF Advance
<1>3. QED
  BY <1>1, <1>2

LEMMA ListedType ==
  ASSUME NEW r \in Requests, NEW listed \in Listed(r) PROVE listed \in SUBSET Pods
BY CostHttpAssumption DEF Listed

LEMMA TypeStep == TypeInv /\ [HttpNext]_httpVars => TypeInv'
<1> SUFFICES ASSUME TypeInv, [HttpNext]_httpVars PROVE TypeInv'
  OBVIOUS
<1> USE PlaceInList
<1>1. ASSUME NEW r \in Requests PROVE req[r] \in RequestType /\ Staged(req[r])
  BY DEF TypeInv
<1>2. ASSUME NEW r \in Requests, Arrive(r) PROVE TypeInv'
  BY <1>2, FreshRequest, MoveType DEF Arrive
<1>3. ASSUME NEW r \in Requests, Panic(r) PROVE TypeInv'
  <2>1. [req[r] EXCEPT !.pc = "panic"] \in RequestType /\ Staged([req[r] EXCEPT !.pc = "panic"])
    BY <1>1, <1>3 DEF RequestType, Staged
  <2>2. QED
    BY <1>3, <2>1, MoveType DEF Panic
<1>4. ASSUME NEW r \in Requests, FetchLimit(r) PROVE TypeInv'
  <2>1. PICK listed \in Listed(r) :
          Advance(r, [req[r] EXCEPT
            !.limit = [p \in Pods |-> IF p \in listed THEN Metric(r) ELSE @[p]],
            !.memoryLimited = IF Metric(r) = "memory_limit" THEN listed ELSE @])
    BY <1>4 DEF FetchLimit
  <2> DEFINE shown == [p \in Pods |-> IF p \in listed THEN Metric(r) ELSE req[r].limit[p]]
             limited == IF Metric(r) = "memory_limit" THEN listed ELSE req[r].memoryLimited
             to == [req[r] EXCEPT !.limit = shown, !.memoryLimited = limited]
  <2>2. listed \in SUBSET Pods /\ Advance(r, to)
    BY <2>1, ListedType
  <2>3. /\ req[r].pc = "fetch" /\ req[r].i \in 1..10
        /\ \/ Metric(r) = "cpu_limit" /\ req[r].i = 2
           \/ Metric(r) = "memory_limit" /\ req[r].i = 4
    BY <1>1, <1>4 DEF FetchLimit, Metric, RequestType
  <2>4. /\ shown \in [Pods -> {"none", "cpu_limit", "memory_limit"}]
        /\ limited \in SUBSET Pods
        /\ \A p \in limited : shown[p] = "memory_limit"
        /\ req[r].i <= 3 => limited = {}
    BY <1>1, <2>2, <2>3 DEF RequestType, Staged
  <2> HIDE DEF shown, limited
  <2>5. to \in RequestType
    <3>1. [req[r] EXCEPT !.limit = shown] \in RequestType
      BY <1>1, <2>4, FieldTypes
    <3>2. [[req[r] EXCEPT !.limit = shown] EXCEPT !.memoryLimited = limited] \in RequestType
      BY <2>4, <3>1, FieldTypes
    <3>3. QED
      BY <3>2
  <2>6. /\ to.i = req[r].i /\ to.divisor = req[r].divisor
        /\ to.memoryLimited = limited /\ to.limit = shown
    BY <1>1 DEF RequestType
  <2>7. to.i <= 7 => \A p \in Pods : to.divisor[p] = <<>>
    BY <1>1, <2>3, <2>6 DEF Staged
  <2> HIDE DEF to
  <2>8. QED
    BY <1>4, <2>2, <2>4, <2>5, <2>6, <2>7, AdvanceType DEF FetchLimit
<1>5. ASSUME NEW r \in Requests, req[r].pc = "fetch" \/ req[r].pc = "divide",
             Advance(r, req[r]), UNCHANGED costTotal
      PROVE  TypeInv'
  <2>1. PICK to \in RequestType : to = req[r]
    BY <1>1, <1>5
  <2>2. /\ to.i \in 1..10
        /\ \A p \in to.memoryLimited : to.limit[p] = "memory_limit"
        /\ to.i <= 3 => to.memoryLimited = {}
        /\ to.i <= 7 => \A p \in Pods : to.divisor[p] = <<>>
    BY <1>1, <1>5, <2>1 DEF Staged, RequestType
  <2>3. QED
    BY <1>5, <2>1, <2>2, AdvanceType
<1>6. ASSUME NEW r \in Requests, FetchPlain(r) \/ Divided(r) PROVE TypeInv'
  BY <1>5, <1>6 DEF FetchPlain, Divided
<1>7. ASSUME NEW r \in Requests, FetchTotal(r) PROVE TypeInv'
  <2>1. CASE StoresTotal(r)
    <3>1. PICK w \in Word :
            /\ costTotal' = [costTotal EXCEPT ![w] = r]
            /\ req' = [q \in Requests |->
                 IF q = r THEN [req[r] EXCEPT !.pc = "store", !.todo = Word \ {w},
                                              !.disturbed = FALSE]
                          ELSE [req[q] EXCEPT !.disturbed = TRUE]]
      BY <1>7, <2>1 DEF FetchTotal
    <3>2. costTotal' \in [Word -> Requests \cup {Unset}]
      BY <3>1 DEF TypeInv
    <3>3. req[r].pc = "fetch" /\ req[r].i = 8 /\ req[r].kind = "detail"
      BY <1>1, <1>7, <2>1 DEF FetchTotal, StoresTotal, Metric, RequestType
    <3> DEFINE to == [req[r] EXCEPT !.pc = "store", !.todo = Word \ {w}, !.disturbed = FALSE]
    <3>4. to \in RequestType
      <4>1. [req[r] EXCEPT !.pc = "store"] \in RequestType
        BY <1>1, FieldTypes
      <4>2. [[req[r] EXCEPT !.pc = "store"] EXCEPT !.todo = Word \ {w}] \in RequestType
        BY <4>1, FieldTypes
      <4>3. [[[req[r] EXCEPT !.pc = "store"] EXCEPT !.todo = Word \ {w}] EXCEPT !.disturbed = FALSE]
              \in RequestType
        BY <4>2, FieldTypes
      <4>4. QED
        BY <4>3
    <3>5. Staged(to)
      BY <1>1, <3>3 DEF RequestType, Staged
    <3>6. QED
      BY <3>1, <3>2, <3>4, <3>5, DisturbType
  <2>2. CASE ~StoresTotal(r)
    BY <1>5, <1>7, <2>2 DEF FetchTotal
  <2>3. QED
    BY <2>1, <2>2
<1>8. ASSUME NEW r \in Requests, StoreTotal(r) PROVE TypeInv'
  <2>1. costTotal' \in [Word -> Requests \cup {Unset}]
    BY <1>8 DEF StoreTotal, TypeInv
  <2>2. req[r].pc = "store" /\ req[r].i = 8
    BY <1>1, <1>8 DEF StoreTotal, Staged
  <2> DEFINE to == [req[r] EXCEPT !.pc = "fetch", !.i = @ + 1, !.todo = {}]
  <2>3. to \in RequestType
    <3>1. [req[r] EXCEPT !.pc = "fetch"] \in RequestType
      BY <1>1, FieldTypes
    <3>2. [[req[r] EXCEPT !.pc = "fetch"] EXCEPT !.i = 9] \in RequestType
      <4>1. 9 \in 1..Len(MetricList)
        BY PlaceInList
      <4>2. QED
        BY <3>1, <4>1, FieldTypes
    <3>3. [[[req[r] EXCEPT !.pc = "fetch"] EXCEPT !.i = 9] EXCEPT !.todo = {}] \in RequestType
      BY <3>2, FieldTypes
    <3>4. QED
      BY <2>2, <3>3
  <2>4. Staged(to)
    BY <1>1, <2>2 DEF RequestType, Staged
  <2>5. req' = [q \in Requests |-> IF q = r THEN to ELSE [req[q] EXCEPT !.disturbed = TRUE]]
    BY <1>8 DEF StoreTotal
  <2> HIDE DEF to
  <2>6. QED
    BY <2>1, <2>3, <2>4, <2>5, DisturbType
<1>9. ASSUME NEW r \in Requests, FetchCost(r) PROVE TypeInv'
  <2>1. req[r].pc = "fetch" /\ req[r].i = 9
    BY <1>1, <1>9 DEF FetchCost, Metric, RequestType
  <2>2. PICK listed \in Listed(r) : Move(r, [req[r] EXCEPT !.pc = "divide", !.todo = listed])
    BY <1>9 DEF FetchCost
  <2> DEFINE to == [req[r] EXCEPT !.pc = "divide", !.todo = listed]
  <2>3. to \in RequestType
    <3>1. [req[r] EXCEPT !.pc = "divide"] \in RequestType
      BY <1>1, FieldTypes
    <3>2. [[req[r] EXCEPT !.pc = "divide"] EXCEPT !.todo = listed] \in RequestType
      BY <3>1, ListedType, FieldTypes
    <3>3. QED
      BY <3>2
  <2>4. Staged(to)
    BY <1>1, <2>1 DEF RequestType, Staged
  <2>5. QED
    BY <1>9, <2>2, <2>3, <2>4, MoveType DEF FetchCost
<1>10. ASSUME NEW r \in Requests, DivideValue(r) PROVE TypeInv'
  <2>1. PICK p \in req[r].todo : Move(r, [req[r] EXCEPT !.divisor[p] = <<costTotal["value"]>>])
    BY <1>10 DEF DivideValue
  <2>2. costTotal["value"] \in Requests \cup {Unset} /\ req[r].pc = "divide"
    BY <1>10 DEF DivideValue, TypeInv, Word
  <2> DEFINE by == [req[r].divisor EXCEPT ![p] = <<costTotal["value"]>>]
             to == [req[r] EXCEPT !.divisor = by]
  <2>3. by \in [Pods -> Seq(Requests \cup {Unset})]
    <3>1. <<costTotal["value"]>> \in Seq(Requests \cup {Unset})
      BY <2>2
    <3>2. req[r].divisor \in [Pods -> Seq(Requests \cup {Unset})]
      BY <1>1 DEF RequestType
    <3>3. QED
      BY <3>1, <3>2
  <2>4. to \in RequestType /\ Staged(to)
    <3> HIDE DEF by
    <3>1. to \in RequestType
      BY <1>1, <2>3, FieldTypes
    <3>2. /\ to.pc = "divide" /\ to.i = req[r].i
          /\ to.memoryLimited = req[r].memoryLimited /\ to.limit = req[r].limit
      BY <1>1, <2>2 DEF RequestType
    <3>3. Staged(to)
      BY <1>1, <2>2, <3>2 DEF Staged
    <3>4. QED
      BY <3>1, <3>3
  <2>5. QED
    BY <1>10, <2>1, <2>4, MoveType DEF DivideValue
<1>11. ASSUME NEW r \in Requests, DivideScale(r) PROVE TypeInv'
  <2>1. PICK p \in req[r].todo :
          /\ Len(req[r].divisor[p]) = 1
          /\ Move(r, [req[r] EXCEPT !.divisor[p] = Append(@, costTotal["scale"]), !.todo = @ \ {p}])
    BY <1>11 DEF DivideScale
  <2>2. costTotal["scale"] \in Requests \cup {Unset} /\ req[r].pc = "divide"
    BY <1>11 DEF DivideScale, TypeInv, Word
  <2> DEFINE by == [req[r].divisor EXCEPT ![p] = Append(@, costTotal["scale"])]
             left == req[r].todo \ {p}
             to == [req[r] EXCEPT !.divisor = by, !.todo = left]
  <2>3. by \in [Pods -> Seq(Requests \cup {Unset})] /\ left \in SUBSET (Word \cup Pods)
    <3>1. \A x \in Seq(Requests \cup {Unset}) :
            Append(x, costTotal["scale"]) \in Seq(Requests \cup {Unset})
      BY <2>2
    <3>2. req[r].divisor \in [Pods -> Seq(Requests \cup {Unset})]
      BY <1>1 DEF RequestType
    <3>3. by \in [Pods -> Seq(Requests \cup {Unset})]
      BY <3>1, <3>2
    <3>4. left \in SUBSET (Word \cup Pods)
      BY <1>1 DEF RequestType
    <3>5. QED
      BY <3>3, <3>4
  <2>4. to \in RequestType /\ Staged(to)
    <3> HIDE DEF by, left
    <3>1. [req[r] EXCEPT !.divisor = by] \in RequestType
      BY <1>1, <2>3, FieldTypes
    <3>2. [[req[r] EXCEPT !.divisor = by] EXCEPT !.todo = left] \in RequestType
      BY <2>3, <3>1, FieldTypes
    <3>3. to \in RequestType
      BY <3>2
    <3>4. /\ to.pc = "divide" /\ to.i = req[r].i
          /\ to.memoryLimited = req[r].memoryLimited /\ to.limit = req[r].limit
      BY <1>1, <2>2 DEF RequestType
    <3>5. Staged(to)
      BY <1>1, <2>2, <3>4 DEF Staged
    <3>6. QED
      BY <3>3, <3>5
  <2>5. QED
    BY <1>11, <2>1, <2>4, MoveType DEF DivideScale
<1>12. ASSUME NEW r \in Requests, Reply(r) PROVE TypeInv'
  <2>1. [req[r] EXCEPT !.pc = "done"] \in RequestType /\ Staged([req[r] EXCEPT !.pc = "done"])
    <3> DEFINE to == [req[r] EXCEPT !.pc = "done"]
    <3>1. to \in RequestType
      BY <1>1, FieldTypes
    <3>2. to.pc = "done" /\ to.memoryLimited = req[r].memoryLimited /\ to.limit = req[r].limit
      BY <1>1 DEF RequestType
    <3>3. Staged(to)
      BY <1>1, <3>2 DEF Staged
    <3>4. QED
      BY <3>1, <3>3
  <2>2. QED
    BY <1>12, <2>1, MoveType DEF Reply
<1>13. ASSUME NEW r \in Requests, Leave(r) PROVE TypeInv'
  BY <1>13, FreshRequest, MoveType DEF Leave
<1>14. CASE UNCHANGED httpVars
  BY <1>14 DEF httpVars, TypeInv
<1>15. QED
  BY <1>2, <1>3, <1>4, <1>6, <1>7, <1>8, <1>9, <1>10, <1>11, <1>12, <1>13, <1>14 DEF HttpNext

\* The words of the total and every request are of their types, in every reachable state.
THEOREM TypeCorrect == Spec => []TypeOK
<1>1. TypeInv => TypeOK
  BY DEF TypeInv, TypeOK, RequestType
<1>2. QED
  BY <1>1, TypeInit, TypeStep, ImplementsHttp, PTL DEF HttpSpec

\* A pod's memory limit is never hidden by its CPU limit, which is stored in the same field.
THEOREM MemoryLimitIsShown == Spec => []MemoryLimitShown
<1>1. TypeInv => MemoryLimitShown
  BY DEF TypeInv, Staged, MemoryLimitShown
<1>2. QED
  BY <1>1, TypeInit, TypeStep, ImplementsHttp, PTL DEF HttpSpec

-----------------------------------------------------------------------------

(***************************************************************************)
(* The words of CostTotal as a detail request sees them.  Each has been    *)
(* stored when the request divides, and what is stored is never taken      *)
(* back; unless another request stored its own since (disturbed), they are *)
(* the request's own.                                                      *)
(***************************************************************************)
Sees(q, r, total, w) ==
  total[w] # Unset /\ (~q.disturbed => total[w] = r)

\* What request r, in state q, knows of the total when its words are these.
Knows(q, r, total) ==
  q.kind = "detail" =>
    /\ q.pc = "store" => \A w \in Word \ q.todo : Sees(q, r, total, w)
    /\ q.pc = "divide" \/ (q.pc = "fetch" /\ q.i >= 9) => \A w \in Word : Sees(q, r, total, w)
    /\ \A p \in Pods : \A k \in DOMAIN q.divisor[p] :
         /\ q.divisor[p][k] # Unset
         /\ ~q.disturbed => q.divisor[p][k] = r

TotalInv == \A r \in Requests : Knows(req[r], r, costTotal)

LEMMA FreshKnows ==
  ASSUME NEW r, NEW total, NEW where \in {"idle", "fetch"}, NEW kind
  PROVE  Knows(Request(where, kind), r, total)
BY DEF Knows, Request

LEMMA MoveKnows ==
  ASSUME TypeInv, TotalInv, NEW r \in Requests, NEW to, Move(r, to), UNCHANGED costTotal,
         Knows(to, r, costTotal)
  PROVE  TotalInv'
BY DEF TypeInv, TotalInv, Move

\* A detail request goes on in the list from anywhere but the total.
LEMMA AdvanceKnows ==
  ASSUME TypeInv, TotalInv, NEW r \in Requests, NEW to \in RequestType,
         req[r].pc \in {"fetch", "divide"}, req[r].kind = "detail" => req[r].i # 8,
         to.kind = req[r].kind, to.i = req[r].i, to.divisor = req[r].divisor,
         to.disturbed = req[r].disturbed,
         Advance(r, to), UNCHANGED costTotal
  PROVE  TotalInv'
<1>1. Knows(req[r], r, costTotal) /\ to.i \in 1..10 /\ Staged(req[r])
  BY PlaceInList DEF TotalInv, TypeInv, RequestType
<1>2. CASE req[r].i = Len(MetricList)
  <2>1. Knows([to EXCEPT !.pc = "reply"], r, costTotal)
    BY <1>1 DEF Knows, RequestType
  <2>2. QED
    BY <1>2, <2>1, MoveKnows DEF Advance
<1>3. CASE req[r].i # Len(MetricList)
  <2> DEFINE next == [to EXCEPT !.pc = "fetch", !.i = @ + 1]
  <2>1. /\ next.pc = "fetch" /\ next.i = to.i + 1 /\ next.divisor = to.divisor
        /\ next.kind = to.kind /\ next.disturbed = to.disturbed
    BY DEF RequestType
  <2>2. Knows(next, r, costTotal)
    <3> HIDE DEF next
    <3>1. next.kind = "detail" /\ next.i >= 9
            => req[r].pc = "divide" \/ (req[r].pc = "fetch" /\ req[r].i >= 9)
      BY <1>1, <2>1
    <3>2. QED
      BY <1>1, <2>1, <3>1 DEF Knows, Sees
  <2>3. QED
    BY <1>3, <2>2, MoveKnows DEF Advance
<1>4. QED
  BY <1>2, <1>3

\* Words of the total are overwritten by request r's own, and all the others are disturbed.
LEMMA DisturbKnows ==
  ASSUME TypeInv, TotalInv, NEW r \in Requests, NEW to, Knows(to, r, costTotal'),
         \A w \in Word : costTotal'[w] \in {r, costTotal[w]},
         req' = [q \in Requests |-> IF q = r THEN to ELSE [req[q] EXCEPT !.disturbed = TRUE]]
  PROVE  TotalInv'
<1>1. ASSUME NEW q \in Requests
      PROVE  Knows([req[q] EXCEPT !.disturbed = TRUE], q, costTotal')
  <2>1. req[q] \in RequestType /\ Knows(req[q], q, costTotal)
    BY DEF TypeInv, TotalInv
  <2>2. r # Unset
    BY CostHttpAssumption
  <2>3. QED
    BY <2>1, <2>2 DEF Knows, Sees, RequestType
<1>2. QED
  BY <1>1 DEF TotalInv

LEMMA TotalInit == HttpInit => TotalInv
  BY FreshKnows DEF HttpInit, TotalInv

LEMMA TotalStep == TypeInv /\ TotalInv /\ [HttpNext]_httpVars => TotalInv'
<1> SUFFICES ASSUME TypeInv, TotalInv, [HttpNext]_httpVars PROVE TotalInv'
  OBVIOUS
<1>1. ASSUME NEW r \in Requests
      PROVE  req[r] \in RequestType /\ Staged(req[r]) /\ Knows(req[r], r, costTotal)
  BY DEF TypeInv, TotalInv
<1>2. ASSUME NEW r \in Requests, Arrive(r) \/ Leave(r) PROVE TotalInv'
  BY <1>2, FreshKnows, MoveKnows DEF Arrive, Leave
<1>3. ASSUME NEW r \in Requests, NEW where \in {"panic", "done"}, UNCHANGED costTotal,
             Move(r, [req[r] EXCEPT !.pc = where])
      PROVE  TotalInv'
  <2>1. Knows([req[r] EXCEPT !.pc = where], r, costTotal)
    BY <1>1, <1>3 DEF Knows, RequestType
  <2>2. QED
    BY <1>3, <2>1, MoveKnows
<1>4. ASSUME NEW r \in Requests, Panic(r) \/ Reply(r) PROVE TotalInv'
  BY <1>3, <1>4 DEF Panic, Reply
<1>5. ASSUME NEW r \in Requests, FetchLimit(r) PROVE TotalInv'
  <2>1. PICK listed \in Listed(r) :
          Advance(r, [req[r] EXCEPT
            !.limit = [p \in Pods |-> IF p \in listed THEN Metric(r) ELSE @[p]],
            !.memoryLimited = IF Metric(r) = "memory_limit" THEN listed ELSE @])
    BY <1>5 DEF FetchLimit
  <2> DEFINE shown == [p \in Pods |-> IF p \in listed THEN Metric(r) ELSE req[r].limit[p]]
             limited == IF Metric(r) = "memory_limit" THEN listed ELSE req[r].memoryLimited
             to == [req[r] EXCEPT !.limit = shown, !.memoryLimited = limited]
  <2>2. /\ Metric(r) \in {"cpu_limit", "memory_limit"} /\ req[r].i \in {2, 4}
        /\ req[r].pc = "fetch" /\ Advance(r, to) /\ UNCHANGED costTotal
    BY <1>1, <1>5, <2>1, PlaceInList DEF FetchLimit, Metric, RequestType
  <2>3. /\ shown \in [Pods -> {"none", "cpu_limit", "memory_limit"}]
        /\ limited \in SUBSET Pods
    BY <1>1, <2>2, ListedType DEF RequestType
  <2> HIDE DEF shown, limited
  <2>4. to \in RequestType
    <3>1. [req[r] EXCEPT !.limit = shown] \in RequestType
      BY <1>1, <2>3, FieldTypes
    <3>2. [[req[r] EXCEPT !.limit = shown] EXCEPT !.memoryLimited = limited] \in RequestType
      BY <2>3, <3>1, FieldTypes
    <3>3. QED
      BY <3>2
  <2>5. /\ to.kind = req[r].kind /\ to.i = req[r].i /\ to.divisor = req[r].divisor
        /\ to.disturbed = req[r].disturbed
    BY <1>1 DEF RequestType
  <2> HIDE DEF to
  <2>6. QED
    BY <2>2, <2>4, <2>5, AdvanceKnows
<1>6. ASSUME NEW r \in Requests, FetchPlain(r) \/ Divided(r) PROVE TotalInv'
  <2>1. PICK to \in RequestType : to = req[r]
    BY <1>1, <1>6
  <2>2. Metric(r) = "total" <=> req[r].i = 8
    <3>1. req[r].i \in 1..10
      BY <1>1, PlaceInList DEF RequestType
    <3>2. MetricList[8] = "total"
      BY DEF MetricList
    <3>3. QED
      BY <3>1, <3>2, PlaceInList DEF Metric
  <2>3. req[r].pc \in {"fetch", "divide"} /\ req[r].i # 8
    BY <1>1, <1>6, <2>2 DEF FetchPlain, Divided, Staged
  <2>4. QED
    BY <1>6, <2>1, <2>3, AdvanceKnows DEF FetchPlain, Divided
<1>7. ASSUME NEW r \in Requests, FetchTotal(r) PROVE TotalInv'
  <2>1. CASE StoresTotal(r)
    <3>1. PICK w \in Word :
            /\ costTotal' = [costTotal EXCEPT ![w] = r]
            /\ req' = [q \in Requests |->
                 IF q = r THEN [req[r] EXCEPT !.pc = "store", !.todo = Word \ {w},
                                              !.disturbed = FALSE]
                          ELSE [req[q] EXCEPT !.disturbed = TRUE]]
      BY <1>7, <2>1 DEF FetchTotal
    <3>2. /\ req[r].pc = "fetch" /\ req[r].i = 8
          /\ \A p \in Pods : req[r].divisor[p] = <<>>
      <4>1. req[r].pc = "fetch" /\ req[r].i = 8
        BY <1>1, <1>7, PlaceInList DEF FetchTotal, Metric, RequestType
      <4>2. QED
        BY <1>1, <4>1 DEF Staged
    <3>3. costTotal'[w] = r /\ r # Unset /\ \A v \in Word : costTotal'[v] \in {r, costTotal[v]}
      BY <3>1, CostHttpAssumption DEF TypeInv
    <3> DEFINE to == [req[r] EXCEPT !.pc = "store", !.todo = Word \ {w}, !.disturbed = FALSE]
    <3>4. /\ to.pc = "store" /\ to.todo = Word \ {w} /\ to.kind = req[r].kind
          /\ \A p \in Pods : to.divisor[p] = <<>>
      BY <1>1, <3>2 DEF RequestType
    <3>5. Knows(to, r, costTotal')
      <4> HIDE DEF to
      <4>1. QED
        BY <3>3, <3>4 DEF Knows, Sees
    <3>6. QED
      BY <3>1, <3>3, <3>5, DisturbKnows
  <2>2. CASE ~StoresTotal(r)
    <3>1. PICK to \in RequestType : to = req[r]
      BY <1>1, <1>7
    <3>2. QED
      BY <1>7, <2>2, <3>1, AdvanceKnows DEF FetchTotal, StoresTotal
  <2>3. QED
    BY <2>1, <2>2
<1>8. ASSUME NEW r \in Requests, StoreTotal(r) PROVE TotalInv'
  <2> DEFINE to == [req[r] EXCEPT !.pc = "fetch", !.i = @ + 1, !.todo = {}]
  <2>1. /\ req' = [q \in Requests |-> IF q = r THEN to ELSE [req[q] EXCEPT !.disturbed = TRUE]]
        /\ req[r].pc = "store" /\ req[r].kind = "detail"
        /\ \A p \in Pods : req[r].divisor[p] = <<>>
    BY <1>1, <1>8 DEF StoreTotal, Staged
  <2>2. /\ costTotal' = [w \in Word |-> IF w \in req[r].todo THEN r ELSE costTotal[w]]
        /\ \A w \in Word : costTotal'[w] \in {r, costTotal[w]}
    BY <1>8 DEF StoreTotal
  <2>3. /\ to.pc = "fetch" /\ to.kind = "detail" /\ to.disturbed = req[r].disturbed
        /\ to.divisor = req[r].divisor
    BY <1>1, <2>1 DEF RequestType
  <2>4. \A w \in Word : Sees(to, r, costTotal', w)
    <3> HIDE DEF to
    <3>1. \A w \in Word \ req[r].todo : Sees(req[r], r, costTotal, w)
      BY <1>1, <2>1 DEF Knows
    <3>2. QED
      BY <2>2, <2>3, <3>1, CostHttpAssumption DEF Sees
  <2> HIDE DEF to
  <2>5. Knows(to, r, costTotal')
    BY <2>1, <2>3, <2>4 DEF Knows
  <2>6. QED
    BY <2>1, <2>2, <2>5, DisturbKnows
<1>9. ASSUME NEW r \in Requests, FetchCost(r) PROVE TotalInv'
  <2>1. req[r].pc = "fetch" /\ req[r].i = 9
    BY <1>1, <1>9, PlaceInList DEF FetchCost, Metric, RequestType
  <2>2. PICK listed \in Listed(r) : Move(r, [req[r] EXCEPT !.pc = "divide", !.todo = listed])
    BY <1>9 DEF FetchCost
  <2> DEFINE to == [req[r] EXCEPT !.pc = "divide", !.todo = listed]
  <2>3. /\ to.pc = "divide" /\ to.kind = req[r].kind /\ to.divisor = req[r].divisor
        /\ to.disturbed = req[r].disturbed
    BY <1>1 DEF RequestType
  <2>4. Knows(to, r, costTotal)
    <3> HIDE DEF to
    <3>1. req[r].kind = "detail" => \A w \in Word : Sees(req[r], r, costTotal, w)
      BY <1>1, <2>1 DEF Knows
    <3>2. req[r].kind = "detail" => \A p \in Pods : \A k \in DOMAIN req[r].divisor[p] :
            req[r].divisor[p][k] # Unset /\ (~req[r].disturbed => req[r].divisor[p][k] = r)
      BY <1>1 DEF Knows
    <3>3. QED
      BY <2>3, <3>1, <3>2 DEF Knows, Sees
  <2>5. QED
    BY <1>9, <2>2, <2>4, MoveKnows DEF FetchCost
<1>10. ASSUME NEW r \in Requests, NEW by, NEW to, req[r].pc = "divide",
              UNCHANGED costTotal, Move(r, to),
              to.pc = "divide", to.kind = req[r].kind, to.divisor = by,
              to.disturbed = req[r].disturbed,
              \A x \in Pods : \A k \in DOMAIN by[x] :
                \/ k \in DOMAIN req[r].divisor[x] /\ by[x][k] = req[r].divisor[x][k]
                \/ \E w \in Word : by[x][k] = costTotal[w]
       PROVE  TotalInv'
  <2>1. req[r].kind = "detail" => \A w \in Word : Sees(req[r], r, costTotal, w)
    BY <1>1, <1>10 DEF Knows
  <2>2. req[r].kind = "detail" => \A x \in Pods : \A k \in DOMAIN by[x] :
          by[x][k] # Unset /\ (~req[r].disturbed => by[x][k] = r)
    BY <1>1, <1>10, <2>1 DEF Knows, Sees
  <2>3. Knows(to, r, costTotal)
    BY <1>10, <2>1, <2>2 DEF Knows, Sees
  <2>4. QED
    BY <1>10, <2>3, MoveKnows
<1>11. ASSUME NEW r \in Requests, DivideValue(r) PROVE TotalInv'
  <2>1. PICK p \in req[r].todo : Move(r, [req[r] EXCEPT !.divisor[p] = <<costTotal["value"]>>])
    BY <1>11 DEF DivideValue
  <2> DEFINE by == [req[r].divisor EXCEPT ![p] = <<costTotal["value"]>>]
             to == [req[r] EXCEPT !.divisor = by]
  <2>2. \A x \in Pods : \A k \in DOMAIN by[x] :
          \/ k \in DOMAIN req[r].divisor[x] /\ by[x][k] = req[r].divisor[x][k]
          \/ \E w \in Word : by[x][k] = costTotal[w]
    <3> SUFFICES ASSUME NEW x \in Pods, x = p, NEW k \in DOMAIN by[x]
                 PROVE  by[x][k] = costTotal["value"]
      BY <1>1 DEF RequestType, Word
    <3>1. by[x] = <<costTotal["value"]>>
      BY <1>1 DEF RequestType
    <3>2. QED
      BY <3>1
  <2>3. /\ to.pc = req[r].pc /\ to.kind = req[r].kind /\ to.divisor = by
        /\ to.disturbed = req[r].disturbed
    BY <1>1 DEF RequestType
  <2>4. Move(r, to)
    BY <2>1
  <2> HIDE DEF by, to
  <2>5. QED
    BY <1>10, <1>11, <2>2, <2>3, <2>4 DEF DivideValue
<1>12. ASSUME NEW r \in Requests, DivideScale(r) PROVE TotalInv'
  <2>1. PICK p \in req[r].todo :
          Move(r, [req[r] EXCEPT !.divisor[p] = Append(@, costTotal["scale"]), !.todo = @ \ {p}])
    BY <1>12 DEF DivideScale
  <2> DEFINE by == [req[r].divisor EXCEPT ![p] = Append(@, costTotal["scale"])]
             to == [req[r] EXCEPT !.divisor = by, !.todo = @ \ {p}]
  <2>2. \A x \in Pods : \A k \in DOMAIN by[x] :
          \/ k \in DOMAIN req[r].divisor[x] /\ by[x][k] = req[r].divisor[x][k]
          \/ \E w \in Word : by[x][k] = costTotal[w]
    <3> SUFFICES ASSUME NEW x \in Pods, x = p, NEW k \in DOMAIN by[x]
                 PROVE  \/ k \in DOMAIN req[r].divisor[x] /\ by[x][k] = req[r].divisor[x][k]
                        \/ by[x][k] = costTotal["scale"]
      BY <1>1 DEF RequestType, Word
    <3>1. by[x] = Append(req[r].divisor[x], costTotal["scale"])
      BY <1>1 DEF RequestType
    <3>2. req[r].divisor[x] \in Seq(Requests \cup {Unset})
      BY <1>1 DEF RequestType
    <3>3. QED
      BY <3>1, <3>2
  <2>3. /\ to.pc = req[r].pc /\ to.kind = req[r].kind /\ to.divisor = by
        /\ to.disturbed = req[r].disturbed
    BY <1>1 DEF RequestType
  <2>4. Move(r, to)
    BY <2>1
  <2> HIDE DEF by, to
  <2>5. QED
    BY <1>10, <1>12, <2>2, <2>3, <2>4 DEF DivideScale
<1>13. CASE UNCHANGED httpVars
  BY <1>13 DEF httpVars, TotalInv
<1>14. QED
  BY <1>2, <1>4, <1>5, <1>6, <1>7, <1>8, <1>9, <1>11, <1>12, <1>13 DEF HttpNext

LEMMA TotalCorrect == Spec => []TotalInv
<1>1. QED
  BY TypeInit, TypeStep, TotalInit, TotalStep, ImplementsHttp, PTL DEF HttpSpec

\* A detail request divides by the total it fetched itself, unless another request stored
\* its own in between.
THEOREM OwnTotalIsUsed == Spec => []OwnTotalUnlessDisturbed
<1>1. TotalInv => OwnTotalUnlessDisturbed
  BY DEF TotalInv, Knows, OwnTotalUnlessDisturbed
<1>2. QED
  BY <1>1, TotalCorrect, PTL

\* A detail request never divides by a total that was not stored yet, whatever the others do.
THEOREM DetailHasATotal == Spec => []DetailFindsATotal
<1>1. TotalInv => DetailFindsATotal
  BY DEF TotalInv, Knows, DetailFindsATotal
<1>2. QED
  BY <1>1, TotalCorrect, PTL

-----------------------------------------------------------------------------

(***************************************************************************)
(* What is shown and what was asked for.  The lemmas up to NoneIsLost are  *)
(* about the conversions of a selector alone.                              *)
(***************************************************************************)
Typed(params) == params.label \in Seq(Requirement) /\ params.pod \in Seq(Requirement)

\* The source can answer a selector of these parameters.
Legal(params) == \A t \in ToSet(LabelMatches(params)) : t.op # "malformed" /\ t.values # <<>>

\* The terms of the first parameter, the first of them with its prefix.
Labelled(params) ==
  [i \in DOMAIN params.label |->
     IF i = 1 THEN [params.label[i] EXCEPT !.key = Prefixed(@)] ELSE params.label[i]]

LEMMA RequirementIs ==
  ASSUME NEW t \in Requirement
  PROVE  /\ t \in [key : STRING, op : Operator, values : Seq(STRING)]
         /\ t.op \in Operator /\ t.values \in Seq(STRING)
         /\ t.op \in WithoutValue => t.values = <<>>
BY DEF Requirement

LEMMA LabelledIs ==
  ASSUME NEW params, Typed(params), NEW i \in DOMAIN params.label
  PROVE  /\ params.label[i] \in Requirement
         /\ Labelled(params)[i].op = params.label[i].op
         /\ Labelled(params)[i].values = params.label[i].values
         /\ i = 1 => Labelled(params)[i].key = Prefixed(params.label[i].key)
         /\ i # 1 => Labelled(params)[i].key = params.label[i].key
<1> DEFINE t == params.label[i]
<1>1. t \in Requirement
  BY DEF Typed
<1>2. Labelled(params)[i] = IF i = 1 THEN [t EXCEPT !.key = Prefixed(@)] ELSE t
  BY DEF Labelled
<1> HIDE DEF t
<1>3. t \in [key : STRING, op : Operator, values : Seq(STRING)]
  BY <1>1, RequirementIs
<1>4. QED
  BY <1>1, <1>2, <1>3 DEF t

LEMMA Matches ==
  ASSUME NEW params, Typed(params)
  PROVE  ToSet(LabelMatches(params)) = ToSet(Labelled(params)) \cup ToSet(params.pod)
<1> DEFINE a == Labelled(params)
           b == params.pod
           n == Len(params.label)
           S == ToSet(a) \cup Requirement
<1>1. n \in Nat /\ DOMAIN params.label = 1..n /\ b \in Seq(Requirement)
  BY DEF Typed
<1>2. a \in [1..n -> S]
  BY <1>1 DEF Labelled, ToSet
<1>3. LabelMatches(params) = a \o b
  BY DEF LabelMatches, Labelled
<1> HIDE DEF a, b, n
<1>4. a \in Seq(S) /\ Len(a) = n
  <2>1. a \in Seq(S)
    BY <1>1, <1>2, SeqDef
  <2>2. DOMAIN a = 1..n /\ DOMAIN a = 1..Len(a) /\ Len(a) \in Nat
    BY <1>2, <2>1, LenProperties
  <2>3. QED
    BY <1>1, <2>1, <2>2
<1>5. b \in Seq(S)
  BY <1>1, SeqMonotonic
<1> HIDE DEF S
<1> DEFINE c == a \o b
<1>6. /\ c \in Seq(S) /\ Len(c) = Len(a) + Len(b)
      /\ \A i \in 1..Len(a) + Len(b) : c[i] = IF i <= Len(a) THEN a[i] ELSE b[i - Len(a)]
  BY <1>4, <1>5, ConcatProperties
<1>7. /\ Len(a) \in Nat /\ Len(b) \in Nat
      /\ DOMAIN a = 1..Len(a) /\ DOMAIN b = 1..Len(b) /\ DOMAIN c = 1..Len(c)
  BY <1>4, <1>5, <1>6, LenProperties
<1> HIDE DEF c
<1>8. ASSUME NEW t \in ToSet(c) PROVE t \in ToSet(a) \cup ToSet(b)
  <2>1. PICK i \in 1..Len(a) + Len(b) : t = c[i]
    BY <1>6, <1>7, <1>8 DEF ToSet
  <2>2. CASE i <= Len(a)
    BY <1>6, <1>7, <2>1, <2>2 DEF ToSet
  <2>3. CASE ~(i <= Len(a))
    <3>1. i - Len(a) \in 1..Len(b) /\ t = b[i - Len(a)]
      BY <1>6, <1>7, <2>1, <2>3
    <3>2. QED
      BY <1>7, <3>1 DEF ToSet
  <2>4. QED
    BY <2>2, <2>3
<1>9. ASSUME NEW t \in ToSet(a) PROVE t \in ToSet(c)
  <2>1. PICK i \in 1..Len(a) : t = a[i]
    BY <1>7, <1>9 DEF ToSet
  <2>2. i \in 1..Len(a) + Len(b) /\ c[i] = t
    BY <1>6, <1>7, <2>1
  <2>3. QED
    BY <1>6, <1>7, <2>2 DEF ToSet
<1>10. ASSUME NEW t \in ToSet(b) PROVE t \in ToSet(c)
  <2>1. PICK i \in 1..Len(b) : t = b[i]
    BY <1>7, <1>10 DEF ToSet
  <2> DEFINE j == i + Len(a)
  <2>2. j \in 1..Len(a) + Len(b) /\ ~(j <= Len(a)) /\ j - Len(a) = i
    BY <1>7, <2>1
  <2> HIDE DEF j
  <2>3. c[j] = t
    BY <1>6, <2>1, <2>2
  <2>4. QED
    BY <1>6, <1>7, <2>2, <2>3 DEF ToSet
<1>11. QED
  BY <1>3, <1>8, <1>9, <1>10 DEF a, b, c

\* Every matcher comes from a term of one of the two parameters, with its operator and values.
LEMMA FromTerms ==
  ASSUME NEW params, Typed(params), NEW t \in ToSet(LabelMatches(params))
  PROVE  /\ \E u \in Terms(params) : t.op = u.op /\ t.values = u.values
         /\ t.op \in Operator /\ t.values \in Seq(STRING)
         /\ t.op \in WithoutValue => t.values = <<>>
<1>1. \E u \in Terms(params) : u \in Requirement /\ t.op = u.op /\ t.values = u.values
  <2>1. CASE t \in ToSet(Labelled(params))
    <3>1. PICK i \in DOMAIN params.label : t = Labelled(params)[i]
      BY <2>1 DEF ToSet, Labelled
    <3>2. params.label[i] \in Terms(params)
      BY DEF Terms, ToSet
    <3>3. QED
      BY <3>1, <3>2, LabelledIs
  <2>2. CASE t \in ToSet(params.pod)
    BY <2>2 DEF Typed, Terms, ToSet
  <2>3. QED
    BY <2>1, <2>2, Matches
<1>2. QED
  BY <1>1, RequirementIs

\* Where no term of the parameters is misread, one that has values says "in".
LEMMA IsReadRight ==
  ASSUME NEW params, Typed(params), \A u \in Terms(params) : ~Misread(u),
         NEW t \in ToSet(LabelMatches(params)), t.values # <<>>
  PROVE  /\ t.op = "in" /\ t.values \in Seq(STRING)
         /\ \E u \in Terms(params) : t.values = u.values
<1>1. PICK u \in Terms(params) : t.op = u.op /\ t.values = u.values
  BY FromTerms
<1>2. t.op \in Operator /\ t.values \in Seq(STRING) /\ t.op \notin WithoutValue
  BY FromTerms
<1>3. t.op \notin {"notIn"} \cup Comparison
  BY <1>1 DEF Misread
<1>4. QED
  BY <1>1, <1>2, <1>3 DEF Operator

LEMMA FirstValue ==
  ASSUME NEW x \in Seq(STRING), x # <<>>
  PROVE  Head(x) \in ToSet(x) /\ (~(Len(x) > 1) => ToSet(x) = {Head(x)})
<1>1. Len(x) \in Nat /\ Len(x) > 0 /\ Head(x) = x[1] /\ DOMAIN x = 1..Len(x)
  OBVIOUS
<1>2. 1 \in DOMAIN x
  BY <1>1
<1>3. Head(x) \in ToSet(x)
  BY <1>1, <1>2 DEF ToSet
<1>4. ASSUME ~(Len(x) > 1) PROVE ToSet(x) = {Head(x)}
  <2>1. DOMAIN x = {1}
    BY <1>1, <1>4
  <2>2. QED
    BY <1>1, <2>1 DEF ToSet
<1>5. QED
  BY <1>3, <1>4

\* A pod that is shown was asked for, as far as matchers can say so.
LEMMA OnlyWanted ==
  ASSUME NEW params, Typed(params), Legal(params), NEW p \in Selected(params, "cost"),
         \A t \in Terms(params) : ~Misread(t) /\ Empty \notin ToSet(t.values),
         \A t, u \in ToSet(LabelMatches(params)) : t.key = u.key => t = u,
         \A i \in DOMAIN params.label : i > 1 => params.label[i].key \notin DOMAIN LabelsOf[p]
  PROVE  p \in Wanted(params)
<1> DEFINE m == ToSet(LabelMatches(params))
           terms == {t \in m : Head(t.values) # Empty}
<1>1. /\ p \in Pods /\ params.namespace \in {Empty, Value(p, "namespace")}
      /\ \A k \in {t.key : t \in terms} :
           Value(p, k) \in {Head(t.values) : t \in {u \in terms : u.key = k}}
  BY DEF Selected, PodMatchers
<1>2. ASSUME NEW t \in m
      PROVE  t.op = "in" /\ Head(t.values) # Empty /\ Value(p, t.key) = Head(t.values)
             /\ Head(t.values) \in ToSet(t.values)
  <2>1. t.values # <<>> /\ t.op # "malformed"
    BY DEF Legal
  <2>2. t.op = "in" /\ t.values \in Seq(STRING) /\ Empty \notin ToSet(t.values)
    BY <2>1, IsReadRight
  <2>3. Head(t.values) \in ToSet(t.values) /\ Head(t.values) # Empty
    BY <2>1, <2>2, FirstValue
  <2>4. t \in terms
    BY <2>3
  <2>5. PICK u \in terms : u.key = t.key /\ Value(p, t.key) = Head(u.values)
    BY <1>1, <2>4
  <2>6. u = t
    BY <2>5
  <2>7. QED
    BY <2>2, <2>3, <2>5, <2>6
<1> HIDE DEF terms
<1>3. ASSUME NEW t \in ToSet(params.label) PROVE Holds(t, Value(p, Prefixed(t.key)))
  <2>1. PICK i \in DOMAIN params.label : t = params.label[i]
    BY <1>3 DEF ToSet
  <2> DEFINE u == Labelled(params)[i]
  <2>2. u \in m
    <3>1. i \in DOMAIN Labelled(params)
      BY DEF Labelled
    <3>2. u \in ToSet(Labelled(params))
      BY <3>1 DEF ToSet
    <3>3. QED
      BY <3>2, Matches
  <2>3. /\ u.op = t.op /\ u.values = t.values
        /\ i = 1 => u.key = Prefixed(t.key)
        /\ i # 1 => u.key = t.key
    BY <2>1, LabelledIs
  <2> HIDE DEF u
  <2>4. i = 1
    <3> SUFFICES ASSUME i # 1 PROVE FALSE
      OBVIOUS
    <3>1. i > 1
      BY DEF Typed
    <3>2. Value(p, u.key) = Empty
      BY <2>1, <2>3, <3>1 DEF Value
    <3>3. QED
      BY <1>2, <2>2, <3>2
  <2>5. QED
    BY <1>2, <2>2, <2>3, <2>4 DEF Holds
<1>4. ASSUME NEW t \in ToSet(params.pod) PROVE Holds(t, Value(p, t.key))
  <2>1. t \in m
    BY Matches
  <2>2. QED
    BY <1>2, <2>1 DEF Holds
<1>5. QED
  BY <1>1, <1>3, <1>4 DEF Wanted

\* A pod that was asked for is listed, as far as matchers can say so.
LEMMA NoneIsLost ==
  ASSUME NEW params, Typed(params), Legal(params), NEW p \in Wanted(params),
         \A t \in Terms(params) : ~Misread(t) /\ ~(Len(t.values) > 1),
         ~(Len(params.label) > 1)
  PROVE  p \in Selected(params, "cost")
<1> DEFINE m == ToSet(LabelMatches(params))
           terms == {t \in m : Head(t.values) # Empty}
<1>1. ASSUME NEW t \in m PROVE Value(p, t.key) = Head(t.values)
  <2>1. t.values # <<>> /\ t.op # "malformed"
    BY DEF Legal
  <2>2. t.op = "in" /\ t.values \in Seq(STRING) /\ ~(Len(t.values) > 1)
    BY <2>1, IsReadRight
  <2>3. ToSet(t.values) = {Head(t.values)}
    BY <2>1, <2>2, FirstValue
  <2>4. CASE t \in ToSet(Labelled(params))
    <3>1. PICK i \in DOMAIN params.label : t = Labelled(params)[i]
      BY <2>4 DEF ToSet, Labelled
    <3>2. i = 1
      BY DEF Typed
    <3>3. /\ params.label[i] \in ToSet(params.label)
          /\ t.op = params.label[i].op /\ t.values = params.label[i].values
          /\ t.key = Prefixed(params.label[i].key)
      BY <3>1, <3>2, LabelledIs DEF ToSet
    <3>4. Holds(params.label[i], Value(p, t.key))
      BY <3>3 DEF Wanted
    <3>5. QED
      BY <2>2, <2>3, <3>3, <3>4 DEF Holds
  <2>5. CASE t \in ToSet(params.pod)
    <3>1. Holds(t, Value(p, t.key))
      BY <2>5 DEF Wanted
    <3>2. QED
      BY <2>2, <2>3, <3>1 DEF Holds
  <2>6. QED
    BY <2>4, <2>5, Matches
<1>2. ASSUME NEW k \in {t.key : t \in terms}
      PROVE  Value(p, k) \in {Head(t.values) : t \in {u \in terms : u.key = k}}
  BY <1>1, <1>2
<1>3. p \in Pods /\ params.namespace \in {Empty, Value(p, "namespace")}
  BY DEF Wanted
<1> HIDE DEF terms
<1>4. QED
  BY <1>2, <1>3 DEF Selected, PodMatchers, terms

-----------------------------------------------------------------------------

\* The pods that are shown, or about to be, are those of a selector that the source can answer.
Rightly(q, params) ==
  q.kind = "detail" =>
    \A p \in Pods :
      q.limit[p] # "none" \/ q.divisor[p] # <<>> \/ (q.pc = "divide" /\ p \in q.todo)
        => Legal(params) /\ p \in Selected(params, "cost")

AskedInv ==
  /\ DOMAIN asked = Requests
  /\ \A r \in Requests : Typed(asked[r]) /\ Rightly(req[r], asked[r])

LEMMA FreshIsRight ==
  ASSUME NEW where \in {"idle", "fetch"}, NEW kind, NEW params
  PROVE  Rightly(Request(where, kind), params)
BY DEF Rightly, Request

LEMMA TypedParams ==
  /\ Typed(Plain)
  /\ \A url \in Urls : Typed(Params(url))
<1>1. Typed(Plain)
  BY DEF Typed, Plain
<1>2. ASSUME NEW url \in Urls PROVE Typed(Params(url))
  <2>1. /\ url.selector \in Seq(Requirement)
        /\ url.type = "Pod" => url.dimension \in Seq(Requirement)
    BY RequestsAssumption
  <2>2. <<>> \in Seq(Requirement)
    OBVIOUS
  <2>3. QED
    BY <2>1, <2>2 DEF Typed, Params
<1>3. QED
  BY <1>1, <1>2

LEMMA AskedInit == Init => AskedInv
BY TypedParams, FreshIsRight DEF Init, HttpInit, AskedInv

\* A step of one request; the others may be disturbed.
LEMMA OneStep ==
  ASSUME TypeInv, AskedInv, NEW r \in Requests, Rightly(req'[r], asked'[r]), Typed(asked'[r]),
         DOMAIN asked' = Requests,
         \A q \in Requests \ {r} :
           asked'[q] = asked[q] /\ req'[q] \in {req[q], [req[q] EXCEPT !.disturbed = TRUE]}
  PROVE  AskedInv'
<1>1. ASSUME NEW q \in Requests \ {r} PROVE Typed(asked'[q]) /\ Rightly(req'[q], asked'[q])
  <2>1. Typed(asked[q]) /\ Rightly(req[q], asked[q]) /\ req[q] \in RequestType
    BY DEF AskedInv, TypeInv
  <2>2. Rightly([req[q] EXCEPT !.disturbed = TRUE], asked[q])
    BY <2>1 DEF Rightly, RequestType
  <2>3. QED
    BY <2>1, <2>2
<1>2. ASSUME NEW q \in Requests PROVE Typed(asked'[q]) /\ Rightly(req'[q], asked'[q])
  BY <1>1
<1>3. QED
  BY <1>2 DEF AskedInv

LEMMA MoveRight ==
  ASSUME TypeInv, AskedInv, NEW r \in Requests, NEW to, Move(r, to), UNCHANGED asked,
         Rightly(to, asked[r])
  PROVE  AskedInv'
<1>1. /\ req'[r] = to /\ \A q \in Requests \ {r} : req'[q] = req[q]
      /\ asked' = asked /\ DOMAIN asked = Requests /\ Typed(asked[r])
  BY DEF TypeInv, AskedInv, Move
<1>2. QED
  BY <1>1, OneStep

\* What is shown stays as it is when a request goes on in the list.
LEMMA AdvanceRight ==
  ASSUME TypeInv, AskedInv, NEW r \in Requests, NEW to \in RequestType, UNCHANGED asked,
         Advance(r, to), Rightly([to EXCEPT !.pc = "fetch"], asked[r])
  PROVE  AskedInv'
<1> DEFINE a == [to EXCEPT !.pc = "reply"]
           b == [to EXCEPT !.pc = "fetch", !.i = @ + 1]
<1>1. Rightly(a, asked[r]) /\ Rightly(b, asked[r])
  <2>1. /\ a.kind = to.kind /\ a.limit = to.limit /\ a.divisor = to.divisor /\ a.pc = "reply"
        /\ b.kind = to.kind /\ b.limit = to.limit /\ b.divisor = to.divisor /\ b.pc = "fetch"
    BY DEF RequestType
  <2> HIDE DEF a, b
  <2>2. QED
    BY <2>1 DEF Rightly, RequestType
<1>2. Move(r, a) \/ Move(r, b)
  BY DEF Advance
<1> HIDE DEF a, b
<1>3. QED
  BY <1>1, <1>2, MoveRight

LEMMA AskedStep == TypeInv /\ AskedInv /\ [Next]_vars => AskedInv'
<1> SUFFICES ASSUME TypeInv, AskedInv, [Next]_vars PROVE AskedInv'
  OBVIOUS
<1>1. ASSUME NEW r \in Requests
      PROVE  /\ req[r] \in RequestType /\ Staged(req[r])
             /\ Typed(asked[r]) /\ Rightly(req[r], asked[r])
  BY DEF TypeInv, AskedInv
<1>2. ASSUME NEW r \in Requests, Ask(r) PROVE AskedInv'
  <2>1. PICK kind : Move(r, Request("fetch", kind))
    BY <1>2 DEF Ask, Arrive
  <2>2. PICK url \in Urls : asked' = [asked EXCEPT ![r] = Params(url)]
    BY <1>2 DEF Ask
  <2>3. /\ req'[r] = Request("fetch", kind) /\ \A q \in Requests \ {r} : req'[q] = req[q]
        /\ DOMAIN asked' = Requests /\ asked'[r] = Params(url)
        /\ \A q \in Requests \ {r} : asked'[q] = asked[q]
    BY <2>1, <2>2 DEF Move, TypeInv, AskedInv
  <2>4. QED
    BY <2>3, TypedParams, FreshIsRight, OneStep
<1>3. ASSUME NEW r \in Requests, Depart(r) PROVE AskedInv'
  <2>1. /\ req'[r] = Request("idle", "detail") /\ \A q \in Requests \ {r} : req'[q] = req[q]
        /\ DOMAIN asked' = Requests /\ asked'[r] = Plain
        /\ \A q \in Requests \ {r} : asked'[q] = asked[q]
    BY <1>3 DEF Depart, Leave, Move, TypeInv, AskedInv
  <2>2. QED
    BY <2>1, TypedParams, FreshIsRight, OneStep
<1>4. ASSUME NEW r \in Requests, NEW where \in {"panic", "done"}, UNCHANGED asked,
             Move(r, [req[r] EXCEPT !.pc = where])
      PROVE  AskedInv'
  <2>1. Rightly([req[r] EXCEPT !.pc = where], asked[r])
    BY <1>1, <1>4 DEF Rightly, RequestType
  <2>2. QED
    BY <1>4, <2>1, MoveRight
<1>5. ASSUME NEW r \in Requests, UNCHANGED asked, Advance(r, req[r]) PROVE AskedInv'
  <2>1. Rightly([req[r] EXCEPT !.pc = "fetch"], asked[r])
    BY <1>1 DEF Rightly, RequestType
  <2>2. PICK to \in RequestType : to = req[r]
    BY <1>1
  <2>3. QED
    BY <1>5, <2>1, <2>2, AdvanceRight
<1>6. ASSUME NEW r \in Requests, Fetch(r), FetchLimit(r),
             Lists(r, {p \in Pods : req'[r].limit[p] = Metric(r)})
      PROVE  AskedInv'
  <2>1. PICK listed \in Listed(r) :
          Advance(r, [req[r] EXCEPT
            !.limit = [p \in Pods |-> IF p \in listed THEN Metric(r) ELSE @[p]],
            !.memoryLimited = IF Metric(r) = "memory_limit" THEN listed ELSE @])
    BY <1>6 DEF FetchLimit
  <2> DEFINE shown == [p \in Pods |-> IF p \in listed THEN Metric(r) ELSE req[r].limit[p]]
             limited == IF Metric(r) = "memory_limit" THEN listed ELSE req[r].memoryLimited
             to == [req[r] EXCEPT !.limit = shown, !.memoryLimited = limited]
  <2>2. /\ Metric(r) \in {"cpu_limit", "memory_limit"} /\ Advance(r, to) /\ UNCHANGED asked
        /\ listed \in SUBSET Pods /\ Legal(asked[r])
    BY <1>6, <2>1, ListedType DEF FetchLimit, Fetch, Answerable, Legal
  <2>3. /\ shown \in [Pods -> {"none", "cpu_limit", "memory_limit"}]
        /\ limited \in SUBSET Pods
        /\ \A p \in Pods : p \in listed => shown[p] = Metric(r)
        /\ \A p \in Pods : p \notin listed => shown[p] = req[r].limit[p]
    BY <1>1, <2>2 DEF RequestType
  <2> HIDE DEF shown, limited
  <2>4. to \in RequestType
    <3>1. [req[r] EXCEPT !.limit = shown] \in RequestType
      BY <1>1, <2>3, FieldTypes
    <3>2. [[req[r] EXCEPT !.limit = shown] EXCEPT !.memoryLimited = limited] \in RequestType
      BY <2>3, <3>1, FieldTypes
    <3>3. QED
      BY <3>2
  <2>5. to.kind = req[r].kind /\ to.limit = shown /\ to.divisor = req[r].divisor
    BY <1>1 DEF RequestType
  <2> HIDE DEF to
  <2>6. req'[r].limit = shown
    <3>1. req'[r] \in {[to EXCEPT !.pc = "reply"], [to EXCEPT !.pc = "fetch", !.i = @ + 1]}
      BY <2>2 DEF Advance, Move, TypeInv
    <3>2. QED
      BY <2>4, <2>5, <3>1 DEF RequestType
  <2>7. ASSUME req[r].kind = "detail", NEW p \in listed PROVE p \in Selected(asked[r], "cost")
    <3>1. p \in {x \in Pods : req'[r].limit[x] = Metric(r)}
      BY <2>2, <2>3, <2>6
    <3>2. p \in Selected(asked[r], Metric(r))
      BY <1>6, <2>7, <3>1 DEF Lists
    <3>3. QED
      BY <2>2, <3>2 DEF Selected
  <2> DEFINE next == [to EXCEPT !.pc = "fetch"]
  <2>8. Rightly(next, asked[r])
    <3>1. /\ next.pc = "fetch" /\ next.kind = req[r].kind /\ next.limit = shown
          /\ next.divisor = req[r].divisor
      BY <2>4, <2>5 DEF RequestType
    <3> HIDE DEF next
    <3>2. QED
      BY <1>1, <2>2, <2>3, <2>7, <3>1 DEF Rightly
  <2>9. QED
    BY <2>2, <2>4, <2>8, AdvanceRight
<1>7. ASSUME NEW r \in Requests, FetchPlain(r) \/ Divided(r), UNCHANGED asked PROVE AskedInv'
  BY <1>5, <1>7 DEF FetchPlain, Divided
<1>8. ASSUME NEW r \in Requests, FetchTotal(r), UNCHANGED asked PROVE AskedInv'
  <2>1. CASE StoresTotal(r)
    <3>1. PICK w \in Word :
            req' = [q \in Requests |->
                 IF q = r THEN [req[r] EXCEPT !.pc = "store", !.todo = Word \ {w},
                                              !.disturbed = FALSE]
                          ELSE [req[q] EXCEPT !.disturbed = TRUE]]
      BY <1>8, <2>1 DEF FetchTotal
    <3> DEFINE to == [req[r] EXCEPT !.pc = "store", !.todo = Word \ {w}, !.disturbed = FALSE]
    <3>2. /\ to.pc = "store" /\ to.kind = req[r].kind /\ to.limit = req[r].limit
          /\ to.divisor = req[r].divisor
      BY <1>1 DEF RequestType
    <3>3. req'[r] = to /\ \A q \in Requests \ {r} : req'[q] = [req[q] EXCEPT !.disturbed = TRUE]
      BY <3>1
    <3> HIDE DEF to
    <3>4. Rightly(to, asked[r])
      BY <1>1, <3>2 DEF Rightly
    <3>5. QED
      BY <1>1, <1>8, <3>3, <3>4, OneStep DEF AskedInv
  <2>2. CASE ~StoresTotal(r)
    BY <1>5, <1>8, <2>2 DEF FetchTotal
  <2>3. QED
    BY <2>1, <2>2
<1>9. ASSUME NEW r \in Requests, StoreTotal(r), UNCHANGED asked PROVE AskedInv'
  <2> DEFINE to == [req[r] EXCEPT !.pc = "fetch", !.i = @ + 1, !.todo = {}]
  <2>1. /\ to.pc = "fetch" /\ to.kind = req[r].kind /\ to.limit = req[r].limit
        /\ to.divisor = req[r].divisor
    BY <1>1 DEF RequestType
  <2>2. req'[r] = to /\ \A q \in Requests \ {r} : req'[q] = [req[q] EXCEPT !.disturbed = TRUE]
    BY <1>9 DEF StoreTotal
  <2> HIDE DEF to
  <2>3. Rightly(to, asked[r])
    BY <1>1, <2>1 DEF Rightly
  <2>4. QED
    BY <1>1, <1>9, <2>2, <2>3, OneStep DEF AskedInv
<1>10. ASSUME NEW r \in Requests, Fetch(r), FetchCost(r), Lists(r, req'[r].todo)
       PROVE  AskedInv'
  <2>1. PICK listed \in Listed(r) : Move(r, [req[r] EXCEPT !.pc = "divide", !.todo = listed])
    BY <1>10 DEF FetchCost
  <2> DEFINE to == [req[r] EXCEPT !.pc = "divide", !.todo = listed]
  <2>2. /\ to.kind = req[r].kind /\ to.limit = req[r].limit /\ to.divisor = req[r].divisor
        /\ to.todo = listed
    BY <1>1 DEF RequestType
  <2>3. req'[r] = to /\ Move(r, to) /\ UNCHANGED asked /\ Legal(asked[r]) /\ Metric(r) = "cost"
    BY <1>10, <2>1 DEF Move, TypeInv, Fetch, FetchCost, Answerable, Legal
  <2> HIDE DEF to
  <2>4. req[r].kind = "detail" => listed \subseteq Selected(asked[r], "cost")
    BY <1>10, <2>2, <2>3 DEF Lists
  <2>5. Rightly(to, asked[r])
    BY <1>1, <2>2, <2>3, <2>4 DEF Rightly
  <2>6. QED
    BY <2>3, <2>5, MoveRight
<1>11. ASSUME NEW r \in Requests, NEW p \in req[r].todo, NEW by, NEW to, req[r].pc = "divide",
              Move(r, to), UNCHANGED asked, to.kind = req[r].kind, to.limit = req[r].limit,
              to.divisor = by, to.todo \subseteq req[r].todo,
              \A x \in Pods : x # p => by[x] = req[r].divisor[x]
       PROVE  AskedInv'
  <2>1. Rightly(to, asked[r])
    BY <1>1, <1>11 DEF Rightly
  <2>2. QED
    BY <1>11, <2>1, MoveRight
<1>12. ASSUME NEW r \in Requests, DivideValue(r), UNCHANGED asked PROVE AskedInv'
  <2>1. PICK p \in req[r].todo : Move(r, [req[r] EXCEPT !.divisor[p] = <<costTotal["value"]>>])
    BY <1>12 DEF DivideValue
  <2> DEFINE by == [req[r].divisor EXCEPT ![p] = <<costTotal["value"]>>]
             to == [req[r] EXCEPT !.divisor = by]
  <2>2. /\ to.kind = req[r].kind /\ to.limit = req[r].limit /\ to.divisor = by
        /\ to.todo = req[r].todo
        /\ \A x \in Pods : x # p => by[x] = req[r].divisor[x]
    BY <1>1 DEF RequestType
  <2>3. Move(r, to)
    BY <2>1
  <2> HIDE DEF by, to
  <2>4. QED
    BY <1>11, <1>12, <2>2, <2>3 DEF DivideValue
<1>13. ASSUME NEW r \in Requests, DivideScale(r), UNCHANGED asked PROVE AskedInv'
  <2>1. PICK p \in req[r].todo :
          Move(r, [req[r] EXCEPT !.divisor[p] = Append(@, costTotal["scale"]), !.todo = @ \ {p}])
    BY <1>13 DEF DivideScale
  <2> DEFINE by == [req[r].divisor EXCEPT ![p] = Append(@, costTotal["scale"])]
             to == [req[r] EXCEPT !.divisor = by, !.todo = @ \ {p}]
  <2>2. /\ to.kind = req[r].kind /\ to.limit = req[r].limit /\ to.divisor = by
        /\ to.todo \subseteq req[r].todo
        /\ \A x \in Pods : x # p => by[x] = req[r].divisor[x]
    BY <1>1 DEF RequestType
  <2>3. Move(r, to)
    BY <2>1
  <2> HIDE DEF by, to
  <2>4. QED
    BY <1>11, <1>13, <2>2, <2>3 DEF DivideScale
<1>14. CASE UNCHANGED vars
  BY <1>14 DEF vars, httpVars, AskedInv
<1>15. ASSUME NEW r \in Requests, Fetch(r) PROVE AskedInv'
  BY <1>6, <1>7, <1>8, <1>10, <1>15 DEF Fetch
<1>16. ASSUME NEW r \in Requests, Continue(r) PROVE AskedInv'
  <2>1. ASSUME Panic(r) \/ Reply(r) PROVE AskedInv'
    BY <1>4, <1>16, <2>1 DEF Continue, Panic, Reply
  <2>2. QED
    BY <1>7, <1>9, <1>12, <1>13, <1>16, <2>1 DEF Continue
<1>17. QED
  BY <1>2, <1>3, <1>14, <1>15, <1>16 DEF Next

\* All lists of a request are of the pods it asked for, whatever pods, labels and selectors
\* there are, except where the selector says what the matchers cannot (cost_http.go:200-258,
\* cost.go:213-262).
THEOREM SelectionIsRight == Spec => []SelectsWhatWasAsked
<1>1. ASSUME TypeInv, AskedInv PROVE NoOtherIsShown
  <2> SUFFICES ASSUME NEW r \in Requests, req[r].kind = "detail",
                      \A t \in Terms(asked[r]) : ~Misread(t) /\ Empty \notin ToSet(t.values),
                      \A t, u \in ToSet(LabelMatches(asked[r])) : t.key = u.key => t = u,
                      \A p \in Pods : \A i \in DOMAIN asked[r].label :
                        i > 1 => asked[r].label[i].key \notin DOMAIN LabelsOf[p],
                      NEW p \in Shown(r)
               PROVE  p \in Wanted(asked[r])
    BY DEF NoOtherIsShown
  <2>1. p \in Pods /\ Typed(asked[r]) /\ Legal(asked[r]) /\ p \in Selected(asked[r], "cost")
    BY <1>1 DEF AskedInv, Rightly, Shown
  <2>2. QED
    BY <2>1, OnlyWanted
<1>2. ASSUME TypeInv, AskedInv PROVE NoneIsLeftOut
  <2> SUFFICES ASSUME NEW r \in Requests, req[r].pc = "fetch", Answerable(r),
                      \A t \in Terms(asked[r]) : ~Misread(t) /\ ~(Len(t.values) > 1),
                      ~(Len(asked[r].label) > 1)
               PROVE  (IF Metric(r) = "total" THEN Pods ELSE Wanted(asked[r]))
                        \subseteq Selected(asked[r], Metric(r))
    BY DEF NoneIsLeftOut
  <2>1. Typed(asked[r]) /\ Legal(asked[r])
    BY <1>2 DEF AskedInv, Answerable, Legal
  <2>2. Wanted(asked[r]) \subseteq Selected(asked[r], "cost")
    BY <2>1, NoneIsLost
  <2>3. QED
    BY <2>2 DEF Selected
<1>3. QED
  BY <1>1, <1>2, AskedInit, AskedStep, TypeInit, TypeStep, ImplementsHttp, PTL
     DEF Spec, HttpSpec, SelectsWhatWasAsked
=============================================================================
