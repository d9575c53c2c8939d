------------------------- MODULE SeriesFanOutProofs -------------------------
(***************************************************************************)
(* The relisting fan-out proved for every number of namers, every          *)
(* assignment of selectors and every set of series: no push ever blocks,   *)
(* the collector always has something to wait for, the channel is closed   *)
(* only once nobody can push, and the whole implements SeriesListing.      *)
(***************************************************************************)
EXTENDS SeriesFanOut, FiniteSetTheorems, TLAPS

-----------------------------------------------------------------------------
(***************************************************************************)
(* The inductive invariant.  Its heart is Counting: the collector's loop   *)
(* index counts the namers whose values it has taken out of the channels.  *)
(* A namer's value can be taken only after it was pushed, so when the      *)
(* index says that all N were taken, all N were pushed.                    *)
(***************************************************************************)

\* The namers whose values are in channel ch.
InChan(ch) == {ch[i] : i \in 1..Len(ch)}

\* No namer is in channel ch twice.
Distinct(ch) == \A i, j \in 1..Len(ch) : ch[i] = ch[j] => i = j

\* The namers whose error, or series, was pushed, and was taken out by the collector.
ErrSent     == {n \in Namer : goroutine[n] \in {"sendSeries", "exited"}}
SeriesSent  == {n \in Namer : goroutine[n] = "exited" /\ ~IsError(n)}
ErrTaken    == ErrSent \ InChan(errs)
SeriesTaken == SeriesSent \ InChan(seriesChan)

\* Namer n's goroutine was started (a duplicate's never is, and has no answer).
Launched(n) == goroutine[n] \in {"query", "sendErr", "sendSeries"} \/ answer[n] # Pending

Channels ==
  /\ Distinct(errs) /\ InChan(errs) \subseteq ErrSent
  /\ Distinct(seriesChan) /\ InChan(seriesChan) \subseteq SeriesSent

Progress ==
  /\ pc = "spawn" => /\ \A n \in Namer : goroutine[n] = "none" <=> n >= next
                     /\ selectors = {selector[n] : n \in 1..next-1}
                     /\ ErrTaken = {} /\ SeriesTaken = {}
  /\ pc # "spawn" => \A n \in Namer : goroutine[n] # "none"
  /\ pc = "recvSeries" => next \in Namer
  /\ pc = "done" => next = N + 1
  /\ errsState = "closed" <=> pc = "done"

Answers ==
  \A n \in Namer :
    /\ goroutine[n] \in {"none", "query"} => answer[n] = Pending
    /\ goroutine[n] = "sendErr" => answer[n] # Pending
    /\ goroutine[n] = "sendSeries" => answer[n] \notin {Pending, Error}

\* Exactly one namer of those that share a selector has it asked for.
OneAsker ==
  /\ \A m, n \in Namer : Launched(m) /\ Launched(n) /\ selector[m] = selector[n] => m = n
  /\ \A n \in Namer : goroutine[n] # "none" =>
       \E m \in Namer : Launched(m) /\ selector[m] = selector[n]

Counting ==
  /\ pc \in {"recvErr", "done"} => /\ Cardinality(ErrTaken) = next - 1
                                  /\ Cardinality(SeriesTaken) = next - 1
  /\ pc = "recvSeries" => /\ Cardinality(ErrTaken) = next
                          /\ Cardinality(SeriesTaken) = next - 1
  /\ pc # "failed" => \A n \in ErrTaken : ~IsError(n)
  /\ pc = "failed" => \E n \in Namer : IsError(n)

\* The cache holds the answers of the series taken so far, and nothing else.
CacheInv ==
  /\ \A s \in Selectors : cache[s] \in Lists =>
       \E n \in Namer : selector[n] = s /\ answer[n] = cache[s]
  /\ \A n \in SeriesTaken : answer[n] \in Lists => cache[selector[n]] = answer[n]

IInv == TypeOK /\ Channels /\ Progress /\ Answers /\ OneAsker /\ Counting /\ CacheInv

-----------------------------------------------------------------------------
(***************************************************************************)
(* Channels as sequences without repetition.                               *)
(***************************************************************************)

\* Pushing a namer that is not in the channel adds it and keeps the channel free of
\* repetitions (the pushes of errs <- and selectorSeriesChan <-).
LEMMA PushChan ==
  ASSUME NEW ch \in Seq(Namer), NEW n \in Namer, Distinct(ch), n \notin InChan(ch)
  PROVE  /\ Append(ch, n) \in Seq(Namer)
         /\ Distinct(Append(ch, n))
         /\ InChan(Append(ch, n)) = InChan(ch) \cup {n}
<1>1. /\ Append(ch, n) \in Seq(Namer)
      /\ Len(Append(ch, n)) = Len(ch) + 1
      /\ \A i \in 1..Len(ch) : Append(ch, n)[i] = ch[i]
      /\ Append(ch, n)[Len(ch) + 1] = n
      /\ Len(ch) \in Nat
  OBVIOUS
<1>2. InChan(Append(ch, n)) = InChan(ch) \cup {n}
  BY <1>1 DEF InChan
<1>3. Distinct(Append(ch, n))
  BY <1>1 DEF InChan, Distinct
<1>4. QED BY <1>1, <1>2, <1>3

\* Taking the head out removes exactly that namer (the receives <-errs and
\* <-selectorSeriesChan).
LEMMA PopChan ==
  ASSUME NEW ch \in Seq(Namer), Distinct(ch), ch # << >>
  PROVE  /\ Tail(ch) \in Seq(Namer)
         /\ Distinct(Tail(ch))
         /\ Head(ch) \in InChan(ch) /\ Head(ch) \in Namer
         /\ InChan(Tail(ch)) = InChan(ch) \ {Head(ch)}
<1>1. /\ Len(ch) \in Nat \ {0} /\ Head(ch) = ch[1]
      /\ Tail(ch) \in Seq(Namer) /\ Len(Tail(ch)) = Len(ch) - 1
      /\ \A i \in 1..Len(ch) - 1 : Tail(ch)[i] = ch[i + 1]
      /\ \A i \in 1..Len(ch) : ch[i] \in Namer
  OBVIOUS
<1>2. Distinct(Tail(ch))
  <2>1. SUFFICES ASSUME NEW i \in 1..Len(ch) - 1, NEW j \in 1..Len(ch) - 1,
                        Tail(ch)[i] = Tail(ch)[j]
                 PROVE  i = j
    BY <1>1 DEF Distinct
  <2>2. ch[i + 1] = ch[j + 1] /\ i + 1 \in 1..Len(ch) /\ j + 1 \in 1..Len(ch)
    BY <1>1, <2>1
  <2>3. i + 1 = j + 1
    BY <2>2 DEF Distinct
  <2>4. QED BY <2>3
<1>3. Head(ch) \in InChan(ch) /\ Head(ch) \in Namer
  BY <1>1 DEF InChan
<1>4. InChan(Tail(ch)) = InChan(ch) \ {Head(ch)}
  <2>1. ASSUME NEW x \in InChan(Tail(ch)) PROVE x \in InChan(ch) \ {Head(ch)}
    <3>1. PICK i \in 1..Len(ch) - 1 : x = Tail(ch)[i]
      BY <1>1, <2>1 DEF InChan
    <3>2. x = ch[i + 1] /\ i + 1 \in 1..Len(ch) /\ i + 1 # 1 /\ 1 \in 1..Len(ch)
      BY <1>1, <3>1
    <3>3. QED BY <1>1, <3>2 DEF InChan, Distinct
  <2>2. ASSUME NEW x \in InChan(ch), x # Head(ch) PROVE x \in InChan(Tail(ch))
    <3>1. PICK i \in 1..Len(ch) : x = ch[i]
      BY <2>2 DEF InChan
    <3>2. i # 1 /\ i - 1 \in 1..Len(ch) - 1 /\ Tail(ch)[i - 1] = ch[(i - 1) + 1]
      BY <1>1, <2>2, <3>1
    <3>3. x = Tail(ch)[i - 1]
      BY <3>1, <3>2
    <3>4. QED BY <1>1, <3>2, <3>3 DEF InChan
  <2>3. QED BY <2>1, <2>2
<1>5. QED BY <1>1, <1>2, <1>3, <1>4

LEMMA NamerFinite == IsFiniteSet(Namer) /\ Cardinality(Namer) = N
  BY FS_Interval, FanOutAssumption DEF Namer

\* A channel that lacks some namer is not full: the pigeonhole behind RoomToSend.
LEMMA RoomInChan ==
  ASSUME NEW ch \in Seq(Namer), Distinct(ch), NEW n \in Namer, n \notin InChan(ch)
  PROVE  Len(ch) < ChanCap
<1>1. Len(ch) \in Nat /\ \A i \in 1..Len(ch) : ch[i] \in Namer \ {n}
  BY DEF InChan
<1>2. IsFiniteSet(1..Len(ch)) /\ Cardinality(1..Len(ch)) = Len(ch)
  <2>1. 1 \in Int /\ Len(ch) \in Int
    BY <1>1
  <2>2. /\ IsFiniteSet(1..Len(ch))
        /\ Cardinality(1..Len(ch)) = IF 1 > Len(ch) THEN 0 ELSE Len(ch) - 1 + 1
    BY ONLY <2>1, FS_Interval
  <2>3. QED BY <1>1, <2>2
<1>3. IsFiniteSet(Namer \ {n}) /\ Cardinality(Namer \ {n}) = N - 1
  BY NamerFinite, FS_RemoveElement
<1>4. DEFINE f == [i \in 1..Len(ch) |-> ch[i]]
<1>5. f \in [1..Len(ch) -> Namer \ {n}]
  BY <1>1
<1>6. ~(N - 1 < Len(ch))
  <2>1. SUFFICES ASSUME N - 1 < Len(ch) PROVE FALSE
    OBVIOUS
  <2>2. \E x, y \in 1..Len(ch) : x # y /\ f[x] = f[y]
    BY <1>2, <1>3, <1>5, <2>1, FS_PigeonHole
  <2>3. QED BY <2>2 DEF Distinct
<1>7. QED BY <1>1, <1>6, FanOutAssumption DEF ChanCap

-----------------------------------------------------------------------------
(***************************************************************************)
(* The invariant holds initially and every step keeps it.                  *)
(***************************************************************************)

LEMMA SentNothing == ASSUME Init PROVE ErrSent = {} /\ SeriesSent = {}
  BY DEF Init, ErrSent, SeriesSent

LEMMA InitIInv == Init => IInv
<1> SUFFICES ASSUME Init PROVE IInv
  OBVIOUS
<1> USE FanOutAssumption
<1>1. TypeOK
  <2>1. DOMAIN result = {}
    BY DEF Init
  <2>2. /\ selector \in [Namer -> Selectors] /\ keeps \in [Namer -> SUBSET Series]
        /\ goroutine \in [Namer -> {"none", "query", "sendErr", "sendSeries", "exited"}]
        /\ answer \in [Namer -> Answer \cup {Pending}]
        /\ cache \in [Selectors -> Lists \cup {Pending}]
    BY DEF Init
  <2>3. errs \in Seq(Namer) /\ seriesChan \in Seq(Namer) /\ errsState \in {"open", "closed"}
    BY DEF Init
  <2>4. next \in 1..N+1 /\ selectors \in SUBSET Selectors /\ pc = "spawn"
    BY DEF Init
  <2>5. QED BY <2>1, <2>2, <2>3, <2>4 DEF TypeOK
<1>2. InChan(errs) = {} /\ InChan(seriesChan) = {} /\ Distinct(errs) /\ Distinct(seriesChan)
  BY DEF Init, InChan, Distinct
<1>3. Channels
  BY <1>2 DEF Channels
<1>4. Progress
  <2>1. errsState = "closed" <=> pc = "done"
    BY DEF Init
  <2>2. ErrTaken = {} /\ SeriesTaken = {}
    BY SentNothing DEF ErrTaken, SeriesTaken
  <2>3. \A n \in Namer : goroutine[n] = "none" /\ n >= 1
    BY DEF Init, Namer
  <2>4. selectors = {selector[n] : n \in 1..next-1}
    BY DEF Init
  <2>5. pc = "spawn" /\ next = 1
    BY DEF Init
  <2>6. QED BY <2>1, <2>2, <2>3, <2>4, <2>5 DEF Progress
<1>5. Answers /\ OneAsker
  BY DEF Init, Answers, OneAsker, Launched
<1>6. Counting
  BY SentNothing DEF Init, Counting, ErrTaken
<1>7. CacheInv
  <2>1. Pending \notin Lists
    OBVIOUS
  <2>2. QED BY <2>1, SentNothing DEF Init, CacheInv, SeriesTaken
<1>8. QED BY <1>1, <1>3, <1>4, <1>5, <1>6, <1>7 DEF IInv

LEMMA TypeStep == ASSUME TypeOK, Channels, Progress, [Next]_vars PROVE TypeOK'
<1> USE FanOutAssumption DEF TypeOK
<1>1. CASE Spawn
  <2>1. selectors' \in SUBSET Selectors
    BY <1>1 DEF Spawn
  <2>2. next' \in 1..N+1
    BY <1>1 DEF Spawn, Namer
  <2>3. goroutine' \in [Namer -> {"none", "query", "sendErr", "sendSeries", "exited"}]
    BY <1>1 DEF Spawn
  <2>4. QED BY <1>1, <2>1, <2>2, <2>3 DEF Spawn, config
<1>2. CASE SkipDuplicate
  BY <1>2 DEF SkipDuplicate, config, Namer
<1>3. CASE StartCollecting
  BY <1>3 DEF StartCollecting, config
<1>4. CASE RecvErr
  BY <1>4, PopChan DEF RecvErr, config, Channels
<1>5. CASE RecvSeries
  <2>1. Head(seriesChan) \in Namer /\ Tail(seriesChan) \in Seq(Namer)
    BY <1>5, PopChan DEF RecvSeries, Channels
  <2>2. cache' \in [Selectors -> Lists \cup {Pending}]
    BY <1>5, <2>1 DEF RecvSeries, CacheWith
  <2>3. next' \in 1..N+1
    BY <1>5 DEF RecvSeries, Progress, Namer
  <2>4. QED BY <1>5, <2>1, <2>2, <2>3 DEF RecvSeries, config
<1>6. CASE Finish
  BY <1>6 DEF Finish, config, Assemble
<1>7. ASSUME NEW n \in Namer, Query(n) PROVE TypeOK'
  BY <1>7 DEF Query, config, collector
<1>8. ASSUME NEW n \in Namer, SendErr(n) PROVE TypeOK'
  BY <1>8 DEF SendErr, config, collector
<1>9. ASSUME NEW n \in Namer, SendSeries(n) PROVE TypeOK'
  BY <1>9 DEF SendSeries, config, collector
<1>10. CASE UNCHANGED vars
  BY <1>10 DEF vars
<1>11. QED
  BY <1>1, <1>2, <1>3, <1>4, <1>5, <1>6, <1>7, <1>8, <1>9, <1>10 DEF Next, Returned

\* How a step changes what was sent and what was taken is all the counting needs.  Each
\* lemma below gives the four sets after one action.
LEMMA SpawnSets ==
  ASSUME IInv, Spawn
  PROVE  /\ ErrSent' = ErrSent /\ SeriesSent' = SeriesSent
         /\ ErrTaken' = ErrTaken /\ SeriesTaken' = SeriesTaken
         /\ InChan(errs)' = InChan(errs) /\ InChan(seriesChan)' = InChan(seriesChan)
<1> USE DEF Spawn, IInv, TypeOK
<1>1. goroutine[next] = "none" /\ goroutine'[next] = "query"
  BY DEF Progress, Namer
<1>2. \A n \in Namer : n # next => goroutine'[n] = goroutine[n]
  OBVIOUS
<1>3. ErrSent' = ErrSent /\ SeriesSent' = SeriesSent
  BY <1>1, <1>2 DEF ErrSent, SeriesSent, IsError
<1>4. InChan(errs)' = InChan(errs) /\ InChan(seriesChan)' = InChan(seriesChan)
  BY DEF InChan
<1>5. QED BY <1>3, <1>4 DEF ErrTaken, SeriesTaken

LEMMA SkipDuplicateSets ==
  ASSUME IInv, SkipDuplicate
  PROVE  /\ next \notin ErrSent /\ next \notin SeriesSent
         /\ ErrSent' = ErrSent \cup {next} /\ SeriesSent' = SeriesSent \cup {next}
         /\ ErrTaken' = ErrTaken /\ SeriesTaken' = SeriesTaken
         /\ InChan(errs)' = InChan(errs) \cup {next}
         /\ InChan(seriesChan)' = InChan(seriesChan) \cup {next}
         /\ Distinct(errs)' /\ Distinct(seriesChan)'
<1> USE DEF SkipDuplicate, IInv, TypeOK
<1>1. goroutine[next] = "none" /\ goroutine'[next] = "exited" /\ next \in Namer
  BY DEF Progress, Namer
<1>2. \A n \in Namer : n # next => goroutine'[n] = goroutine[n]
  OBVIOUS
<1>3. ~IsError(next)
  BY <1>1, FanOutAssumption DEF Answers, IsError
<1>4. next \notin ErrSent /\ next \notin SeriesSent
  BY <1>1 DEF ErrSent, SeriesSent
<1>5. ErrSent' = ErrSent \cup {next} /\ SeriesSent' = SeriesSent \cup {next}
  BY <1>1, <1>2, <1>3 DEF ErrSent, SeriesSent, IsError
<1>6. next \notin InChan(errs) /\ next \notin InChan(seriesChan)
  BY <1>4 DEF Channels
<1>7. InChan(errs)' = InChan(errs) \cup {next} /\ Distinct(errs)'
  BY <1>1, <1>6, PushChan DEF Channels, InChan, Distinct
<1>8. InChan(seriesChan)' = InChan(seriesChan) \cup {next} /\ Distinct(seriesChan)'
  BY <1>1, <1>6, PushChan DEF Channels, InChan, Distinct
<1>9. QED BY <1>4, <1>5, <1>7, <1>8 DEF ErrTaken, SeriesTaken

LEMMA SendErrSets ==
  ASSUME IInv, NEW n \in Namer, SendErr(n)
  PROVE  /\ ErrSent' = ErrSent \cup {n} /\ SeriesSent' = SeriesSent
         /\ ErrTaken' = ErrTaken /\ SeriesTaken' = SeriesTaken
         /\ InChan(errs)' = InChan(errs) \cup {n} /\ Distinct(errs)'
         /\ InChan(seriesChan)' = InChan(seriesChan)
<1> USE DEF SendErr, IInv, TypeOK, collector
<1>1. goroutine[n] = "sendErr" /\ goroutine'[n] = IF IsError(n) THEN "exited" ELSE "sendSeries"
  OBVIOUS
<1>2. \A m \in Namer : m # n => goroutine'[m] = goroutine[m]
  OBVIOUS
<1>3. ErrSent' = ErrSent \cup {n} /\ SeriesSent' = SeriesSent /\ n \notin ErrSent
  BY <1>1, <1>2 DEF ErrSent, SeriesSent, IsError
<1>4. n \notin InChan(errs)
  BY <1>3 DEF Channels
<1>5. InChan(errs)' = InChan(errs) \cup {n} /\ Distinct(errs)'
  BY <1>4, PushChan DEF Channels, InChan, Distinct
<1>6. InChan(seriesChan)' = InChan(seriesChan)
  BY DEF InChan
<1>7. QED BY <1>3, <1>5, <1>6 DEF ErrTaken, SeriesTaken

LEMMA SendSeriesSets ==
  ASSUME IInv, NEW n \in Namer, SendSeries(n)
  PROVE  /\ ErrSent' = ErrSent /\ SeriesSent' = SeriesSent \cup {n}
         /\ ErrTaken' = ErrTaken /\ SeriesTaken' = SeriesTaken
         /\ InChan(seriesChan)' = InChan(seriesChan) \cup {n} /\ Distinct(seriesChan)'
         /\ InChan(errs)' = InChan(errs)
<1> USE DEF SendSeries, IInv, TypeOK, collector
<1>1. goroutine[n] = "sendSeries" /\ goroutine'[n] = "exited" /\ ~IsError(n)
  BY DEF Answers, IsError
<1>2. \A m \in Namer : m # n => goroutine'[m] = goroutine[m]
  OBVIOUS
<1>3. ErrSent' = ErrSent /\ SeriesSent' = SeriesSent \cup {n} /\ n \notin SeriesSent
  BY <1>1, <1>2 DEF ErrSent, SeriesSent, IsError
<1>4. n \notin InChan(seriesChan)
  BY <1>3 DEF Channels
<1>5. InChan(seriesChan)' = InChan(seriesChan) \cup {n} /\ Distinct(seriesChan)'
  BY <1>4, PushChan DEF Channels, InChan, Distinct
<1>6. InChan(errs)' = InChan(errs)
  BY DEF InChan
<1>7. QED BY <1>3, <1>5, <1>6 DEF ErrTaken, SeriesTaken

LEMMA QuerySets ==
  ASSUME IInv, NEW n \in Namer, Query(n)
  PROVE  /\ ErrSent' = ErrSent /\ SeriesSent' = SeriesSent
         /\ ErrTaken' = ErrTaken /\ SeriesTaken' = SeriesTaken
         /\ InChan(errs)' = InChan(errs) /\ InChan(seriesChan)' = InChan(seriesChan)
         /\ n \notin ErrSent /\ n \notin SeriesSent
         /\ \A m \in Namer : m # n => answer'[m] = answer[m] /\ goroutine'[m] = goroutine[m]
<1> USE DEF Query, IInv, TypeOK, collector
<1>1. goroutine[n] = "query" /\ goroutine'[n] = "sendErr"
  OBVIOUS
<1>2. \A m \in Namer : m # n => goroutine'[m] = goroutine[m] /\ answer'[m] = answer[m]
  OBVIOUS
<1>3. /\ ErrSent' = ErrSent /\ SeriesSent' = SeriesSent
      /\ n \notin ErrSent /\ n \notin SeriesSent
  BY <1>1, <1>2 DEF ErrSent, SeriesSent, IsError
<1>4. InChan(errs)' = InChan(errs) /\ InChan(seriesChan)' = InChan(seriesChan)
  BY DEF InChan
<1>5. QED BY <1>2, <1>3, <1>4 DEF ErrTaken, SeriesTaken

LEMMA RecvErrSets ==
  ASSUME IInv, RecvErr
  PROVE  /\ Head(errs) \in Namer /\ Head(errs) \notin ErrTaken
         /\ ErrSent' = ErrSent /\ SeriesSent' = SeriesSent
         /\ ErrTaken' = ErrTaken \cup {Head(errs)} /\ SeriesTaken' = SeriesTaken
         /\ InChan(errs)' = InChan(errs) \ {Head(errs)} /\ Distinct(errs)'
         /\ InChan(seriesChan)' = InChan(seriesChan)
<1> USE DEF RecvErr, IInv, TypeOK, config
<1>1. /\ Head(errs) \in Namer /\ Head(errs) \in InChan(errs)
      /\ InChan(errs)' = InChan(errs) \ {Head(errs)} /\ Distinct(errs)'
  <2>1. errs \in Seq(Namer) /\ Distinct(errs) /\ errs # << >> /\ errs' = Tail(errs)
    BY DEF Channels
  <2>2. /\ Head(errs) \in Namer /\ Head(errs) \in InChan(errs)
        /\ Distinct(Tail(errs)) /\ InChan(Tail(errs)) = InChan(errs) \ {Head(errs)}
    BY ONLY <2>1, PopChan
  <2>3. InChan(errs)' = InChan(Tail(errs)) /\ Distinct(errs)' = Distinct(Tail(errs))
    BY ONLY <2>1 DEF InChan, Distinct
  <2>4. QED BY ONLY <2>2, <2>3
<1>2. ErrSent' = ErrSent /\ SeriesSent' = SeriesSent /\ InChan(seriesChan)' = InChan(seriesChan)
  BY DEF ErrSent, SeriesSent, IsError, InChan
<1>3. Head(errs) \in ErrSent
  BY <1>1 DEF Channels
<1>4. QED BY <1>1, <1>2, <1>3 DEF ErrTaken, SeriesTaken

LEMMA RecvSeriesSets ==
  ASSUME IInv, RecvSeries
  PROVE  /\ Head(seriesChan) \in Namer /\ Head(seriesChan) \notin SeriesTaken
         /\ ErrSent' = ErrSent /\ SeriesSent' = SeriesSent
         /\ ErrTaken' = ErrTaken /\ SeriesTaken' = SeriesTaken \cup {Head(seriesChan)}
         /\ InChan(seriesChan)' = InChan(seriesChan) \ {Head(seriesChan)}
         /\ Distinct(seriesChan)'
         /\ InChan(errs)' = InChan(errs)
<1> USE DEF RecvSeries, IInv, TypeOK, config
<1>1. /\ Head(seriesChan) \in Namer /\ Head(seriesChan) \in InChan(seriesChan)
      /\ InChan(seriesChan)' = InChan(seriesChan) \ {Head(seriesChan)} /\ Distinct(seriesChan)'
  <2>1. /\ seriesChan \in Seq(Namer) /\ Distinct(seriesChan) /\ seriesChan # << >>
        /\ seriesChan' = Tail(seriesChan)
    BY DEF Channels
  <2>2. /\ Head(seriesChan) \in Namer /\ Head(seriesChan) \in InChan(seriesChan)
        /\ Distinct(Tail(seriesChan))
        /\ InChan(Tail(seriesChan)) = InChan(seriesChan) \ {Head(seriesChan)}
    BY ONLY <2>1, PopChan
  <2>3. /\ InChan(seriesChan)' = InChan(Tail(seriesChan))
        /\ Distinct(seriesChan)' = Distinct(Tail(seriesChan))
    BY ONLY <2>1 DEF InChan, Distinct
  <2>4. QED BY ONLY <2>2, <2>3
<1>2. ErrSent' = ErrSent /\ SeriesSent' = SeriesSent /\ InChan(errs)' = InChan(errs)
  BY DEF ErrSent, SeriesSent, IsError, InChan
<1>3. Head(seriesChan) \in SeriesSent
  BY <1>1 DEF Channels
<1>4. QED BY <1>1, <1>2, <1>3 DEF ErrTaken, SeriesTaken

\* The two sets that are counted are sets of namers.
LEMMA TakenFinite ==
  /\ ErrTaken \subseteq Namer /\ SeriesTaken \subseteq Namer
  /\ IsFiniteSet(ErrTaken) /\ IsFiniteSet(SeriesTaken)
<1>1. ErrTaken \subseteq Namer /\ SeriesTaken \subseteq Namer
  BY DEF ErrTaken, SeriesTaken, ErrSent, SeriesSent
<1>2. QED BY <1>1, NamerFinite, FS_Subset

\* Each conjunct of the invariant, action by action.
LEMMA ChannelsStep == ASSUME IInv, [Next]_vars PROVE Channels'
<1> USE DEF IInv
<1>1. CASE Spawn
  <2>1. Distinct(errs)' /\ Distinct(seriesChan)'
    BY <1>1 DEF Spawn, Channels, Distinct
  <2>2. QED BY <1>1, <2>1, SpawnSets DEF Channels
<1>2. CASE SkipDuplicate
  BY <1>2, SkipDuplicateSets DEF Channels
<1>3. CASE StartCollecting
  BY <1>3 DEF StartCollecting, config, Channels, InChan, Distinct, ErrSent, SeriesSent, IsError
<1>4. CASE RecvErr
  <2>1. Distinct(seriesChan)'
    BY <1>4 DEF RecvErr, Channels, Distinct
  <2>2. QED BY <1>4, <2>1, RecvErrSets DEF Channels
<1>5. CASE RecvSeries
  <2>1. Distinct(errs)'
    BY <1>5 DEF RecvSeries, Channels, Distinct
  <2>2. QED BY <1>5, <2>1, RecvSeriesSets DEF Channels
<1>6. CASE Finish
  BY <1>6 DEF Finish, config, Channels, InChan, Distinct, ErrSent, SeriesSent, IsError
<1>7. ASSUME NEW n \in Namer, Query(n) PROVE Channels'
  <2>1. Distinct(errs)' /\ Distinct(seriesChan)'
    BY <1>7 DEF Query, Channels, Distinct
  <2>2. QED BY <1>7, <2>1, QuerySets DEF Channels
<1>8. ASSUME NEW n \in Namer, SendErr(n) PROVE Channels'
  <2>1. Distinct(seriesChan)'
    BY <1>8 DEF SendErr, Channels, Distinct
  <2>2. QED BY <1>8, <2>1, SendErrSets DEF Channels
<1>9. ASSUME NEW n \in Namer, SendSeries(n) PROVE Channels'
  <2>1. Distinct(errs)'
    BY <1>9 DEF SendSeries, Channels, Distinct
  <2>2. QED BY <1>9, <2>1, SendSeriesSets DEF Channels
<1>10. CASE UNCHANGED vars
  BY <1>10 DEF vars, Channels, InChan, Distinct, ErrSent, SeriesSent, IsError
<1>11. QED
  BY <1>1, <1>2, <1>3, <1>4, <1>5, <1>6, <1>7, <1>8, <1>9, <1>10 DEF Next, Returned

LEMMA ProgressStep == ASSUME IInv, [Next]_vars PROVE Progress'
<1> USE FanOutAssumption DEF IInv, TypeOK
<1>1. CASE Spawn
  <2>1. \A n \in Namer : goroutine'[n] = "none" <=> n >= next'
    BY <1>1 DEF Spawn, Progress, Namer
  <2>2. selectors' = {selector'[n] : n \in 1..next'-1}
    BY <1>1 DEF Spawn, Progress, config, Namer
  <2>3. ErrTaken' = {} /\ SeriesTaken' = {}
    BY <1>1, SpawnSets DEF Progress, Spawn
  <2>4. pc' = "spawn" /\ errsState' # "closed"
    BY <1>1 DEF Spawn, Progress
  <2>5. QED BY <2>1, <2>2, <2>3, <2>4 DEF Progress
<1>2. CASE SkipDuplicate
  <2>1. \A n \in Namer : goroutine'[n] = "none" <=> n >= next'
    BY <1>2 DEF SkipDuplicate, Progress, Namer
  <2>2. selectors' = {selector'[n] : n \in 1..next'-1}
    <3>1. selectors = {selector[n] : n \in 1..next-1} /\ next \in 1..N
      BY <1>2 DEF SkipDuplicate, Progress, Namer
    <3>2. 1..next'-1 = (1..next-1) \cup {next}
      BY <1>2, <3>1 DEF SkipDuplicate
    <3>3. selectors' = selectors /\ selector' = selector /\ selector[next] \in selectors
      BY <1>2 DEF SkipDuplicate, config
    <3>4. QED BY <3>1, <3>2, <3>3
  <2>3. ErrTaken' = {} /\ SeriesTaken' = {}
    BY <1>2, SkipDuplicateSets DEF Progress, SkipDuplicate
  <2>4. pc' = "spawn" /\ errsState' # "closed"
    BY <1>2 DEF SkipDuplicate, Progress
  <2>5. QED BY <2>1, <2>2, <2>3, <2>4 DEF Progress
<1>3. CASE StartCollecting
  <2>1. \A n \in Namer : goroutine'[n] # "none"
    BY <1>3 DEF StartCollecting, Progress, Namer
  <2>2. pc' = "recvErr" /\ errsState' # "closed"
    BY <1>3 DEF StartCollecting, Progress
  <2>3. QED BY <2>1, <2>2 DEF Progress
<1>4. CASE RecvErr
  BY <1>4 DEF RecvErr, Progress, config
<1>5. CASE RecvSeries
  BY <1>5 DEF RecvSeries, Progress, config
<1>6. CASE Finish
  <2>1. next' = N + 1
    BY <1>6 DEF Finish
  <2>2. QED BY <1>6, <2>1 DEF Finish, Progress, config
<1>7. ASSUME NEW n \in Namer, Query(n) PROVE Progress'
  <2>1. goroutine[n] = "query" /\ goroutine'[n] = "sendErr"
    BY <1>7 DEF Query
  <2>2. \A m \in Namer : goroutine'[m] = "none" <=> goroutine[m] = "none"
    BY <1>7, <2>1, QuerySets
  <2>3. /\ pc' = pc /\ next' = next /\ errsState' = errsState
        /\ selectors' = selectors /\ selector' = selector
    BY <1>7 DEF Query, collector, config
  <2>4. ErrTaken' = ErrTaken /\ SeriesTaken' = SeriesTaken
    BY <1>7, QuerySets
  <2>5. QED BY <2>2, <2>3, <2>4 DEF Progress
<1>8. ASSUME NEW n \in Namer, SendErr(n) PROVE Progress'
  <2>1. \A m \in Namer : goroutine'[m] = "none" <=> goroutine[m] = "none"
    BY <1>8 DEF SendErr
  <2>2. /\ pc' = pc /\ next' = next /\ errsState' = errsState
        /\ selectors' = selectors /\ selector' = selector
    BY <1>8 DEF SendErr, collector, config
  <2>3. ErrTaken' = ErrTaken /\ SeriesTaken' = SeriesTaken
    BY <1>8, SendErrSets
  <2>4. QED BY <2>1, <2>2, <2>3 DEF Progress
<1>9. ASSUME NEW n \in Namer, SendSeries(n) PROVE Progress'
  <2>1. \A m \in Namer : goroutine'[m] = "none" <=> goroutine[m] = "none"
    BY <1>9 DEF SendSeries
  <2>2. /\ pc' = pc /\ next' = next /\ errsState' = errsState
        /\ selectors' = selectors /\ selector' = selector
    BY <1>9 DEF SendSeries, collector, config
  <2>3. ErrTaken' = ErrTaken /\ SeriesTaken' = SeriesTaken
    BY <1>9, SendSeriesSets
  <2>4. QED BY <2>1, <2>2, <2>3 DEF Progress
<1>10. CASE UNCHANGED vars
  BY <1>10 DEF vars, Progress, ErrTaken, SeriesTaken, ErrSent, SeriesSent, IsError, InChan
<1>11. QED
  BY <1>1, <1>2, <1>3, <1>4, <1>5, <1>6, <1>7, <1>8, <1>9, <1>10 DEF Next, Returned

LEMMA AnswersStep == ASSUME IInv, [Next]_vars PROVE Answers'
<1> USE FanOutAssumption DEF IInv, TypeOK, Answers
<1>1. CASE Spawn
  BY <1>1 DEF Spawn, Progress, Namer
<1>2. CASE SkipDuplicate
  BY <1>2 DEF SkipDuplicate
<1>3. CASE StartCollecting \/ RecvErr \/ RecvSeries \/ Finish
  BY <1>3 DEF StartCollecting, RecvErr, RecvSeries, Finish
<1>4. ASSUME NEW n \in Namer, Query(n) PROVE Answers'
  <2>1. answer'[n] \in Answer /\ goroutine'[n] = "sendErr"
    BY <1>4 DEF Query
  <2>2. Pending \notin Answer
    BY DEF Answer
  <2>3. QED BY <1>4, <2>1, <2>2, QuerySets
<1>5. ASSUME NEW n \in Namer, SendErr(n) PROVE Answers'
  BY <1>5 DEF SendErr, IsError
<1>6. ASSUME NEW n \in Namer, SendSeries(n) PROVE Answers'
  BY <1>6 DEF SendSeries
<1>7. CASE UNCHANGED vars
  BY <1>7 DEF vars
<1>8. QED
  BY <1>1, <1>2, <1>3, <1>4, <1>5, <1>6, <1>7 DEF Next, Returned

LEMMA OneAskerStep == ASSUME IInv, [Next]_vars PROVE OneAsker'
<1> USE FanOutAssumption DEF IInv, TypeOK
<1>1. SUFFICES ASSUME ~Spawn, ~SkipDuplicate
               PROVE  OneAsker'
  <2>1. CASE Spawn
    <3>1. /\ goroutine[next] = "none" /\ goroutine'[next] = "query" /\ next \in Namer
          /\ answer' = answer /\ selector' = selector
          /\ \A m \in Namer : m # next => goroutine'[m] = goroutine[m]
      BY <2>1 DEF Spawn, config, Progress, Namer
    <3>0. PICK k \in Namer : k = next
      BY <2>1 DEF Spawn
    <3>2. Launched(k)' /\ \A m \in Namer : m # next => (Launched(m)' <=> Launched(m))
      BY <3>0, <3>1 DEF Launched
    <3>3. ASSUME NEW m \in Namer, m # next, Launched(m) PROVE selector[m] # selector[next]
      <4>1. goroutine[m] # "none"
        BY <3>3 DEF Launched, Answers
      <4>2. m \in 1..next-1
        BY <2>1, <4>1 DEF Spawn, Progress, Namer
      <4>3. selector[m] \in selectors
        BY <2>1, <4>2 DEF Spawn, Progress
      <4>4. QED BY <2>1, <4>3 DEF Spawn
    <3>4. \A m, n \in Namer : Launched(m)' /\ Launched(n)' /\ selector'[m] = selector'[n] => m = n
      BY <3>0, <3>1, <3>2, <3>3 DEF OneAsker
    <3>5. \A n \in Namer : goroutine'[n] # "none" =>
            \E m \in Namer : Launched(m)' /\ selector'[m] = selector'[n]
      BY <3>0, <3>1, <3>2 DEF OneAsker
    <3>6. QED BY <3>4, <3>5 DEF OneAsker
  <2>2. CASE SkipDuplicate
    <3>1. /\ goroutine[next] = "none" /\ goroutine'[next] = "exited" /\ next \in Namer
          /\ answer' = answer /\ selector' = selector
          /\ \A m \in Namer : m # next => goroutine'[m] = goroutine[m]
      BY <2>2 DEF SkipDuplicate, config, Progress, Namer
    <3>2. \A m \in Namer : Launched(m)' <=> Launched(m)
      BY <3>1 DEF Launched
    <3>3. PICK k \in 1..next-1 : selector[k] = selector[next]
      BY <2>2 DEF SkipDuplicate, Progress
    <3>4. k \in Namer /\ goroutine[k] # "none"
      BY <2>2, <3>1, <3>3 DEF SkipDuplicate, Progress, Namer
    <3>5. \E m \in Namer : Launched(m) /\ selector[m] = selector[next]
      BY <3>3, <3>4 DEF OneAsker
    <3>6. \A n \in Namer : goroutine'[n] # "none" =>
            \E m \in Namer : Launched(m)' /\ selector'[m] = selector'[n]
      BY <3>1, <3>2, <3>5 DEF OneAsker
    <3>7. \A m, n \in Namer : Launched(m)' /\ Launched(n)' /\ selector'[m] = selector'[n] => m = n
      BY <3>1, <3>2 DEF OneAsker
    <3>8. QED BY <3>6, <3>7 DEF OneAsker
  <2>3. QED BY <1>1, <2>1, <2>2
<1>2. /\ selector' = selector
      /\ \A m \in Namer : (Launched(m)' <=> Launched(m))
                         /\ (goroutine'[m] = "none" <=> goroutine[m] = "none")
  <2>1. CASE StartCollecting \/ RecvErr \/ RecvSeries \/ Finish
    BY <2>1 DEF StartCollecting, RecvErr, RecvSeries, Finish, Launched, config
  <2>2. ASSUME NEW n \in Namer, Query(n)
        PROVE  /\ selector' = selector
               /\ \A m \in Namer : (Launched(m)' <=> Launched(m))
                                  /\ (goroutine'[m] = "none" <=> goroutine[m] = "none")
    <3>1. goroutine[n] = "query" /\ goroutine'[n] = "sendErr" /\ selector' = selector
      BY <2>2 DEF Query, config
    <3>2. QED BY <2>2, <3>1, QuerySets DEF Launched
  <2>3. ASSUME NEW n \in Namer, SendErr(n) \/ SendSeries(n)
        PROVE  /\ selector' = selector
               /\ \A m \in Namer : (Launched(m)' <=> Launched(m))
                                  /\ (goroutine'[m] = "none" <=> goroutine[m] = "none")
    BY <2>3 DEF SendErr, SendSeries, Launched, Answers, config
  <2>4. CASE UNCHANGED vars
    BY <2>4 DEF vars, Launched
  <2>5. QED BY <1>1, <2>1, <2>2, <2>3, <2>4 DEF Next, Returned
<1>3. QED BY <1>2 DEF OneAsker

LEMMA CountingStep == ASSUME IInv, [Next]_vars PROVE Counting'
<1> USE FanOutAssumption DEF IInv, TypeOK
<1>1. CASE Spawn
  BY <1>1, SpawnSets DEF Spawn, Counting, IsError
<1>2. CASE SkipDuplicate
  BY <1>2, SkipDuplicateSets DEF SkipDuplicate, Counting, IsError
<1>3. CASE StartCollecting
  <2>1. ErrTaken' = {} /\ SeriesTaken' = {}
    BY <1>3 DEF StartCollecting, Progress, ErrTaken, SeriesTaken, ErrSent, SeriesSent, IsError,
       InChan
  <2>2. Cardinality({}) = 0
    BY FS_EmptySet
  <2>3. pc' = "recvErr" /\ next' = 1
    BY <1>3 DEF StartCollecting
  <2>4. QED BY <2>1, <2>2, <2>3 DEF Counting
<1>4. CASE RecvErr
  <2>1. Cardinality(ErrTaken') = next /\ Cardinality(SeriesTaken') = next - 1
    <3>1. Cardinality(ErrTaken) = next - 1 /\ Cardinality(SeriesTaken) = next - 1
      BY <1>4 DEF RecvErr, Counting
    <3>2. Cardinality(ErrTaken \cup {Head(errs)}) = Cardinality(ErrTaken) + 1
      BY <1>4, RecvErrSets, TakenFinite, FS_AddElement
    <3>3. ErrTaken' = ErrTaken \cup {Head(errs)} /\ SeriesTaken' = SeriesTaken /\ next \in Int
      BY <1>4, RecvErrSets
    <3>4. QED BY ONLY <3>1, <3>2, <3>3
  <2>2. \A n \in ErrTaken' : (IsError(n) <=> IsError(n)') /\ (n = Head(errs) \/ ~IsError(n))
    BY <1>4, RecvErrSets DEF RecvErr, Counting, IsError
  <2>3. next' = next /\ pc' = IF IsError(Head(errs)) THEN "failed" ELSE "recvSeries"
    BY <1>4 DEF RecvErr
  <2>4. CASE IsError(Head(errs))
    <3>1. pc' = "failed"
      BY <2>3, <2>4
    <3>2. \E n \in Namer : IsError(n)'
      BY <1>4, <2>4, RecvErrSets DEF RecvErr, IsError
    <3>3. QED BY <3>1, <3>2 DEF Counting
  <2>5. CASE ~IsError(Head(errs))
    BY <2>1, <2>2, <2>3, <2>5 DEF Counting
  <2>6. QED BY <2>4, <2>5
<1>5. CASE RecvSeries
  <2>1. Cardinality(ErrTaken) = next /\ Cardinality(SeriesTaken) = next - 1
    BY <1>5 DEF RecvSeries, Counting
  <2>2. Cardinality(SeriesTaken \cup {Head(seriesChan)}) = Cardinality(SeriesTaken) + 1
    BY <1>5, RecvSeriesSets, TakenFinite, FS_AddElement
  <2>3. Cardinality(ErrTaken') = next' - 1 /\ Cardinality(SeriesTaken') = next' - 1
    <3>1. ErrTaken' = ErrTaken /\ SeriesTaken' = SeriesTaken \cup {Head(seriesChan)}
      BY <1>5, RecvSeriesSets
    <3>2. next' = next + 1 /\ next \in Int
      BY <1>5 DEF RecvSeries
    <3>3. QED BY ONLY <2>1, <2>2, <3>1, <3>2
  <2>4. \A n \in ErrTaken' : ~IsError(n)'
    BY <1>5, RecvSeriesSets DEF RecvSeries, Counting, IsError
  <2>5. QED BY <1>5, <2>3, <2>4 DEF RecvSeries, Counting
<1>6. CASE Finish
  BY <1>6 DEF Finish, Counting, ErrTaken, SeriesTaken, ErrSent, SeriesSent, IsError, InChan
<1>7. ASSUME NEW n \in Namer, Query(n) PROVE Counting'
  <2>1. \A m \in Namer : IsError(m) => m # n /\ IsError(m)'
    BY <1>7, QuerySets DEF Query, Answers, IsError
  <2>2. \A m \in ErrTaken' : IsError(m)' <=> IsError(m)
    BY <1>7, QuerySets DEF ErrTaken, ErrSent, IsError
  <2>3. pc' = pc /\ next' = next /\ ErrTaken' = ErrTaken /\ SeriesTaken' = SeriesTaken
    BY <1>7, QuerySets DEF Query, collector
  <2>4. QED BY <2>1, <2>2, <2>3 DEF Counting
<1>8. ASSUME NEW n \in Namer, SendErr(n) PROVE Counting'
  BY <1>8, SendErrSets DEF SendErr, collector, Counting, IsError
<1>9. ASSUME NEW n \in Namer, SendSeries(n) PROVE Counting'
  BY <1>9, SendSeriesSets DEF SendSeries, collector, Counting, IsError
<1>10. CASE UNCHANGED vars
  BY <1>10 DEF vars, Counting, ErrTaken, SeriesTaken, ErrSent, SeriesSent, IsError, InChan
<1>11. QED
  BY <1>1, <1>2, <1>3, <1>4, <1>5, <1>6, <1>7, <1>8, <1>9, <1>10 DEF Next, Returned

LEMMA CacheStep == ASSUME IInv, [Next]_vars PROVE CacheInv'
<1> USE FanOutAssumption DEF IInv, TypeOK
<1>1. CASE Spawn
  BY <1>1, SpawnSets DEF Spawn, config, CacheInv
<1>2. CASE SkipDuplicate
  BY <1>2, SkipDuplicateSets DEF SkipDuplicate, config, CacheInv
<1>3. CASE StartCollecting \/ RecvErr \/ Finish \/ UNCHANGED vars
  <2>1. cache' = cache /\ answer' = answer /\ selector' = selector
    BY <1>3 DEF StartCollecting, RecvErr, Finish, vars, config
  <2>2. SeriesTaken' = SeriesTaken
    BY <1>3, RecvErrSets
    DEF StartCollecting, Finish, vars, SeriesTaken, SeriesSent, IsError, InChan
  <2>3. QED BY <2>1, <2>2 DEF CacheInv
<1>4. CASE RecvSeries
  <2>1. PICK n \in Namer : n = Head(seriesChan)
    BY <1>4, RecvSeriesSets
  <2>2. /\ cache' = CacheWith(n) /\ answer' = answer /\ selector' = selector
        /\ SeriesTaken' = SeriesTaken \cup {n}
    BY <1>4, <2>1, RecvSeriesSets DEF RecvSeries, config
  <2>3. CASE answer[n] \in Lists
    <3>1. cache' = [cache EXCEPT ![selector[n]] = answer[n]]
      BY <2>2, <2>3 DEF CacheWith
    <3>2. \A s \in Selectors : cache'[s] \in Lists =>
            \E m \in Namer : selector[m] = s /\ answer[m] = cache'[s]
      BY <2>3, <3>1 DEF CacheInv
    <3>3. ASSUME NEW m \in SeriesTaken, answer[m] \in Lists
          PROVE  cache'[selector[m]] = answer[m]
      <4>1. m \in Namer
        BY TakenFinite
      <4>2. selector[m] = selector[n] => m = n
        <5>1. Launched(m) /\ Launched(n)
          BY <2>3, <3>3 DEF Launched
        <5>2. QED BY <4>1, <5>1 DEF OneAsker
      <4>3. cache[selector[m]] = answer[m]
        BY <3>3 DEF CacheInv
      <4>4. QED BY <3>1, <4>1, <4>2, <4>3
    <3>4. cache'[selector[n]] = answer[n]
      BY <3>1
    <3>5. QED BY <2>2, <3>2, <3>3, <3>4 DEF CacheInv
  <2>4. CASE answer[n] \notin Lists
    BY <2>2, <2>4 DEF CacheWith, CacheInv
  <2>5. QED BY <2>3, <2>4
<1>5. ASSUME NEW n \in Namer, Query(n) PROVE CacheInv'
  <2>1. answer[n] = Pending /\ Pending \notin Lists
    BY <1>5 DEF Query, Answers
  <2>2. cache' = cache /\ selector' = selector /\ SeriesTaken' = SeriesTaken
    BY <1>5, QuerySets DEF Query, collector, config
  <2>3. n \notin SeriesTaken
    BY <1>5, QuerySets DEF SeriesTaken
  <2>4. \A m \in Namer : m # n => answer'[m] = answer[m]
    BY <1>5, QuerySets
  <2>5. QED BY <2>1, <2>2, <2>3, <2>4, TakenFinite DEF CacheInv
<1>6. ASSUME NEW n \in Namer, SendErr(n) PROVE CacheInv'
  BY <1>6, SendErrSets DEF SendErr, collector, config, CacheInv
<1>7. ASSUME NEW n \in Namer, SendSeries(n) PROVE CacheInv'
  <2>1. cache' = cache /\ selector' = selector /\ answer' = answer /\ SeriesTaken' = SeriesTaken
    BY <1>7, SendSeriesSets DEF SendSeries, collector, config
  <2>2. QED BY <2>1 DEF CacheInv
<1>8. QED
  BY <1>1, <1>2, <1>3, <1>4, <1>5, <1>6, <1>7 DEF Next, Returned

LEMMA Invariance == Spec => []IInv
<1>1. IInv /\ [Next]_vars => IInv'
  BY TypeStep, ChannelsStep, ProgressStep, AnswersStep, OneAskerStep, CountingStep, CacheStep
  DEF IInv
<1>2. QED BY InitIInv, <1>1, PTL DEF Spec

-----------------------------------------------------------------------------
(***************************************************************************)
(* The theorems.                                                           *)
(***************************************************************************)

\* Every variable keeps its type, for any number of namers.
THEOREM TypeCorrect == Spec => []TypeOK
<1>1. IInv => TypeOK
  BY DEF IInv
<1>2. QED BY Invariance, <1>1, PTL

\* No push to errs or to selectorSeriesChan ever blocks, whatever the duplicates, the
\* failures and the order of the goroutines: buffers of len(l.namers) are enough.
THEOREM NoPushBlocks == Spec => []RoomToSend
<1>1. IInv => RoomToSend
  <2>1. SUFFICES ASSUME IInv PROVE RoomToSend
    OBVIOUS
  <2>2. ASSUME NEW n \in Namer, goroutine[n] = "sendErr" PROVE Len(errs) < ChanCap
    <3>1. n \notin InChan(errs)
      BY <2>1, <2>2 DEF IInv, Channels, ErrSent
    <3>2. QED BY <2>1, <3>1, RoomInChan DEF IInv, TypeOK, Channels
  <2>3. ASSUME NEW n \in Namer, goroutine[n] = "sendSeries" PROVE Len(seriesChan) < ChanCap
    <3>1. n \notin InChan(seriesChan)
      BY <2>1, <2>3 DEF IInv, Channels, SeriesSent
    <3>2. QED BY <2>1, <3>1, RoomInChan DEF IInv, TypeOK, Channels
  <2>4. ASSUME pc = "spawn", next \in Namer
        PROVE  Len(errs) < ChanCap /\ Len(seriesChan) < ChanCap
    <3>1. goroutine[next] = "none"
      BY <2>1, <2>4 DEF IInv, TypeOK, Progress, Namer
    <3>2. next \notin InChan(errs) /\ next \notin InChan(seriesChan)
      BY <2>1, <3>1 DEF IInv, Channels, ErrSent, SeriesSent
    <3>3. QED BY <2>1, <2>4, <3>2, RoomInChan DEF IInv, TypeOK, Channels
  <2>5. QED BY <2>2, <2>3, <2>4 DEF RoomToSend
<1>2. QED BY Invariance, <1>1, PTL

\* While errors are still awaited, fewer than N were taken.
LEMMA AllTaken ==
  ASSUME IInv, pc \in {"recvErr", "done"}, next > N
  PROVE  ErrTaken = Namer /\ SeriesTaken = Namer
<1>1. Cardinality(ErrTaken) = N /\ Cardinality(SeriesTaken) = N
  BY FanOutAssumption DEF IInv, TypeOK, Counting
<1>2. QED BY <1>1, TakenFinite, NamerFinite, FS_Subset

\* The collector never waits on a channel that nobody will write to.
THEOREM CollectorNeverStarves == Spec => []CollectorIsFed
<1>1. IInv => CollectorIsFed
  <2>1. SUFFICES ASSUME IInv PROVE CollectorIsFed
    OBVIOUS
  <2>2. ASSUME pc = "recvErr", next \in Namer, errs = << >>
        PROVE  \E n \in Namer : goroutine[n] \in {"query", "sendErr"}
    <3>1. SUFFICES ASSUME \A n \in Namer : goroutine[n] \notin {"query", "sendErr"} PROVE FALSE
      OBVIOUS
    <3>2. InChan(errs) = {}
      BY <2>2 DEF InChan
    <3>3. ErrTaken = Namer
      BY <2>1, <2>2, <3>1, <3>2 DEF IInv, TypeOK, Progress, ErrTaken, ErrSent
    <3>4. Cardinality(ErrTaken) = next - 1
      BY <2>1, <2>2 DEF IInv, Counting
    <3>5. QED BY <2>2, <3>3, <3>4, NamerFinite, FanOutAssumption DEF Namer
  <2>3. ASSUME pc = "recvSeries", seriesChan = << >>
        PROVE  \E n \in Namer : goroutine[n] = "sendSeries"
    <3>1. SUFFICES ASSUME \A n \in Namer : goroutine[n] # "sendSeries" PROVE FALSE
      OBVIOUS
    <3>2. InChan(seriesChan) = {}
      BY <2>3 DEF InChan
    <3>3. ErrTaken \in SUBSET SeriesTaken
      <4>1. \A n \in ErrTaken : ~IsError(n)
        BY <2>1, <2>3 DEF IInv, Counting
      <4>2. QED BY <3>1, <3>2, <4>1 DEF ErrTaken, ErrSent, SeriesTaken, SeriesSent
    <3>4. Cardinality(ErrTaken) <= Cardinality(SeriesTaken)
      BY <3>3, TakenFinite, FS_Subset
    <3>5. Cardinality(ErrTaken) = next /\ Cardinality(SeriesTaken) = next - 1 /\ next \in Nat
      BY <2>1, <2>3 DEF IInv, TypeOK, Counting
    <3>6. QED BY <3>4, <3>5
  <2>4. QED BY <2>2, <2>3 DEF CollectorIsFed
<1>2. QED BY Invariance, <1>1, PTL

\* Nobody can push to errs once it is closed.
THEOREM CloseIsSafe == Spec => []NoSendOnClosed
<1>1. IInv => NoSendOnClosed
  <2>1. SUFFICES ASSUME IInv, errsState = "closed" PROVE NoSendOnClosed
    BY DEF NoSendOnClosed
  <2>2. pc = "done" /\ next > N
    BY <2>1, FanOutAssumption DEF IInv, Progress
  <2>3. ErrTaken = Namer
    BY <2>1, <2>2, AllTaken
  <2>4. QED BY <2>3 DEF NoSendOnClosed, ErrTaken, ErrSent
<1>2. QED BY Invariance, <1>1, PTL

-----------------------------------------------------------------------------
(***************************************************************************)
(* Termination, as far as it is a matter of safety.  What EveryCallReturns *)
(* and NoGoroutineLeak need beside fairness is that the moves left are     *)
(* counted down by every step, and that something can move until all is    *)
(* over.                                                                   *)
(***************************************************************************)

\* The moves namer n still has to make: to be spawned (or skipped), to query, two pushes.
MovesOf(n) ==
  [none |-> 4, query |-> 3, sendErr |-> 2, sendSeries |-> 1, exited |-> 0][goroutine[n]]

\* The moves the collector has left: the rest of its first loop, then two for every namer.
MovesOfCollector == IF pc = "spawn" THEN (N + 1 - next) + (2 * N + 2)
                    ELSE IF pc = "recvErr" THEN 2 * (N + 1 - next) + 1
                    ELSE IF pc = "recvSeries" THEN 2 * (N + 1 - next)
                    ELSE 0

\* The moves of the goroutines, each with the namer whose it is.
MovesLeft == {m \in Namer \X (1..4) : m[2] <= MovesOf(m[1])}

Fuel == MovesOfCollector + Cardinality(MovesLeft)

LEMMA SetsOfMoves ==
  ASSUME NEW S \in SUBSET (Namer \X (1..4))
  PROVE  IsFiniteSet(S) /\ Cardinality(S) \in 0..4 * N
<1>1. IsFiniteSet(1..4) /\ Cardinality(1..4) = 4
  <2>1. 1 \in Int /\ 4 \in Int
    OBVIOUS
  <2>2. /\ IsFiniteSet(1..4)
        /\ Cardinality(1..4) = IF 1 > 4 THEN 0 ELSE 4 - 1 + 1
    BY ONLY <2>1, FS_Interval
  <2>3. QED BY <2>2
<1>2. IsFiniteSet(Namer \X (1..4)) /\ Cardinality(Namer \X (1..4)) = N * 4
  BY <1>1, NamerFinite, FS_Product
<1>3. IsFiniteSet(S) /\ Cardinality(S) <= Cardinality(Namer \X (1..4))
  BY <1>2, FS_Subset
<1>4. Cardinality(S) \in Nat
  BY <1>3, FS_CardinalityType
<1>5. QED
  BY <1>2, <1>3, <1>4, FanOutAssumption

LEMMA CollectorMoves == TypeOK => MovesOfCollector \in 0..3 * N + 2
  BY FanOutAssumption DEF TypeOK, MovesOfCollector

\* A namer that moves on has fewer moves left, and the others have what they had.
LEMMA NamerMoves ==
  ASSUME TypeOK, TypeOK', NEW n \in Namer, MovesOf(n)' < MovesOf(n),
         \A m \in Namer \ {n} : goroutine'[m] = goroutine[m]
  PROVE  Cardinality(MovesLeft)' < Cardinality(MovesLeft)
<1>1. \A m \in Namer : MovesOf(m) \in 0..4 /\ MovesOf(m)' \in 0..4
  BY DEF TypeOK, MovesOf
<1>2. \A m \in Namer : MovesOf(m)' <= MovesOf(m)
  <2> SUFFICES ASSUME NEW m \in Namer PROVE MovesOf(m)' <= MovesOf(m)
    OBVIOUS
  <2>1. CASE m = n
    BY <2>1, <1>1
  <2>2. CASE m # n
    <3>1. MovesOf(m)' = MovesOf(m)
      BY <2>2 DEF MovesOf
    <3>2. QED BY <1>1, <3>1
  <2>3. QED BY <2>1, <2>2
<1>3. MovesLeft' \in SUBSET MovesLeft
  <2> SUFFICES ASSUME NEW m \in Namer \X (1..4), m[2] <= MovesOf(m[1])'
               PROVE  m[2] <= MovesOf(m[1])
    BY DEF MovesLeft
  <2>1. m[1] \in Namer /\ m[2] \in 1..4
    OBVIOUS
  <2>2. QED BY <1>1, <1>2, <2>1
<1>4. <<n, MovesOf(n)>> \in MovesLeft /\ <<n, MovesOf(n)>> \notin MovesLeft'
  BY <1>1 DEF MovesLeft
<1>5. IsFiniteSet(MovesLeft) /\ Cardinality(MovesLeft) \in Nat
  BY SetsOfMoves, FanOutAssumption DEF MovesLeft
<1>6. IsFiniteSet(MovesLeft') /\ Cardinality(MovesLeft') \in Nat
  BY <1>3, <1>5, FS_Subset, FS_CardinalityType
<1>7. /\ Cardinality(MovesLeft') <= Cardinality(MovesLeft)
      /\ Cardinality(MovesLeft') # Cardinality(MovesLeft)
  BY <1>3, <1>4, <1>5, FS_Subset
<1>8. QED BY <1>5, <1>6, <1>7

LEMMA StepSpendsFuel == ASSUME IInv, TypeOK', Next PROVE UNCHANGED vars \/ Fuel' < Fuel
<1> DEFINE card == Cardinality(MovesLeft)
<1>0. /\ TypeOK /\ card \in Nat /\ card' \in Nat
      /\ MovesOfCollector \in Nat /\ MovesOfCollector' \in Nat
  <2>1. card \in Nat /\ card' \in Nat
    <3>1. /\ MovesLeft \in SUBSET (Namer \X (1..4))
          /\ MovesLeft' \in SUBSET (Namer \X (1..4))
      BY DEF MovesLeft
    <3>2. QED BY <3>1, SetsOfMoves, FanOutAssumption
  <2>2. MovesOfCollector \in Nat /\ MovesOfCollector' \in Nat
    <3>1. N \in Nat /\ next \in 1..N + 1 /\ next' \in 1..N + 1
      BY FanOutAssumption DEF IInv, TypeOK
    <3>2. \A k \in 1..N + 1 : /\ (N + 1 - k) + (2 * N + 2) \in Nat
                             /\ 2 * (N + 1 - k) + 1 \in Nat
                             /\ 2 * (N + 1 - k) \in Nat
      BY <3>1
    <3>3. MovesOfCollector \in Nat
      BY <3>1, <3>2, Zenon DEF MovesOfCollector
    <3>4. MovesOfCollector' \in Nat
      BY <3>1, <3>2, 0 \in Nat, Zenon DEF MovesOfCollector
    <3>5. QED BY <3>3, <3>4
  <2>3. QED BY <2>1, <2>2 DEF IInv
<1>1. ASSUME MovesOfCollector' < MovesOfCollector, card' <= card
      PROVE  Fuel' < Fuel
  BY <1>0, <1>1 DEF Fuel
<1>2. ASSUME MovesOfCollector' <= MovesOfCollector, card' < card
      PROVE  Fuel' < Fuel
  BY <1>0, <1>2 DEF Fuel
<1>3. ASSUME goroutine' = goroutine PROVE card' <= card
  BY <1>0, <1>3 DEF MovesLeft, MovesOf
<1>4. ASSUME pc' = pc, next' = next PROVE MovesOfCollector' <= MovesOfCollector
  BY <1>0, <1>4 DEF MovesOfCollector
<1>5. CASE Spawn \/ SkipDuplicate
  <2>1. MovesOfCollector' < MovesOfCollector
    <3>1. pc = "spawn" /\ pc' = pc /\ next' = next + 1 /\ next \in Nat /\ N \in Nat
      BY <1>0, <1>5, FanOutAssumption DEF Spawn, SkipDuplicate, TypeOK
    <3>2. QED BY <3>1 DEF MovesOfCollector
  <2>2. PICK n \in Namer : /\ goroutine[n] = "none" /\ goroutine'[n] \in {"query", "exited"}
                           /\ \A m \in Namer \ {n} : goroutine'[m] = goroutine[m]
    <3>1. next \in Namer /\ goroutine[next] = "none" /\ goroutine'[next] \in {"query", "exited"}
      BY <1>0, <1>5 DEF Spawn, SkipDuplicate, TypeOK, IInv, Progress, Namer
    <3>2. \A m \in Namer \ {next} : goroutine'[m] = goroutine[m]
      BY <1>0, <1>5 DEF Spawn, SkipDuplicate, TypeOK
    <3>3. QED BY <3>1, <3>2
  <2>3. MovesOf(n)' < MovesOf(n)
    BY <2>2 DEF MovesOf
  <2>4. \A m \in Namer \ {n} : goroutine'[m] = goroutine[m]
    BY <2>2
  <2>5. QED BY <1>0, <1>1, <2>1, <2>2, <2>3, <2>4, NamerMoves
<1>6. CASE StartCollecting \/ RecvErr \/ RecvSeries \/ Finish
  <2>1. MovesOfCollector' < MovesOfCollector
    <3>1. N \in Nat /\ next \in 1..N + 1 /\ (pc = "recvSeries" => next <= N)
      BY <1>0, FanOutAssumption DEF TypeOK, IInv, Progress, Namer
    <3>2. CASE StartCollecting
      BY <3>1, <3>2 DEF StartCollecting, MovesOfCollector
    <3>3. CASE RecvErr
      BY <3>1, <3>3 DEF RecvErr, MovesOfCollector, Namer
    <3>4. CASE RecvSeries
      BY <3>1, <3>4 DEF RecvSeries, MovesOfCollector
    <3>5. CASE Finish
      BY <3>1, <3>5 DEF Finish, MovesOfCollector
    <3>6. QED BY <1>6, <3>2, <3>3, <3>4, <3>5
  <2>2. QED
    BY <1>1, <1>3, <1>6, <2>1 DEF StartCollecting, RecvErr, RecvSeries, Finish
<1>7. ASSUME NEW n \in Namer, Query(n) \/ SendErr(n) \/ SendSeries(n)
      PROVE  Fuel' < Fuel
  <2>1. MovesOf(n)' < MovesOf(n)
    BY <1>0, <1>7 DEF Query, SendErr, SendSeries, MovesOf, TypeOK
  <2>2. \A m \in Namer \ {n} : goroutine'[m] = goroutine[m]
    BY <1>0, <1>7 DEF Query, SendErr, SendSeries, TypeOK
  <2>3. pc' = pc /\ next' = next
    BY <1>7 DEF Query, SendErr, SendSeries, collector
  <2>4. QED BY <1>0, <1>2, <1>4, <2>1, <2>2, <2>3, NamerMoves
<1>8. QED BY <1>5, <1>6, <1>7 DEF Next, Returned

\* A relisting is over after at most 7N + 2 steps, however its goroutines are interleaved:
\* no step is repeated, waits in a loop or undoes another (basic_metric_lister.go:95-152).
THEOREM RelistingIsBounded == Spec => [](Fuel \in 0..7 * N + 2) /\ [][Fuel' < Fuel]_vars
<1>1. IInv => Fuel \in 0..7 * N + 2
  <2>1. SUFFICES ASSUME IInv PROVE Fuel \in 0..7 * N + 2
    OBVIOUS
  <2>2. MovesLeft \in SUBSET (Namer \X (1..4))
    BY DEF MovesLeft
  <2>3. Cardinality(MovesLeft) \in 0..4 * N /\ MovesOfCollector \in 0..3 * N + 2
    BY <2>1, <2>2, SetsOfMoves, CollectorMoves DEF IInv
  <2>4. QED BY <2>3, FanOutAssumption DEF Fuel
<1>2. IInv /\ IInv' /\ [Next]_vars => [Fuel' < Fuel]_vars
  BY StepSpendsFuel DEF IInv
<1>3. QED BY Invariance, <1>1, <1>2, PTL DEF Spec

\* The call has returned, and no goroutine it started is left.
Over == pc \in {"done", "failed"} /\ \A n \in Namer : goroutine[n] \in {"none", "exited"}

\* The guards of the steps that Fairness is about: the collector's, and a goroutine's.
CollectorCanMove ==
  \/ pc = "spawn" /\ (next \in Namer /\ selector[next] \in selectors
                        => Len(errs) < ChanCap /\ Len(seriesChan) < ChanCap)
  \/ pc = "recvErr" /\ (next \in Namer => errs # << >>)
  \/ pc = "recvSeries" /\ seriesChan # << >>
CanMove(n) ==
  \/ goroutine[n] = "query"
  \/ goroutine[n] = "sendErr" /\ Len(errs) < ChanCap /\ errsState = "open"
  \/ goroutine[n] = "sendSeries" /\ Len(seriesChan) < ChanCap

\* Until it is over, the collector or a goroutine can move, and after an early return every
\* goroutine that is left can: the adapter never waits on itself.
THEOREM NeverStuck ==
  Spec => [](/\ Over \/ CollectorCanMove \/ \E n \in Namer : CanMove(n)
             /\ \A n \in Namer : goroutine[n] \notin {"none", "exited"} => CanMove(n))
<1> DEFINE Moves == /\ Over \/ CollectorCanMove \/ \E n \in Namer : CanMove(n)
                    /\ \A n \in Namer : goroutine[n] \notin {"none", "exited"} => CanMove(n)
<1>1. ASSUME IInv, RoomToSend, CollectorIsFed, NoSendOnClosed PROVE Moves
  <2>1. \A n \in Namer : goroutine[n] \notin {"none", "exited"} => CanMove(n)
    <3>1. SUFFICES ASSUME NEW n \in Namer, goroutine[n] \notin {"none", "exited"}
                   PROVE  CanMove(n)
      OBVIOUS
    <3>2. goroutine[n] \in {"query", "sendErr", "sendSeries"} /\ errsState \in {"open", "closed"}
      BY <1>1, <3>1 DEF IInv, TypeOK
    <3>3. /\ goroutine[n] = "sendErr" => Len(errs) < ChanCap /\ errsState # "closed"
          /\ goroutine[n] = "sendSeries" => Len(seriesChan) < ChanCap
      BY <1>1 DEF RoomToSend, NoSendOnClosed
    <3>4. QED BY <3>2, <3>3 DEF CanMove
  <2>2. CASE pc = "spawn"
    <3>1. next \in Namer /\ selector[next] \in selectors
            => Len(errs) < ChanCap /\ Len(seriesChan) < ChanCap
      BY <1>1, <2>2 DEF RoomToSend
    <3>2. CollectorCanMove
      BY <2>2, <3>1 DEF CollectorCanMove
    <3>3. QED BY <2>1, <3>2
  <2>3. CASE pc \in {"recvErr", "recvSeries"}
    BY <1>1, <2>1, <2>3 DEF CollectorIsFed, CollectorCanMove
  <2>4. CASE pc \in {"done", "failed"}
    BY <2>1, <2>4 DEF Over
  <2>5. QED BY <1>1, <2>1, <2>2, <2>3, <2>4 DEF IInv, TypeOK
<1>2. QED
  BY Invariance, NoPushBlocks, CollectorNeverStarves, CloseIsSafe, <1>1, PTL

\* A relisting that succeeds leaves nothing behind: no goroutine, and no value in a channel
\* (basic_metric_lister.go:123-134; the channel of series is never closed).
THEOREM SuccessLeavesNothing ==
  Spec => [](pc = "done" => /\ \A n \in Namer : goroutine[n] = "exited"
                           /\ errs = << >> /\ seriesChan = << >>)
<1> DEFINE Nothing == pc = "done" => /\ \A n \in Namer : goroutine[n] = "exited"
                                    /\ errs = << >> /\ seriesChan = << >>
<1>1. IInv => Nothing
  <2>1. SUFFICES ASSUME IInv, pc = "done"
                 PROVE  /\ \A n \in Namer : goroutine[n] = "exited"
                        /\ errs = << >> /\ seriesChan = << >>
    OBVIOUS
  <2>2. ErrTaken = Namer /\ SeriesTaken = Namer
    BY <2>1, AllTaken, FanOutAssumption DEF IInv, Progress
  <2>3. \A n \in Namer : goroutine[n] = "exited"
    BY <2>2 DEF SeriesTaken, SeriesSent
  <2>4. InChan(errs) = {} /\ InChan(seriesChan) = {}
    BY <2>1, <2>2 DEF IInv, Channels, ErrTaken, SeriesTaken, ErrSent, SeriesSent
  <2>5. \A ch \in Seq(Namer) : InChan(ch) = {} => ch = << >>
    BY DEF InChan
  <2>6. QED BY <2>1, <2>3, <2>4, <2>5 DEF IInv, TypeOK
<1>2. QED BY Invariance, <1>1, PTL

-----------------------------------------------------------------------------
(***************************************************************************)
(* The fan-out implements the atomic relisting.                            *)
(***************************************************************************)

\* A selector's answer is the one its only asker got.
LEMMA AnswerOf ==
  ASSUME IInv, NEW n \in Namer, answer[n] # Pending
  PROVE  AnswerTo(selector[n]) = answer[n]
<1> DEFINE asked == {m \in Namer : selector[m] = selector[n] /\ answer[m] # Pending}
<1>1. asked = {n}
  BY DEF IInv, OneAsker, Launched
<1>2. (CHOOSE m \in asked : TRUE) = n
  BY <1>1
<1>3. QED BY <1>1, <1>2 DEF AnswerTo

LEMMA NoAnswerYet ==
  ASSUME NEW s, \A n \in Namer : selector[n] = s => answer[n] = Pending
  PROVE  AnswerTo(s) = Pending
  BY DEF AnswerTo

\* Query(n) gives its selector its first answer and leaves the others as they are.
LEMMA QueryAnswers ==
  ASSUME IInv, IInv', NEW n \in Namer, Query(n)
  PROVE  /\ AnswerTo(selector[n]) = Pending
         /\ \A s \in Selectors :
              AnswerTo(s)' = IF s = selector[n] THEN answer'[n] ELSE AnswerTo(s)
<1>1. /\ answer[n] = Pending /\ answer'[n] \in Answer /\ selector' = selector
      /\ \A m \in Namer : m # n => answer'[m] = answer[m]
  BY QuerySets DEF Query, config, IInv, TypeOK, Answers
<1>2. \A m \in Namer : selector[m] = selector[n] => answer[m] = Pending
  <2>1. Launched(n)
    BY DEF Query, Launched
  <2>2. QED BY <1>1, <2>1 DEF IInv, OneAsker, Launched
<1>3. AnswerTo(selector[n]) = Pending
  BY <1>2, NoAnswerYet
<1>4. answer'[n] # Pending
  BY <1>1, FanOutAssumption DEF Answer
<1>5. {m \in Namer : selector'[m] = selector[n] /\ answer'[m] # Pending} = {n}
  BY <1>1, <1>2, <1>4
<1>6. \A s : s = selector[n] => AnswerTo(s)' = answer'[n]
  BY <1>5 DEF AnswerTo
<1>7. ASSUME NEW s, s # selector[n] PROVE AnswerTo(s)' = AnswerTo(s)
  <2>1. {m \in Namer : selector'[m] = s /\ answer'[m] # Pending}
          = {m \in Namer : selector[m] = s /\ answer[m] # Pending}
    BY <1>1, <1>7
  <2>2. \A m \in {k \in Namer : selector[k] = s /\ answer[k] # Pending} : answer'[m] = answer[m]
    BY <1>1, <1>7
  <2> DEFINE asked == {m \in Namer : selector[m] = s /\ answer[m] # Pending}
  <2>3. CASE asked = {}
    BY <2>1, <2>3 DEF AnswerTo
  <2>4. CASE asked # {}
    <3>1. (CHOOSE m \in asked : TRUE) \in asked
      BY <2>4
    <3>2. answer'[CHOOSE m \in asked : TRUE] = answer[CHOOSE m \in asked : TRUE]
      BY <2>2, <3>1
    <3>3. AnswerTo(s) = answer[CHOOSE m \in asked : TRUE]
      BY <2>4 DEF AnswerTo
    <3>4. AnswerTo(s)' = answer'[CHOOSE m \in asked : TRUE]
      BY <2>1, <2>4 DEF AnswerTo
    <3>5. QED BY <3>2, <3>3, <3>4
  <2>5. QED BY <2>3, <2>4
<1>8. QED BY <1>3, <1>6, <1>7

\* When the collector has taken everything, every namer's selector has an answer, none of
\* them is an error, and the cache holds exactly those that are lists.
LEMMA FinishedCache ==
  ASSUME IInv, pc = "recvErr", next > N, NEW n \in Namer
  PROVE  /\ AnswerTo(selector[n]) \notin {Pending, Error}
         /\ cache[selector[n]] \in Lists <=> AnswerTo(selector[n]) \in Lists
         /\ cache[selector[n]] \in Lists => cache[selector[n]] = AnswerTo(selector[n])
<1> USE FanOutAssumption
<1>1. ErrTaken = Namer /\ SeriesTaken = Namer
  BY AllTaken
<1>2. goroutine[n] = "exited" /\ \A m \in Namer : goroutine[m] = "exited" /\ ~IsError(m)
  BY <1>1 DEF SeriesTaken, SeriesSent
<1>3. PICK m \in Namer : Launched(m) /\ selector[m] = selector[n]
  BY <1>2 DEF IInv, OneAsker
<1>4. answer[m] \notin {Pending, Error}
  BY <1>2, <1>3 DEF Launched, IsError
<1>5. AnswerTo(selector[n]) = answer[m]
  BY <1>3, <1>4, AnswerOf
<1>6. answer[m] \in Lists => cache[selector[m]] = answer[m]
  BY <1>1 DEF IInv, CacheInv
<1>7. cache[selector[n]] \in Lists => cache[selector[n]] = answer[m]
  <2>1. SUFFICES ASSUME cache[selector[n]] \in Lists PROVE cache[selector[n]] = answer[m]
    OBVIOUS
  <2>2. selector[n] \in Selectors
    BY DEF IInv, TypeOK
  <2>3. PICK k \in Namer : selector[k] = selector[n] /\ answer[k] = cache[selector[n]]
    BY <2>1, <2>2 DEF IInv, CacheInv
  <2>4. Launched(k)
    BY <2>1, <2>3 DEF Launched
  <2>5. k = m
    BY <1>3, <2>3, <2>4 DEF IInv, OneAsker
  <2>6. QED BY <2>3, <2>5
<1>8. QED BY <1>3, <1>4, <1>5, <1>6, <1>7

LEMMA RefineInit == Init => Listed!Init
<1> SUFFICES ASSUME Init PROVE Listed!Init
  OBVIOUS
<1>1. [s \in Selectors |-> AnswerTo(s)] = [s \in Selectors |-> Pending]
  <2>1. \A s \in Selectors : AnswerTo(s) = Pending
    BY NoAnswerYet DEF Init
  <2>2. QED BY <2>1
<1>2. Status = "listing"
  BY DEF Init, Status
<1>3. QED BY <1>1, <1>2 DEF Init, Listed!Init, Namer, Listed!Namer

LEMMA RefineStep ==
  ASSUME IInv, IInv', [Next]_vars
  PROVE  [Listed!Next]_(Listed!vars)
<1> DEFINE A == [s \in Selectors |-> AnswerTo(s)]
<1> USE FanOutAssumption
<1>1. ASSUME UNCHANGED <<selector, keeps, answer, Status, result>> PROVE UNCHANGED Listed!vars
  <2>1. \A s : AnswerTo(s)' = AnswerTo(s)
    BY <1>1 DEF AnswerTo
  <2>2. A' = A
    BY <2>1
  <2>3. QED BY <1>1, <2>2 DEF Listed!vars
<1>2. CASE Spawn \/ SkipDuplicate \/ StartCollecting \/ RecvSeries \/ Returned \/ UNCHANGED vars
  <2>1. UNCHANGED <<selector, keeps, answer, Status, result>>
    BY <1>2 DEF Spawn, SkipDuplicate, StartCollecting, RecvSeries, Returned, vars, config, Status
  <2>2. QED BY <1>1, <2>1
<1>3. ASSUME NEW n \in Namer, SendErr(n) \/ SendSeries(n) PROVE UNCHANGED Listed!vars
  <2>1. UNCHANGED <<selector, keeps, answer, Status, result>>
    BY <1>3 DEF SendErr, SendSeries, config, collector, Status
  <2>2. QED BY <1>1, <2>1
<1>4. CASE RecvErr
  <2>1. UNCHANGED <<selector, keeps, answer, result>> /\ pc = "recvErr"
    BY <1>4 DEF RecvErr, config
  <2>2. CASE IsError(Head(errs))
    <3>1. PICK n \in Namer : answer[n] = Error
      BY <1>4, <2>2, RecvErrSets DEF IsError
    <3>2. AnswerTo(selector[n]) = Error /\ selector[n] \in Selectors
      BY <3>1, AnswerOf DEF IInv, TypeOK
    <3>3. Status = "listing" /\ Status' = "failed"
      BY <1>4, <2>2 DEF RecvErr, Status
    <3>4. A' = A
      <4>1. \A s : AnswerTo(s)' = AnswerTo(s)
        BY <2>1 DEF AnswerTo
      <4>2. QED BY <4>1
    <3>5. \E s \in Listed!Asked : A[s] = Error
      BY <3>2 DEF Listed!Asked, Listed!Namer, Namer
    <3>6. Listed!Fail
      BY <2>1, <3>3, <3>4, <3>5 DEF Listed!Fail
    <3>7. QED BY <3>6 DEF Listed!Next
  <2>3. CASE ~IsError(Head(errs))
    <3>1. Status' = Status
      BY <1>4, <2>3 DEF RecvErr, Status
    <3>2. QED BY <1>1, <2>1, <3>1
  <2>4. QED BY <2>2, <2>3
<1>5. CASE Finish
  <2>1. UNCHANGED <<selector, keeps, answer>> /\ pc = "recvErr" /\ next > N
    BY <1>5 DEF Finish, config
  <2>2. Status = "listing" /\ Status' = "done"
    BY <1>5 DEF Finish, Status
  <2>3. A' = A
    <3>1. \A s : AnswerTo(s)' = AnswerTo(s)
      BY <2>1 DEF AnswerTo
    <3>2. QED BY <3>1
  <2>4. \A n \in Namer : selector[n] \in Selectors /\ A[selector[n]] = AnswerTo(selector[n])
    BY DEF IInv, TypeOK
  <2>5. \A s \in Listed!Asked : A[s] \notin {Pending, Error}
    BY <2>1, <2>4, FinishedCache DEF Listed!Asked, Listed!Namer, Namer
  <2>6. Assemble = [n \in {m \in Namer : A[selector[m]] \in Lists} |-> A[selector[n]] \cap keeps[n]]
    <3>1. \A n \in Namer : cache[selector[n]] \in Lists <=> A[selector[n]] \in Lists
      BY <2>1, <2>4, FinishedCache
    <3>2. {m \in Namer : cache[selector[m]] \in Lists} = {m \in Namer : A[selector[m]] \in Lists}
      BY <3>1
    <3>3. \A n \in {m \in Namer : A[selector[m]] \in Lists} :
            cache[selector[n]] \cap keeps[n] = A[selector[n]] \cap keeps[n]
      BY <2>1, <2>4, <3>1, FinishedCache
    <3>4. QED BY ONLY <3>2, <3>3 DEF Assemble
  <2>7. result' = Listed!Listing(selector, keeps, A)
    BY <1>5, <2>6 DEF Finish, Listed!Listing, Listed!Namer, Listed!Lists, Namer, Lists
  <2>8. Listed!Succeed
    BY <2>1, <2>2, <2>3, <2>5, <2>7 DEF Listed!Succeed
  <2>9. QED BY <2>8 DEF Listed!Next
<1>6. ASSUME NEW n \in Namer, Query(n) PROVE Listed!Next
  <2>1. UNCHANGED <<selector, keeps, result, Status>>
    BY <1>6 DEF Query, config, collector, Status
  <2>2. selector[n] \in Selectors /\ answer'[n] \in Answer
    BY <1>6 DEF IInv, TypeOK, Query
  <2>3. A' = [A EXCEPT ![selector[n]] = answer'[n]]
    BY <1>6, <2>2, QueryAnswers
  <2>4. A[selector[n]] = Pending
    BY <1>6, <2>2, QueryAnswers
  <2>5. selector[n] \in Listed!Asked /\ answer'[n] \in Listed!Answer
    BY <2>2 DEF Listed!Asked, Listed!Namer, Namer, Listed!Answer, Answer, Listed!Lists, Lists
  <2>6. Listed!Reply(selector[n])
    BY <2>1, <2>3, <2>4, <2>5 DEF Listed!Reply
  <2>7. QED BY <2>2, <2>6 DEF Listed!Next
<1>7. QED BY <1>2, <1>3, <1>4, <1>5, <1>6 DEF Next

\* Whatever the interleaving of the goroutines, a call of ListAllMetrics (and the same loop
\* in updateMetrics) behaves as one atomic relisting: it fails only after an error, and a
\* listing it returns is made of every selector's answer.
THEOREM FanOutImplementsListing == Spec => ImplementsListing
<1>1. IInv /\ IInv' /\ [Next]_vars => [Listed!Next]_(Listed!vars)
  BY RefineStep
<1>2. QED BY RefineInit, Invariance, <1>1, PTL DEF Spec, ImplementsListing, Listed!Spec
=============================================================================
