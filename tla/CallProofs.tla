----------------------------- MODULE CallProofs -----------------------------
(***************************************************************************)
(* Theorems about the calls of Producer: no two are given the same record, *)
(* and none stores more than its attempts.                                 *)
(***************************************************************************)
EXTENDS ProducerProofs, FiniteSetTheorems

USE DEF InFlightStates, ReturnedStates, InFlight, InCall, WaitForAll, Unanswered

-----------------------------------------------------------------------------
(* Close.                                                                  *)

\* sarama's Close waits for the messages in flight; a caller that is behind the
\* context check is not among them and will find the producer closed.
CloseDrains == producer = "closed" => \A c \in Callers : ~InFlight(c)

\* A step that ends with the producer closed starts no call.
LEMMA NoCallStarts ==
    ASSUME TypeOK, [Step]_vars, producer' = "closed", NEW c \in Callers, ~InFlight(c)
    PROVE  ~InFlight(c)'
<1>1. CASE \E d \in Callers, e \in Event : ProduceEvent(d, e)
  BY <1>1 DEF ProduceEvent, BeginCall, TypeOK
<1>2. CASE \E d \in Callers : SendStep(d)
  <2>1. PICK d \in Callers : SendStep(d)
    BY <1>2
  <2>2. CASE HandOver(d)
    BY <2>2 DEF HandOver, Admit, ShuttingDown, SendOnClosed, Answer, TypeOK
  <2>3. CASE ~HandOver(d)
    <3>1. InFlight(d)
      BY <2>1, <2>3 DEF SendStep, Transmit, AppendCopy, Acknowledge, AttemptFails,
                        AttemptTimesOut, Rejected
    <3>2. pc'[c] = pc[c]
      BY <2>1, <2>3, <3>1
      DEF SendStep, Transmit, AppendCopy, Acknowledge, AttemptFails,
          AttemptTimesOut, Rejected, RetryOrFail, TypeOK
    <3>3. QED
      BY <3>2
  <2>4. QED
    BY <2>2, <2>3
<1>3. CASE Environment
  BY <1>3 DEF Environment, LateAppend, Replicate, Failover, callVars
<1>4. CASE (\E d \in Callers : Cancel(d)) \/ Close \/ CloseReturns \/ UNCHANGED vars
  BY <1>4 DEF Cancel, Close, CloseReturns, callVars, vars
<1>5. QED
  BY <1>1, <1>2, <1>3, <1>4 DEF Step

\* The step that closes the producer finds no call in flight, and while it is
\* closed none gets in.
LEMMA CloseStep == TypeOK /\ CloseDrains /\ [Step]_vars => CloseDrains'
<1> SUFFICES ASSUME TypeOK, CloseDrains, [Step]_vars, producer' = "closed",
                    NEW c \in Callers
             PROVE  ~InFlight(c)'
  BY DEF CloseDrains
<1>1. CASE producer = "closed"
  BY <1>1, NoCallStarts DEF CloseDrains
<1>2. CASE producer # "closed"
  <2>1. CloseReturns
    BY <1>2 DEF Step, ProduceEvent, SendStep, HandOver, Admit, ShuttingDown,
                SendOnClosed, Answer, Transmit, AppendCopy, Acknowledge, AttemptFails,
                AttemptTimesOut, Rejected, Cancel, Close, Environment,
                LateAppend, Replicate, Failover, vars
  <2>2. QED
    BY <2>1, NoCallStarts DEF CloseReturns, Drained
<1>3. QED
  BY <1>1, <1>2

-----------------------------------------------------------------------------
(* One record per call.                                                    *)

\* A call that returned an offset returned that of a committed record of its event.
ReturnedCommitted ==
    \A c \in Callers : pc[c] = "ok" =>
        /\ cur[c] \in Event
        /\ CommittedAt(cur[c], PartitionOf(cur[c]), pos[c])

\* OneRecordPerCall becomes inductive with it: a new record is put behind the
\* committed prefix, hence behind every record a returned call holds.
OneRecordInv == DurabilityInv /\ ReturnedCommitted /\ OneRecordPerCall

\* A caller whose record a step neither stores nor lets go keeps it: what it
\* holds after the step it held before, unless it is the step's AppendCopy.
LEMMA HeldBefore ==
    ASSUME TypeOK, [Step]_vars, NEW c \in Callers, pc'[c] \in {"stored", "ok"},
           ~AppendCopy(c)
    PROVE  /\ pc[c] \in {"stored", "ok"}
           /\ cur'[c] = cur[c]
           /\ pos'[c] = pos[c]
           /\ pc'[c] = "ok" => pc[c] = "ok" \/ Acknowledge(c)
<1>1. CASE \E d \in Callers, e \in Event : ProduceEvent(d, e)
  BY <1>1 DEF ProduceEvent, BeginCall, TypeOK
<1>2. CASE \E d \in Callers : SendStep(d)
  <2>1. PICK d \in Callers : SendStep(d)
    BY <1>2
  <2>2. CASE AttemptFails(d) \/ AttemptTimesOut(d)
    BY <2>2 DEF AttemptFails, AttemptTimesOut, RetryOrFail, TypeOK
  <2>3. CASE Transmit(d) \/ AppendCopy(d) \/ Acknowledge(d) \/ Rejected(d)
    BY <2>3 DEF Transmit, AppendCopy, Acknowledge, Rejected, TypeOK
  <2>4. CASE HandOver(d)
    BY <2>4 DEF HandOver, Admit, ShuttingDown, SendOnClosed, Answer, TypeOK
  <2>5. QED
    BY <2>1, <2>2, <2>3, <2>4 DEF SendStep
<1>3. CASE Environment
  BY <1>3 DEF Environment, LateAppend, Replicate, Failover, callVars
<1>4. CASE (\E d \in Callers : Cancel(d)) \/ Close \/ CloseReturns \/ UNCHANGED vars
  BY <1>4 DEF Cancel, Close, CloseReturns, callVars, vars
<1>5. QED
  BY <1>1, <1>2, <1>3, <1>4 DEF Step

\* What a call has returned stays committed.
LEMMA ReturnedStep ==
    ASSUME OneRecordInv, [Step]_vars
    PROVE  ReturnedCommitted'
<1> SUFFICES ASSUME NEW c \in Callers, pc'[c] = "ok"
             PROVE  /\ cur'[c] \in Event
                    /\ CommittedAt(cur[c], PartitionOf(cur[c]), pos[c])'
  BY DEF ReturnedCommitted, PartitionOf
<1>1. /\ TypeOK /\ HwWithinLog /\ StoredInPlace /\ ReturnedCommitted
      /\ LogStep
  BY NextLogStep DEF OneRecordInv, DurabilityInv
<1>2. ~AppendCopy(c)
  BY <1>1 DEF AppendCopy, TypeOK
<1>3. /\ cur'[c] = cur[c]
      /\ pos'[c] = pos[c]
      /\ pc[c] = "ok" \/ Acknowledge(c)
  BY <1>1, <1>2, HeldBefore
<1>4. cur[c] \in Event
  BY <1>1, <1>3 DEF ReturnedCommitted, Acknowledge, TypeOK
<1>5. PartitionOf(cur[c]) \in Partitions
  BY <1>4, PartitionOfType
<1>6. CommittedAt(cur[c], PartitionOf(cur[c]), pos[c])
  <2>1. CASE pc[c] = "ok"
    BY <1>1, <2>1 DEF ReturnedCommitted
  <2>2. CASE Acknowledge(c)
    BY <1>1, <1>5, <2>2, LenProperties
    DEF Acknowledge, CommittedAt, StoredInPlace, HwWithinLog, TypeOK, BrokerTypeOK
  <2>3. QED
    BY <1>3, <2>1, <2>2
<1>7. PICK e \in Event, p \in Partitions, i \in Nat :
          e = cur[c] /\ p = PartitionOf(cur[c]) /\ i = pos[c]
  BY <1>1, <1>4, <1>5 DEF TypeOK
<1>8. CommittedAt(e, p, i)'
  BY <1>1, <1>6, <1>7, CommittedStays
<1>9. QED
  BY <1>3, <1>4, <1>7, <1>8 DEF CommittedAt, PartitionOf

\* What a call holds is within its partition's log.
LEMMA HeldWithinLog ==
    ASSUME OneRecordInv, NEW c \in Callers, pc[c] \in {"stored", "ok"}
    PROVE  /\ PartitionOf(cur[c]) \in Partitions
           /\ pos[c] <= Len(log[PartitionOf(cur[c])])
<1>1. cur[c] \in Event
  BY DEF OneRecordInv, DurabilityInv, TypeOK, ReturnedCommitted
<1>2. PartitionOf(cur[c]) \in Partitions
  BY <1>1, PartitionOfType
<1>3. /\ hw[PartitionOf(cur[c])] \in Nat
      /\ Len(log[PartitionOf(cur[c])]) \in Nat
      /\ pos[c] \in Nat
      /\ hw[PartitionOf(cur[c])] <= Len(log[PartitionOf(cur[c])])
  BY <1>2, LenProperties
  DEF OneRecordInv, DurabilityInv, TypeOK, BrokerTypeOK, HwWithinLog
<1>4. QED
  BY <1>2, <1>3
  DEF OneRecordInv, DurabilityInv, StoredInPlace, ReturnedCommitted, CommittedAt

\* The record a step appends for c is not one that another call holds.
LEMMA AppendedIsNew ==
    ASSUME OneRecordInv, [Step]_vars, NEW c \in Callers, NEW d \in Callers, c # d,
           AppendCopy(c), pc'[d] \in {"stored", "ok"},
           PartitionOf(cur'[c]) = PartitionOf(cur'[d])
    PROVE  pos'[d] < pos'[c]
<1>1. TypeOK
  BY DEF OneRecordInv, DurabilityInv
<1>2. /\ pc[d] \in {"stored", "ok"}
      /\ cur' = cur
      /\ pos'[d] = pos[d]
      /\ pos'[c] = Len(log[PartitionOf(cur[c])]) + 1
  BY <1>1 DEF AppendCopy, TypeOK
<1>3. /\ PartitionOf(cur[d]) \in Partitions
      /\ pos[d] <= Len(log[PartitionOf(cur[d])])
  BY <1>2, HeldWithinLog
<1>4. pos[d] \in Nat /\ Len(log[PartitionOf(cur[d])]) \in Nat
  BY <1>1, <1>3, LenProperties DEF TypeOK, BrokerTypeOK
<1>5. QED
  BY <1>2, <1>3, <1>4

\* No two calls come to hold one position.
LEMMA OneRecordStep ==
    ASSUME OneRecordInv, [Step]_vars
    PROVE  OneRecordPerCall'
<1> SUFFICES ASSUME NEW c \in Callers, NEW d \in Callers, c # d,
                    {pc'[c], pc'[d]} \subseteq {"stored", "ok"},
                    PartitionOf(cur'[c]) = PartitionOf(cur'[d])
             PROVE  pos'[c] # pos'[d]
  BY DEF OneRecordPerCall, PartitionOf
<1>1. TypeOK /\ OneRecordPerCall
  BY DEF OneRecordInv, DurabilityInv
<1>2. pos'[c] \in Nat /\ pos'[d] \in Nat
  BY <1>1, TypeStep DEF TypeOK
<1>3. CASE AppendCopy(c)
  <2>1. pos'[d] < pos'[c]
    BY <1>3, AppendedIsNew
  <2>2. QED
    BY <1>2, <2>1
<1>4. CASE AppendCopy(d)
  <2>1. pos'[c] < pos'[d]
    BY <1>4, AppendedIsNew
  <2>2. QED
    BY <1>2, <2>1
<1>5. CASE ~AppendCopy(c) /\ ~AppendCopy(d)
  <2>1. /\ pc[c] \in {"stored", "ok"} /\ cur'[c] = cur[c] /\ pos'[c] = pos[c]
        /\ pc[d] \in {"stored", "ok"} /\ cur'[d] = cur[d] /\ pos'[d] = pos[d]
    BY <1>1, <1>5, HeldBefore
  <2>2. QED
    BY <1>1, <2>1 DEF OneRecordPerCall
<1>6. QED
  BY <1>3, <1>4, <1>5

\* OneRecordInv is inductive.
LEMMA OneRecordInit == Init => OneRecordInv
BY DurabilityInit DEF Init, OneRecordInv, ReturnedCommitted, OneRecordPerCall

\* Every step keeps it.
LEMMA OneRecordInvStep == OneRecordInv /\ [Step]_vars => OneRecordInv'
BY DurabilityStep, ReturnedStep, OneRecordStep DEF OneRecordInv

\* The offset ProduceEvent returns is that of the caller's own record: no other
\* call holds it, however many callers share the producer and whatever is
\* retried, duplicated or failed over.
THEOREM OneRecordEach == Spec => []OneRecordPerCall
<1>1. OneRecordInv => OneRecordPerCall
  BY DEF OneRecordInv
<1>2. QED
  BY <1>1, OneRecordInit, OneRecordInvStep, NextIsStep, PTL DEF Spec

-----------------------------------------------------------------------------
(* The number of copies.                                                   *)

\* c's call has an attempt k still to make, or under way and not yet stored.
MayStore(c, k) ==
    InFlight(c) /\ (k > tries[c] \/ (k = tries[c] /\ pc[c] \in {"queued", "sent"}))

\* The attempts that may still put a copy of e into the log.
Left(e) ==
    {a \in Callers \X (0..MaxRetries) : cur[a[1]] = e /\ MayStore(a[1], a[2])}

\* CopiesBounded is not inductive: every copy needs an attempt that is over.
AttemptsCounted ==
    \A e \in Event :
        Copies(e) + late[e] + Cardinality(Left(e)) <= sends[e] * (MaxRetries + 1)

\* A log has finitely many positions.
LEMMA PositionsFinite == \A n \in Nat : IsFiniteSet(1..n)
<1>1. \A n \in Nat : 1 \in Int /\ n \in Int
  OBVIOUS
<1>2. QED
  BY <1>1, FS_Interval

\* Appending a record adds a copy of it, and of nothing else.
LEMMA AppendAddsACopy ==
    ASSUME BrokerTypeOK, NEW e \in Event, AppendRecord(e)
    PROVE  /\ Copies(e)' = Copies(e) + 1
           /\ \A f \in Event : f # e => Copies(f)' = Copies(f)
<1> DEFINE At(s, f) == {i \in 1..Len(s) : s[i] = f}
           p == PartitionOf(e)
<1>1. /\ p \in Partitions
      /\ log[p] \in Seq(Event) /\ Len(log[p]) \in Nat
  BY PartitionOfType, LenProperties DEF BrokerTypeOK
<1>2. /\ \A i \in 1..Len(log[p]) : log'[p][i] = log[p][i]
      /\ Len(log'[p]) = Len(log[p]) + 1
      /\ log'[p][Len(log[p]) + 1] = e
      /\ \A q \in Partitions : q # p => log'[q] = log[q]
  BY <1>1, AppendRecordLog
<1>3. At(log'[p], e) = At(log[p], e) \cup {Len(log[p]) + 1}
  BY <1>1, <1>2
<1>4. Cardinality(At(log'[p], e)) = Cardinality(At(log[p], e)) + 1
  <2>1. IsFiniteSet(1..Len(log[p]))
    BY <1>1, PositionsFinite
  <2>2. IsFiniteSet(At(log[p], e))
    BY <2>1, FS_Subset
  <2>3. Len(log[p]) + 1 \notin At(log[p], e)
    BY <1>1
  <2> HIDE DEF At
  <2>4. QED
    BY <1>3, <2>2, <2>3, FS_AddElement
<1>5. Copies(e)' = Copies(e) + 1
  BY <1>4 DEF Copies, PartitionOf
<1>6. ASSUME NEW f \in Event, f # e
      PROVE  Copies(f)' = Copies(f)
  <2>1. CASE PartitionOf(f) = p
    <3>1. At(log'[p], f) = At(log[p], f)
      BY <1>1, <1>2, <1>6
    <3>2. QED
      BY <2>1, <3>1 DEF Copies, PartitionOf
  <2>2. CASE PartitionOf(f) # p
    <3>1. log'[PartitionOf(f)] = log[PartitionOf(f)]
      BY <1>2, <2>2, PartitionOfType
    <3>2. QED
      BY <3>1 DEF Copies, PartitionOf
  <2>3. QED
    BY <2>1, <2>2
<1>7. QED
  BY <1>5, <1>6

\* The copies of an event are countable, and a failover makes no new ones.
LEMMA FailoverAddsNoCopy ==
    ASSUME BrokerTypeOK, NEW p \in Partitions, NEW n \in hw[p]..Len(log[p]),
           FailoverTo(p, n), NEW f \in Event
    PROVE  Copies(f)' <= Copies(f) /\ Copies(f)' \in Nat
<1> DEFINE q == PartitionOf(f)
           Before == {i \in 1..Len(log[q]) : log[q][i] = f}
           After == {i \in 1..Len(log'[q]) : log'[q][i] = f}
<1>1. q \in Partitions /\ Len(log[q]) \in Nat /\ Len(log[p]) \in Nat /\ hw[p] \in Nat
  BY PartitionOfType, LenProperties DEF BrokerTypeOK
<1>2. /\ Len(log'[p]) = n
      /\ \A i \in 1..n : log'[p][i] = log[p][i]
      /\ \A s \in Partitions : s # p => log'[s] = log[s]
  BY FailoverLog
<1>3. After \subseteq Before
  BY <1>1, <1>2
<1>4. IsFiniteSet(Before)
  <2>1. IsFiniteSet(1..Len(log[q]))
    BY <1>1, PositionsFinite
  <2>2. QED
    BY <2>1, FS_Subset
<1>5. Copies(f) = Cardinality(Before) /\ Copies(f)' = Cardinality(After)
  BY DEF Copies, PartitionOf
<1> HIDE DEF Before, After
<1>6. QED
  BY <1>3, <1>4, <1>5, FS_Subset, FS_CardinalityType

\* Copies are counted by a number.
LEMMA CopiesType ==
    ASSUME BrokerTypeOK, NEW f \in Event
    PROVE  Copies(f) \in Nat
<1> DEFINE s == log[PartitionOf(f)]
<1>1. Len(s) \in Nat
  BY PartitionOfType, LenProperties DEF BrokerTypeOK
<1>2. IsFiniteSet({i \in 1..Len(s) : s[i] = f})
  <2>1. IsFiniteSet(1..Len(s))
    BY <1>1, PositionsFinite
  <2>2. QED
    BY <2>1, FS_Subset
<1>3. QED
  BY <1>2, FS_CardinalityType DEF Copies

\* There are finitely many attempts.
LEMMA AttemptsFinite ==
    /\ IsFiniteSet(Callers \X (0..MaxRetries))
    /\ \A c \in Callers : /\ IsFiniteSet({c} \X (0..MaxRetries))
                          /\ Cardinality({c} \X (0..MaxRetries)) = MaxRetries + 1
<1> DEFINE T == 0..MaxRetries
<1>1. IsFiniteSet(T) /\ Cardinality(T) = MaxRetries + 1
  BY MaxRetriesAssumption, FS_Interval
<1> HIDE DEF T
<1>2. ASSUME NEW S, IsFiniteSet(S)
      PROVE  /\ IsFiniteSet(S \X T)
             /\ Cardinality(S \X T) = Cardinality(S) * (MaxRetries + 1)
  BY <1>1, <1>2, FS_Product
<1>3. IsFiniteSet(Callers \X T)
  BY <1>2, CallersAssumption
<1>4. ASSUME NEW c \in Callers
      PROVE  /\ IsFiniteSet({c} \X T)
             /\ Cardinality({c} \X T) = 1 * (MaxRetries + 1)
  <2>1. IsFiniteSet({c}) /\ Cardinality({c}) = 1
    BY FS_Singleton
  <2>2. QED
    BY <1>2, <2>1
<1>5. 1 * (MaxRetries + 1) = MaxRetries + 1
  BY MaxRetriesAssumption
<1>6. QED
  BY <1>3, <1>4, <1>5 DEF T

\* Sets of attempts have a size.
LEMMA AttemptSets ==
    ASSUME NEW S \in SUBSET (Callers \X (0..MaxRetries))
    PROVE  IsFiniteSet(S) /\ Cardinality(S) \in Nat
BY AttemptsFinite, FS_Subset, FS_CardinalityType

\* A step of one call that gives it no new attempt gives none to any event.
LEMMA LeftShrinks ==
    ASSUME TypeOK, NEW c \in Callers, cur' = cur,
           \A d \in Callers : d # c => pc'[d] = pc[d] /\ tries'[d] = tries[d],
           \A k \in 0..MaxRetries : MayStore(c, k)' => MayStore(c, k),
           NEW e \in Event
    PROVE  /\ Cardinality(Left(e)') <= Cardinality(Left(e))
           /\ \A k \in 0..MaxRetries :
                 cur[c] = e /\ MayStore(c, k) /\ ~MayStore(c, k)' =>
                    Cardinality(Left(e)') + 1 <= Cardinality(Left(e))
<1>1. Left(e)' \subseteq Left(e)
  <2> SUFFICES ASSUME NEW d \in Callers, NEW k \in 0..MaxRetries,
                      cur[d] = e, MayStore(d, k)'
               PROVE  MayStore(d, k)
    BY DEF Left
  <2>1. CASE d = c
    BY <2>1
  <2>2. CASE d # c
    BY <2>2 DEF MayStore
  <2>3. QED
    BY <2>1, <2>2
<1>2. /\ Left(e) \in SUBSET (Callers \X (0..MaxRetries))
      /\ Left(e)' \in SUBSET (Callers \X (0..MaxRetries))
  BY DEF Left
<1>3. /\ IsFiniteSet(Left(e)) /\ Cardinality(Left(e)) \in Nat
      /\ Cardinality(Left(e)') \in Nat
  BY <1>2, AttemptSets
<1>4. Cardinality(Left(e)') <= Cardinality(Left(e))
  BY <1>1, <1>3, FS_Subset
<1>5. ASSUME NEW k \in 0..MaxRetries,
             cur[c] = e, MayStore(c, k), ~MayStore(c, k)'
      PROVE  Cardinality(Left(e)') + 1 <= Cardinality(Left(e))
  <2> DEFINE a == <<c, k>>
  <2>1. a \in Left(e) /\ a \notin Left(e)'
    BY <1>5 DEF Left
  <2> HIDE DEF a
  <2>2. Left(e)' \subseteq Left(e) \ {a}
    BY <1>1, <2>1
  <2>3. /\ IsFiniteSet(Left(e) \ {a})
        /\ Cardinality(Left(e) \ {a}) = Cardinality(Left(e)) - 1
    BY <1>3, <2>1, FS_RemoveElement
  <2>4. Cardinality(Left(e)') <= Cardinality(Left(e) \ {a})
    BY <2>2, <2>3, FS_Subset
  <2>5. QED
    BY <1>3, <2>3, <2>4
<1>6. QED
  BY <1>4, <1>5

\* A call that begins has no attempts before sarama takes its message ...
LEMMA BeginCallLeft ==
    ASSUME TypeOK, NEW c \in Callers, NEW e \in Event,
           NEW where \in {"checked", "failed"}, BeginCall(c, e, where),
           NEW f \in Event
    PROVE  Left(f)' = Left(f)
<1>1. \A k : ~MayStore(c, k) /\ ~MayStore(c, k)'
  BY DEF BeginCall, MayStore, TypeOK
<1>2. \A d \in Callers : d # c =>
         cur'[d] = cur[d] /\ \A k : MayStore(d, k)' <=> MayStore(d, k)
  BY DEF BeginCall, MayStore, TypeOK
<1>3. QED
  BY <1>1, <1>2 DEF Left

\* ... and then at most all of them; none, if it does not take it.
LEMMA AnswerLeft ==
    ASSUME TypeOK, NEW c \in Callers,
           NEW where \in {"queued", "failed", "panicked"}, Answer(c, where),
           NEW f \in Event
    PROVE  /\ where # "queued" \/ f # cur[c] => Left(f)' = Left(f)
           /\ Cardinality(Left(f)') <= Cardinality(Left(f)) + (MaxRetries + 1)
<1> DEFINE New == {c} \X (0..MaxRetries)
<1>1. cur' = cur /\ ~InFlight(c) /\ \A k : ~MayStore(c, k)
  BY DEF Answer, MayStore
<1>2. \A d \in Callers : d # c => \A k : MayStore(d, k)' <=> MayStore(d, k)
  BY DEF Answer, MayStore, TypeOK
<1>3. where # "queued" => \A k : ~MayStore(c, k)'
  BY DEF Answer, MayStore, TypeOK
<1>4. where # "queued" \/ f # cur[c] => Left(f)' = Left(f)
  BY <1>1, <1>2, <1>3 DEF Left
<1>5. Left(f)' \subseteq Left(f) \cup New
  BY <1>1, <1>2 DEF Left
<1>6. /\ IsFiniteSet(Left(f)) /\ Cardinality(Left(f)) \in Nat
      /\ Cardinality(Left(f)') \in Nat
  <2>1. /\ Left(f) \in SUBSET (Callers \X (0..MaxRetries))
        /\ Left(f)' \in SUBSET (Callers \X (0..MaxRetries))
    BY DEF Left
  <2>2. QED
    BY <2>1, AttemptSets
<1>7. Cardinality(Left(f)') <= Cardinality(Left(f)) + (MaxRetries + 1)
  <2>1. IsFiniteSet(New) /\ Cardinality(New) = MaxRetries + 1
    BY AttemptsFinite
  <2> HIDE DEF New
  <2>2. /\ IsFiniteSet(Left(f) \cup New)
        /\ Cardinality(Left(f) \cup New)
              = Cardinality(Left(f)) + Cardinality(New) - Cardinality(Left(f) \cap New)
    BY <1>6, <2>1, FS_Union
  <2>3. Cardinality(Left(f) \cap New) \in Nat
    BY <1>6, FS_Intersection, FS_CardinalityType
  <2>4. Cardinality(Left(f)') <= Cardinality(Left(f) \cup New)
    BY <1>5, <2>2, FS_Subset
  <2>5. QED
    BY <1>6, <2>1, <2>2, <2>3, <2>4, MaxRetriesAssumption
<1>8. QED
  BY <1>4, <1>7

\* The account of one event.
AccountOf(e) == Copies(e) + late[e] + Cardinality(Left(e)) <= sends[e] * (MaxRetries + 1)

\* What a step may do to it: take attempts for one more call, turn one into a
\* copy or a late request, turn a late request into a copy, or lose some.
LEMMA AccountStep ==
    ASSUME TypeOK, TypeOK', NEW e \in Event, AccountOf(e),
           Copies(e)' \in Nat,
           \/ /\ Copies(e)' + late'[e] <= Copies(e) + late[e]
              /\ Cardinality(Left(e)') <= Cardinality(Left(e)) + (MaxRetries + 1)
              /\ sends'[e] = sends[e] + 1
           \/ /\ Copies(e)' + late'[e] <= Copies(e) + late[e] + 1
              /\ Cardinality(Left(e)') + 1 <= Cardinality(Left(e))
              /\ sends'[e] = sends[e]
           \/ /\ Copies(e)' + late'[e] <= Copies(e) + late[e]
              /\ Cardinality(Left(e)') <= Cardinality(Left(e))
              /\ sends'[e] = sends[e]
    PROVE  AccountOf(e)'
<1>1. /\ Copies(e) \in Nat /\ late[e] \in Nat /\ late'[e] \in Nat
      /\ sends[e] \in Nat /\ sends'[e] \in Nat
  BY CopiesType DEF TypeOK
<1>2. Cardinality(Left(e)) \in Nat /\ Cardinality(Left(e)') \in Nat
  BY AttemptSets DEF Left
<1>3. PICK M \in Nat : M = MaxRetries + 1
  BY MaxRetriesAssumption
<1>4. (sends[e] + 1) * M = sends[e] * M + M
  BY <1>1
<1>5. sends[e] * M \in Nat
  BY <1>1
<1>6. PICK x \in Nat, y \in Nat : x = Copies(e)' /\ y = Cardinality(Left(e)')
  BY <1>2
<1>7. x + late'[e] + y <= sends'[e] * M
  BY <1>1, <1>2, <1>3, <1>4, <1>5, <1>6 DEF AccountOf
<1>8. QED
  BY <1>3, <1>6, <1>7 DEF AccountOf

\* Every step keeps every account.
LEMMA AttemptsStep ==
    ASSUME TypeOK, AttemptsCounted, [Step]_vars
    PROVE  AttemptsCounted'
<1> SUFFICES ASSUME NEW e \in Event
             PROVE  AccountOf(e)'
  BY DEF AttemptsCounted, AccountOf
<1>1. /\ TypeOK' /\ AccountOf(e) /\ BrokerTypeOK /\ BrokerTypeOK'
      /\ late[e] \in Nat /\ Copies(e) \in Nat
  BY TypeStep, CopiesType DEF AttemptsCounted, AccountOf, TypeOK
<1>2. log' = log => Copies(e)' = Copies(e)
  BY DEF Copies, PartitionOf
<1>3. UNCHANGED callVars => Left(e)' = Left(e)
  BY DEF callVars, Left, MayStore
<1>4. Cardinality(Left(e)) \in Nat
  BY AttemptSets DEF Left
<1>5. ASSUME NEW c \in Callers, Admit(c)
      PROVE  AccountOf(e)'
  <2>1. /\ UNCHANGED <<log, late>> /\ Answer(c, "queued")
        /\ cur[c] \in Event /\ sends' = [sends EXCEPT ![cur[c]] = @ + 1]
        /\ sends \in [Event -> Nat]
    BY <1>5 DEF Admit, Answer, brokerVars, TypeOK
  <2>2. CASE e = cur[c]
    <3>1. sends'[e] = sends[e] + 1
      BY <2>1, <2>2
    <3>2. Cardinality(Left(e)') <= Cardinality(Left(e)) + (MaxRetries + 1)
      BY <2>1, AnswerLeft
    <3>3. QED
      BY <1>1, <1>2, <2>1, <3>1, <3>2, AccountStep
  <2>3. CASE e # cur[c]
    <3>1. sends'[e] = sends[e] /\ Left(e)' = Left(e)
      BY <2>1, <2>3, AnswerLeft
    <3>2. QED
      BY <1>1, <1>2, <1>4, <2>1, <3>1, AccountStep
  <2>4. QED
    BY <2>2, <2>3
<1>6. ASSUME NEW c \in Callers, ShuttingDown(c) \/ SendOnClosed(c)
      PROVE  AccountOf(e)'
  <2>1. /\ UNCHANGED <<log, late, sends>>
        /\ Answer(c, "failed") \/ Answer(c, "panicked")
    BY <1>6 DEF ShuttingDown, SendOnClosed, Answer, brokerVars
  <2>2. Left(e)' = Left(e)
    BY <2>1, AnswerLeft
  <2>3. QED
    BY <1>1, <1>2, <1>4, <2>1, <2>2, AccountStep
<1>12. ASSUME NEW c \in Callers, NEW f \in Event, ProduceEvent(c, f)
       PROVE  AccountOf(e)'
  <2>1. PICK where \in {"checked", "failed"} : BeginCall(c, f, where)
    BY <1>12 DEF ProduceEvent
  <2>2. Left(e)' = Left(e)
    BY <2>1, BeginCallLeft
  <2>3. UNCHANGED <<log, late, sends>>
    BY <1>12 DEF ProduceEvent, brokerVars, historyVars
  <2>4. QED
    BY <1>1, <1>2, <1>4, <2>2, <2>3, AccountStep
<1>7. ASSUME NEW c \in Callers,
             Transmit(c) \/ Acknowledge(c) \/ AttemptFails(c) \/ Rejected(c)
      PROVE  AccountOf(e)'
  <2>1. /\ UNCHANGED <<log, late, sends, cur>>
        /\ \A d \in Callers : d # c => pc'[d] = pc[d] /\ tries'[d] = tries[d]
    BY <1>7 DEF Transmit, Acknowledge, AttemptFails, RetryOrFail, Rejected,
                brokerVars, historyVars, TypeOK
  <2>2. \A k \in 0..MaxRetries : MayStore(c, k)' => MayStore(c, k)
    BY <1>7, MaxRetriesAssumption
    DEF Transmit, Acknowledge, AttemptFails, RetryOrFail, Rejected, MayStore, TypeOK
  <2>3. Cardinality(Left(e)') <= Cardinality(Left(e))
    BY <2>1, <2>2, LeftShrinks
  <2>4. QED
    BY <1>1, <1>2, <2>1, <2>3, AccountStep
<1>8. ASSUME NEW c \in Callers, AppendCopy(c) \/ AttemptTimesOut(c)
      PROVE  AccountOf(e)'
  <2>1. /\ UNCHANGED <<sends, cur>> /\ cur[c] \in Event /\ pc[c] = "sent"
        /\ \A d \in Callers : d # c => pc'[d] = pc[d] /\ tries'[d] = tries[d]
    BY <1>8 DEF AppendCopy, AttemptTimesOut, RetryOrFail, historyVars, TypeOK
  <2>2. /\ tries[c] \in 0..MaxRetries
        /\ \/ pc'[c] = "stored" /\ tries'[c] = tries[c]
           \/ pc'[c] = "queued" /\ tries'[c] = tries[c] + 1
           \/ pc'[c] = "failed"
    <3>1. CASE AppendCopy(c)
      BY <3>1 DEF AppendCopy, TypeOK
    <3>2. CASE AttemptTimesOut(c)
      BY <3>2 DEF AttemptTimesOut, RetryOrFail, TypeOK
    <3>3. QED
      BY <1>8, <3>1, <3>2
  <2>3. /\ \A k \in 0..MaxRetries : MayStore(c, k)' => MayStore(c, k)
        /\ \E k \in 0..MaxRetries : MayStore(c, k) /\ ~MayStore(c, k)'
    <3>1. PICK k \in 0..MaxRetries : k = tries[c]
      BY <2>2
    <3>2. MayStore(c, k) /\ ~MayStore(c, k)'
      BY <2>1, <2>2, <3>1, MaxRetriesAssumption DEF MayStore
    <3>3. \A j \in 0..MaxRetries : MayStore(c, j)' => MayStore(c, j)
      BY <2>1, <2>2, MaxRetriesAssumption DEF MayStore
    <3>4. QED
      BY <3>2, <3>3
  <2>4. /\ Cardinality(Left(e)') <= Cardinality(Left(e))
        /\ cur[c] = e => Cardinality(Left(e)') + 1 <= Cardinality(Left(e))
    BY <1>1, <2>1, <2>2, <2>3, LeftShrinks
  <2>5. /\ Copies(e)' \in Nat /\ late'[e] \in Nat
        /\ Copies(e)' + late'[e] <= Copies(e) + late[e] + 1
        /\ cur[c] # e => Copies(e)' + late'[e] = Copies(e) + late[e]
    <3>1. CASE AppendCopy(c)
      <4>1. AppendRecord(cur[c]) /\ late' = late
        BY <3>1 DEF AppendCopy
      <4>2. QED
        BY <1>1, <2>1, <4>1, AppendAddsACopy
    <3>2. CASE AttemptTimesOut(c)
      <4>1. log' = log /\ late' = [late EXCEPT ![cur[c]] = @ + 1]
        BY <3>2 DEF AttemptTimesOut, brokerVars
      <4>2. /\ cur[c] = e => late'[e] = late[e] + 1
            /\ cur[c] # e => late'[e] = late[e]
        BY <2>1, <4>1 DEF TypeOK
      <4>3. QED
        BY <1>1, <1>2, <4>1, <4>2
    <3>3. QED
      BY <1>8, <3>1, <3>2
  <2>6. QED
    BY <1>1, <2>1, <2>4, <2>5, AccountStep
<1>9. ASSUME NEW f \in Event, LateAppend(f)
      PROVE  AccountOf(e)'
  <2>1. AppendRecord(f) /\ UNCHANGED <<sends, callVars>> /\ late[f] > 0
        /\ late' = [late EXCEPT ![f] = @ - 1]
    BY <1>9 DEF LateAppend, historyVars
  <2>2. late'[e] = IF e = f THEN late[e] - 1 ELSE late[e]
    BY <2>1 DEF TypeOK
  <2>3. Copies(e)' = IF e = f THEN Copies(e) + 1 ELSE Copies(e)
    BY <1>1, <2>1, AppendAddsACopy
  <2>4. Copies(e)' \in Nat /\ Copies(e)' + late'[e] <= Copies(e) + late[e]
    BY <1>1, <2>2, <2>3
  <2>5. QED
    BY <1>1, <1>3, <1>4, <2>1, <2>4, AccountStep
<1>10. ASSUME NEW p \in Partitions, NEW n \in hw[p]..Len(log[p]), Failover(p, n)
       PROVE  AccountOf(e)'
  <2>1. FailoverTo(p, n) /\ UNCHANGED <<late, sends, cur, tries>>
    BY <1>10 DEF Failover, historyVars
  <2>2. Left(e)' = Left(e)
    <3>1. \A d \in Callers : (InFlight(d)' <=> InFlight(d))
                                /\ (pc'[d] \in {"queued", "sent"} <=>
                                        pc[d] \in {"queued", "sent"})
      BY <1>10 DEF Failover, TypeOK
    <3>2. \A d \in Callers : \A k : MayStore(d, k)' <=> MayStore(d, k)
      BY <2>1, <3>1 DEF MayStore
    <3>3. QED
      BY <2>1, <3>2 DEF Left
  <2>3. Copies(e)' \in Nat /\ Copies(e)' <= Copies(e)
    BY <1>1, <2>1, FailoverAddsNoCopy
  <2>4. QED
    BY <1>1, <1>4, <2>1, <2>2, <2>3, AccountStep
<1>11. CASE UNCHANGED <<log, callVars, late, sends>>
  BY <1>1, <1>2, <1>3, <1>4, <1>11, AccountStep
<1>13. QED
  BY <1>5, <1>6, <1>7, <1>8, <1>9, <1>10, <1>11, <1>12
  DEF Step, SendStep, HandOver, Cancel, Close, CloseReturns, Environment,
      Replicate, ReplicateRecord, brokerVars, historyVars, vars

\* A call never stores its event more often than it may try: however answers are
\* lost, requests delayed and leaders replaced, a consumer sees at most
\* 1 + Retry.Max copies for every call sarama admitted.
THEOREM CopiesAreBounded == Spec => []CopiesBounded
<1>1. Init => AttemptsCounted
  <2> SUFFICES ASSUME Init, NEW e \in Event
               PROVE  Copies(e) + late[e] + Cardinality(Left(e))
                         <= sends[e] * (MaxRetries + 1)
    BY DEF AttemptsCounted
  <2>1. Left(e) = {}
    BY DEF Init, Left, MayStore
  <2>2. {i \in 1..Len(log[PartitionOf(e)]) : log[PartitionOf(e)][i] = e} = {}
    <3>1. log[PartitionOf(e)] = << >>
      BY PartitionOfType DEF Init, BrokerInit
    <3>2. QED
      BY <3>1
  <2>3. Cardinality(Left(e)) = 0 /\ Copies(e) = 0
    BY <2>1, <2>2, FS_EmptySet DEF Copies
  <2>4. late[e] = 0 /\ sends[e] = 0
    BY DEF Init
  <2>5. QED
    BY <2>3, <2>4, MaxRetriesAssumption
<1>2. TypeOK /\ AttemptsCounted => CopiesBounded
  <2> SUFFICES ASSUME TypeOK, NEW e \in Event,
                      Copies(e) + late[e] + Cardinality(Left(e))
                         <= sends[e] * (MaxRetries + 1)
               PROVE  Copies(e) + late[e] <= sends[e] * (MaxRetries + 1)
    BY DEF AttemptsCounted, CopiesBounded
  <2>1. Copies(e) \in Nat /\ late[e] \in Nat /\ sends[e] \in Nat
    BY CopiesType DEF TypeOK
  <2>2. Cardinality(Left(e)) \in Nat
    BY AttemptSets DEF Left
  <2>3. sends[e] * (MaxRetries + 1) \in Nat
    BY <2>1, MaxRetriesAssumption
  <2>4. QED
    BY <2>1, <2>2, <2>3
<1>3. TypeOK /\ AttemptsCounted /\ [Step]_vars => AttemptsCounted'
  BY AttemptsStep
<1>4. QED
  BY <1>1, <1>2, <1>3, InitTypeOK, TypeStep, NextIsStep, PTL DEF Spec
=============================================================================
