--------------------------- MODULE FactStoreProofs ---------------------------
(***************************************************************************)
(* Proofs about FactStore: the types, the answers, the updates kept, the   *)
(* progress behind a conflict, and that it implements AtomicStore.         *)
(***************************************************************************)
EXTENDS FactStore, SequenceTheorems, TLAPS

Asked(q) == work[q].status

\* The row is a history of distinct mutations, counted by its revision.
RowSound ==
  /\ Len(stored.value) = stored.revision
  /\ \A i, j \in 1..Len(stored.value) : stored.value[i] = stored.value[j] => i = j

\* Each kind of store has its own states of work.
KindSound ==
  \A q \in Calls :
    /\ kind = "cas" => Asked(q) \notin {"queued", "begun", "refused", "failed"}
    /\ kind = "sqlite" => Asked(q) \notin {"sent", "stale"}

\* A mutation is in the row just when its thread or write got through.
SavedSound == \A q \in Calls : Applied(q) <=> Asked(q) = "saved"

\* What was read for a conditional write is the row until the version moves.
SentSound ==
  \A q \in Calls : Asked(q) = "sent" =>
    /\ work[q].read.revision <= stored.revision
    /\ work[q].read.revision = stored.revision =>
         work[q].read = stored /\ Accepts(q, stored.value)

\* A transaction has the file for itself.
BegunSound ==
  \A q \in Calls : Asked(q) = "begun" =>
    /\ work[q].read = stored
    /\ \A r \in Calls : Asked(r) = "begun" => r = q

\* A call and what was asked for it go together.
CallSound ==
  \A q \in Calls :
    /\ call[q].pc = "ok" => Asked(q) = "saved"
    /\ call[q].pc \in {"new", "waiting"} => Asked(q) \in {"none", "stale"}
    /\ call[q].pc = "conflict" => Asked(q) = "stale"
    /\ call[q].pc \in {"refused", "failed"} =>
         Asked(q) \in {"none", "stale", "refused", "failed"}

\* Every lost try of a call was another mutation's success.
TriesSound ==
  \A q \in Calls :
    /\ call[q].pc \in {"new", "waiting"} => call[q].tries < MaxTries
    /\ call[q].pc = "conflict" => call[q].tries = MaxTries
    /\ Asked(q) = "sent" =>
         work[q].read.revision + 1 >= call[q].since + call[q].tries
    /\ Asked(q) \in {"none", "stale", "queued", "begun"} =>
         stored.revision >= call[q].since + call[q].tries

IInv ==
  /\ TypeOK
  /\ RowSound
  /\ KindSound
  /\ SavedSound
  /\ SentSound
  /\ BegunSound
  /\ CallSound
  /\ TriesSound
-----------------------------------------------------------------------------
LEMMA InitInv == Init => IInv
<1>. SUFFICES ASSUME Init PROVE IInv
  OBVIOUS
<1>1. <<>> \in Seq(Calls) /\ Len(<<>>) = 0
  OBVIOUS
<1>2. Fresh \in Rows
  BY <1>1 DEF Fresh, Rows, Values
<1>3. TypeOK
  BY <1>1, <1>2, TriesAssumption DEF Init, TypeOK, Works, Values
<1>4. ~\E q \in Calls : Applied(q)
  BY <1>1 DEF Init, Applied, Fresh
<1>. QED
  BY <1>1, <1>3, <1>4, TriesAssumption
  DEF Init, IInv, RowSound, KindSound, SavedSound, SentSound, BegunSound,
      CallSound, TriesSound, Asked, Fresh

-----------------------------------------------------------------------------
(* The line for a lock.                                                    *)

LEMMA WithoutType ==
  ASSUME NEW q, NEW calls \in Seq(Calls)
  PROVE  Without(q, calls) \in Seq(Calls)
<1>1. CASE \E i \in 1..Len(calls) : calls[i] = q
  <2>. DEFINE i == CHOOSE i \in 1..Len(calls) : calls[i] = q
  <2>1. i \in 1..Len(calls)
    BY <1>1, Zenon
  <2>a. i \in Int /\ \A j \in 1..Len(calls) : calls[j] \in Calls
    BY <2>1
  <2>. HIDE DEF i
  <2>2. SubSeq(calls, 1, i - 1) \in Seq(Calls)
    <3>1. \A j \in 1..(i - 1) : calls[j] \in Calls
      BY <2>1, <2>a
    <3>. QED
      BY <2>a, <3>1, SubSeqProperties
  <2>3. SubSeq(calls, i + 1, Len(calls)) \in Seq(Calls)
    <3>1. \A j \in (i + 1)..Len(calls) : calls[j] \in Calls
      BY <2>1, <2>a
    <3>. QED
      BY <2>a, <3>1, SubSeqProperties
  <2>. QED
    BY <1>1, <2>2, <2>3, ConcatProperties DEF Without, i
<1>2. CASE ~\E i \in 1..Len(calls) : calls[i] = q
  BY <1>2 DEF Without
<1>. QED
  BY <1>1, <1>2

Pcs == {"new", "waiting", "trying", "ok", "refused", "conflict", "failed",
        "unknown"}
CallRecords == [pc : Pcs, tries : 0..MaxTries, since : Nat]

LEMMA EndShape ==
  ASSUME TypeOK, NEW q \in Calls, NEW pc \in Pcs, End(q, pc)
  PROVE  /\ line' \in [Processes -> Values]
         /\ call' \in [Calls -> CallRecords]
         /\ call'[q].pc = pc
         /\ call'[q].tries = call[q].tries
         /\ call'[q].since = call[q].since
         /\ \A r \in Calls : r # q => call'[r] = call[r]
<1>. DEFINE p == ProcessOf[q]
<1>1. p \in Processes
  BY CallAssumption
<1>2. line[p] \in Seq(Calls)
  BY <1>1 DEF TypeOK, Values
<1>3. Without(q, line[p]) \in Seq(Calls)
  BY <1>2, WithoutType
<1>. QED
  BY <1>1, <1>3 DEF End, TypeOK, Values, CallRecords, Pcs

-----------------------------------------------------------------------------
(* Steps that change only where calls are.                                 *)

\* Where call q may be, given what was asked for it.
PcFits(q, pc) ==
  /\ pc = "ok" => Asked(q) = "saved"
  /\ pc \in {"new", "waiting"} =>
       Asked(q) \in {"none", "stale"} /\ call[q].tries < MaxTries
  /\ pc = "conflict" => Asked(q) = "stale" /\ call[q].tries = MaxTries
  /\ pc \in {"refused", "failed"} =>
       Asked(q) \in {"none", "stale", "refused", "failed"}

LEMMA CallStep ==
  ASSUME IInv, UNCHANGED <<kind, stored, work>>,
         NEW q \in Calls, NEW pc \in Pcs, PcFits(q, pc),
         line' \in [Processes -> Values],
         call' \in [Calls -> CallRecords],
         call'[q].pc = pc,
         call'[q].tries = call[q].tries,
         call'[q].since = call[q].since,
         \A r \in Calls : r # q => call'[r] = call[r]
  PROVE  IInv'
<1>1. TypeOK'
  BY DEF IInv, TypeOK, CallRecords, Pcs
<1>2. RowSound' /\ KindSound' /\ SavedSound' /\ SentSound' /\ BegunSound'
  BY DEF IInv, RowSound, KindSound, SavedSound, SentSound, BegunSound, Asked,
         Applied
<1>3. CallSound'
  BY DEF IInv, CallSound, PcFits, Asked
<1>4. TriesSound'
  BY DEF IInv, TriesSound, PcFits, Asked
<1>. QED
  BY <1>1, <1>2, <1>3, <1>4 DEF IInv

LEMMA EndStep ==
  ASSUME IInv, UNCHANGED <<kind, stored, work>>,
         NEW q \in Calls, NEW pc \in Pcs, PcFits(q, pc), End(q, pc)
  PROVE  IInv'
BY EndShape, CallStep DEF IInv

LEMMA MutateStep ==
  ASSUME IInv, NEW q \in Calls, Mutate(q)
  PROVE  IInv'
<1>1. ProcessOf[q] \in Processes
  BY CallAssumption
<1>2. line \in [Processes -> Seq(Calls)] /\ call \in [Calls -> CallRecords]
  BY DEF IInv, TypeOK, Values, CallRecords, Pcs
<1>3. Append(line[ProcessOf[q]], q) \in Seq(Calls)
  BY <1>1, <1>2
<1>4. PcFits(q, "waiting") /\ PcFits(q, "refused")
  BY DEF Mutate, PcFits, IInv, CallSound, TriesSound
<1>5. CASE ProcessOf[q] \in ReadOnly
  <2>1. line' \in [Processes -> Values] /\ call' \in [Calls -> CallRecords]
    BY <1>2, <1>5 DEF Mutate, Values, CallRecords, Pcs
  <2>2. /\ call'[q].pc = "refused" /\ call'[q].tries = call[q].tries
        /\ call'[q].since = call[q].since
        /\ \A r \in Calls : r # q => call'[r] = call[r]
    BY <1>2, <1>5 DEF Mutate, CallRecords
  <2>3. "refused" \in Pcs /\ UNCHANGED <<kind, stored, work>>
    BY DEF Mutate, Pcs
  <2>. QED
    BY <1>4, <2>1, <2>2, <2>3, CallStep
<1>6. CASE ProcessOf[q] \notin ReadOnly
  <2>a. line' = [line EXCEPT ![ProcessOf[q]] = Append(line[ProcessOf[q]], q)]
    BY <1>6 DEF Mutate
  <2>b. line' \in [Processes -> Values]
    BY <1>1, <1>2, <1>3, <2>a, Zenon DEF Values
  <2>c. call' \in [Calls -> CallRecords]
    BY <1>2, <1>6 DEF Mutate, CallRecords, Pcs
  <2>1. line' \in [Processes -> Values] /\ call' \in [Calls -> CallRecords]
    BY <2>b, <2>c
  <2>2. /\ call'[q].pc = "waiting" /\ call'[q].tries = call[q].tries
        /\ call'[q].since = call[q].since
        /\ \A r \in Calls : r # q => call'[r] = call[r]
    BY <1>2, <1>6 DEF Mutate, CallRecords
  <2>3. "waiting" \in Pcs /\ UNCHANGED <<kind, stored, work>>
    BY DEF Mutate, Pcs
  <2>. QED
    BY <1>4, <2>1, <2>2, <2>3, CallStep
<1>. QED
  BY <1>5, <1>6

LEMMA StaleStep ==
  ASSUME IInv, NEW q \in Calls, Stale(q)
  PROVE  IInv'
<1>1. line \in [Processes -> Values] /\ call \in [Calls -> CallRecords]
  BY DEF IInv, TypeOK, CallRecords, Pcs
<1>2. CASE call[q].tries < MaxTries
  <2>1. PcFits(q, "waiting")
    BY <1>2 DEF Stale, PcFits, Asked
  <2>2. line' \in [Processes -> Values] /\ call' \in [Calls -> CallRecords]
    BY <1>1, <1>2 DEF Stale, CallRecords, Pcs
  <2>3. /\ call'[q].pc = "waiting" /\ call'[q].tries = call[q].tries
        /\ call'[q].since = call[q].since
        /\ \A r \in Calls : r # q => call'[r] = call[r]
    BY <1>1, <1>2 DEF Stale, CallRecords
  <2>. QED
    BY <2>1, <2>2, <2>3, CallStep DEF Stale, Pcs
<1>3. CASE ~(call[q].tries < MaxTries)
  <2>1. PcFits(q, "conflict")
    BY <1>1, <1>3, TriesAssumption DEF Stale, PcFits, Asked, CallRecords
  <2>. QED
    BY <1>3, <2>1, EndStep DEF Stale, Pcs
<1>. QED
  BY <1>2, <1>3

LEMMA CallerSteps ==
  ASSUME IInv, NEW q \in Calls,
         Cancel(q) \/ NoAnswer(q) \/ Raise(q) \/ Unreadable(q) \/ Return(q)
  PROVE  IInv'
<1>1. CASE Cancel(q)
  <2>1. PcFits(q, "unknown") /\ (call[q].pc = "waiting" => PcFits(q, "failed"))
    BY <1>1 DEF PcFits, IInv, CallSound
  <2>. QED
    BY <1>1, <2>1, EndStep DEF Cancel, Pcs
<1>2. CASE NoAnswer(q)
  BY <1>2, EndStep DEF NoAnswer, PcFits, Pcs
<1>3. CASE Raise(q)
  <2>1. PcFits(q, "refused")
    BY <1>3 DEF Raise, Holds, PcFits, IInv, CallSound
  <2>. QED
    BY <1>3, <2>1, EndStep DEF Raise, Pcs
<1>4. CASE Unreadable(q)
  <2>1. PcFits(q, "failed")
    BY <1>4 DEF Unreadable, Holds, PcFits, IInv, CallSound
  <2>. QED
    BY <1>4, <2>1, EndStep DEF Unreadable, Pcs
<1>5. CASE Return(q)
  <2>. DEFINE pc == IF Asked(q) = "saved" THEN "ok" ELSE Asked(q)
  <2>1. PcFits(q, pc) /\ pc \in Pcs
    BY <1>5 DEF Return, PcFits, Pcs, Asked
  <2>. QED
    BY <1>5, <2>1, EndStep DEF Return, Asked
<1>. QED
  BY <1>1, <1>2, <1>3, <1>4, <1>5

-----------------------------------------------------------------------------
(* Steps that ask the store or a thread, or let it end without a mutation. *)

LEMMA WriteStep ==
  ASSUME IInv, NEW q \in Calls, Write(q)
  PROVE  IInv'
<1>. USE DEF Asked
<1>1. /\ work' \in [Calls -> Works]
      /\ work'[q].status = "sent" /\ work'[q].read = stored
      /\ \A r \in Calls : r # q => work'[r] = work[r]
  BY DEF Write, IInv, TypeOK, Works
<1>2. call[q].tries \in Nat /\ call[q].tries < MaxTries /\ call[q].since \in Nat
  BY DEF Write, Holds, IInv, TypeOK, TriesSound
<1>3. stored.revision \in Nat
  BY DEF IInv, TypeOK, Rows
<1>4. /\ call' \in [Calls -> CallRecords]
      /\ call'[q].pc = "trying" /\ call'[q].tries = call[q].tries + 1
      /\ call'[q].since =
           IF call[q].tries = 0 THEN stored.revision ELSE call[q].since
      /\ \A r \in Calls : r # q => call'[r] = call[r]
  BY <1>2, <1>3, TriesAssumption
  DEF Write, Tried, IInv, TypeOK, CallRecords, Pcs
<1>5. UNCHANGED <<kind, stored, line>> /\ kind = "cas" /\ Accepts(q, stored.value)
  BY DEF Write
<1>6. Asked(q) \in {"none", "stale"}
  BY DEF Write, Holds, IInv, CallSound
<1>7. stored.revision >= call[q].since + call[q].tries
  BY <1>6 DEF IInv, TriesSound
<1>8. TypeOK'
  BY <1>1, <1>4, <1>5 DEF IInv, TypeOK, CallRecords, Pcs
<1>9. RowSound' /\ KindSound' /\ SavedSound'
  BY <1>1, <1>5, <1>6 DEF IInv, RowSound, KindSound, SavedSound, Applied
<1>10. SentSound' /\ BegunSound'
  BY <1>1, <1>3, <1>5, <1>6 DEF IInv, SentSound, BegunSound, KindSound
<1>11. CallSound'
  BY <1>1, <1>4 DEF IInv, CallSound
<1>12. TriesSound'
  BY <1>1, <1>2, <1>3, <1>4, <1>5, <1>7 DEF IInv, TriesSound
<1>. QED
  BY <1>8, <1>9, <1>10, <1>11, <1>12 DEF IInv

LEMMA StartThreadStep ==
  ASSUME IInv, NEW q \in Calls, StartThread(q)
  PROVE  IInv'
<1>. USE DEF Asked
<1>1. /\ work' \in [Calls -> Works]
      /\ work'[q].status = "queued"
      /\ \A r \in Calls : r # q => work'[r] = work[r]
  BY DEF StartThread, IInv, TypeOK, Works
<1>2. /\ call' \in [Calls -> CallRecords]
      /\ call'[q].pc = "trying" /\ call'[q].tries = call[q].tries
      /\ call'[q].since = call[q].since
      /\ \A r \in Calls : r # q => call'[r] = call[r]
  BY DEF StartThread, IInv, TypeOK, CallRecords, Pcs
<1>3. UNCHANGED <<kind, stored, line>> /\ kind = "sqlite"
  BY DEF StartThread
<1>4. Asked(q) \in {"none", "stale"}
  BY DEF StartThread, Holds, IInv, CallSound
<1>5. TypeOK'
  BY <1>1, <1>2, <1>3 DEF IInv, TypeOK, CallRecords, Pcs
<1>6. RowSound' /\ KindSound' /\ SavedSound'
  BY <1>1, <1>3, <1>4 DEF IInv, RowSound, KindSound, SavedSound, Applied
<1>7. SentSound' /\ BegunSound'
  BY <1>1, <1>3, <1>4 DEF IInv, SentSound, BegunSound
<1>8. CallSound'
  BY <1>1, <1>2 DEF IInv, CallSound
<1>9. TriesSound'
  BY <1>1, <1>2, <1>3, <1>4 DEF IInv, TriesSound
<1>. QED
  BY <1>5, <1>6, <1>7, <1>8, <1>9 DEF IInv

\* The work of q ends without a mutation, or a thread gets the file.
LEMMA WorkStep ==
  ASSUME IInv, UNCHANGED <<kind, stored, line, call>>,
         NEW q \in Calls, NEW now \in {"stale", "failed", "refused", "begun"},
         work' \in [Calls -> Works],
         work'[q].status = now,
         \A r \in Calls : r # q => work'[r] = work[r],
         work[q].status \in {"sent", "queued", "begun"},
         now = "stale" => kind = "cas" /\ work[q].status = "sent"
                            /\ work[q].read.revision # stored.revision,
         now # "stale" => kind = "sqlite",
         now = "begun" => work'[q].read = stored /\ ~Locked
                            /\ work[q].status = "queued"
  PROVE  IInv'
<1>. USE DEF Asked
<1>1. TypeOK'
  BY DEF IInv, TypeOK
<1>2. RowSound' /\ KindSound' /\ SavedSound'
  BY DEF IInv, RowSound, KindSound, SavedSound, Applied
<1>3. SentSound'
  BY DEF IInv, SentSound
<1>4. BegunSound'
  BY DEF IInv, BegunSound, Locked
<1>5. CallSound'
  BY DEF IInv, CallSound
<1>6. TriesSound'
  <2>1. /\ stored.revision \in Nat /\ work[q].read.revision \in Nat
        /\ call[q].since \in Nat /\ call[q].tries \in Nat
    BY DEF IInv, TypeOK, Rows, Works
  <2>2. now = "stale" => stored.revision >= call[q].since + call[q].tries
    BY <2>1 DEF IInv, SentSound, TriesSound
  <2>3. now = "begun" => stored.revision >= call[q].since + call[q].tries
    BY <2>1 DEF IInv, TriesSound
  <2>. QED
    BY <2>2, <2>3 DEF IInv, TriesSound
<1>. QED
  BY <1>1, <1>2, <1>3, <1>4, <1>5, <1>6 DEF IInv

LEMMA ThreadSteps ==
  ASSUME IInv, NEW q \in Calls, Begin(q) \/ Busy(q) \/ Rollback(q)
  PROVE  IInv'
<1>. USE DEF Asked
<1>1. kind = "sqlite"
  BY DEF Begin, Busy, Rollback, IInv, TypeOK, KindSound
<1>2. stored \in Rows /\ work \in [Calls -> Works]
  BY DEF IInv, TypeOK
<1>3. CASE Begin(q)
  <2>1. /\ work' \in [Calls -> Works] /\ work'[q].status = "begun"
        /\ work'[q].read = stored
        /\ \A r \in Calls : r # q => work'[r] = work[r]
    BY <1>2, <1>3 DEF Begin, Works
  <2>. QED
    BY <1>1, <1>3, <2>1, WorkStep DEF Begin
<1>4. CASE Busy(q)
  <2>1. /\ work' \in [Calls -> Works] /\ work'[q].status = "failed"
        /\ \A r \in Calls : r # q => work'[r] = work[r]
    BY <1>2, <1>4 DEF Busy, Works
  <2>. QED
    BY <1>1, <1>4, <2>1, WorkStep DEF Busy
<1>5. CASE Rollback(q)
  <2>. DEFINE now == IF Accepts(q, work[q].read.value) THEN "failed" ELSE "refused"
  <2>1. /\ work' \in [Calls -> Works] /\ work'[q].status = now
        /\ \A r \in Calls : r # q => work'[r] = work[r]
    BY <1>2, <1>5 DEF Rollback, Works
  <2>. QED
    BY <1>1, <1>5, <2>1, WorkStep DEF Rollback
<1>. QED
  BY <1>3, <1>4, <1>5

-----------------------------------------------------------------------------
(* The two steps that change the row.                                      *)

LEMMA MutatedRow ==
  ASSUME IInv, NEW q \in Calls, ~Applied(q)
  PROVE  LET row == Mutated(stored, q) IN
         /\ row \in Rows
         /\ row.revision = stored.revision + 1
         /\ Len(row.value) = Len(stored.value) + 1
         /\ \A i \in 1..Len(stored.value) : row.value[i] = stored.value[i]
         /\ row.value[Len(row.value)] = q
<1>1. stored.value \in Seq(Calls) /\ stored.revision \in Nat
  BY DEF IInv, TypeOK, Rows, Values
<1>. QED
  BY <1>1, AppendProperties DEF Mutated, Rows, Values

LEMMA SavedStep ==
  ASSUME IInv, UNCHANGED <<kind, line, call>>, NEW q \in Calls,
         work[q].status \in {"sent", "begun"},
         work[q].read = stored,
         stored' = Mutated(stored, q),
         work' = [work EXCEPT ![q].status = "saved"]
  PROVE  IInv'
<1>. USE DEF Asked
<1>1. /\ work' \in [Calls -> Works]
      /\ work'[q].status = "saved"
      /\ \A r \in Calls : work'[r].read = work[r].read
      /\ \A r \in Calls : r # q => work'[r] = work[r]
  BY DEF IInv, TypeOK, Works
<1>2. ~Applied(q)
  BY DEF IInv, SavedSound
<1>3. /\ stored' \in Rows
      /\ stored'.revision = stored.revision + 1
      /\ Len(stored'.value) = Len(stored.value) + 1
      /\ \A i \in 1..Len(stored.value) : stored'.value[i] = stored.value[i]
      /\ stored'.value[Len(stored'.value)] = q
  BY <1>2, MutatedRow
<1>4. Len(stored.value) \in Nat /\ stored.revision \in Nat
  BY DEF IInv, TypeOK, Rows, Values
<1>5. TypeOK'
  BY <1>1, <1>3 DEF IInv, TypeOK
<1>6. RowSound'
  <2>1. \A i \in 1..Len(stored.value) : stored.value[i] # q
    BY <1>2 DEF Applied
  <2>2. Len(stored'.value) = stored'.revision
    BY <1>3 DEF IInv, RowSound
  <2>3. ASSUME NEW i \in 1..Len(stored'.value), NEW j \in 1..Len(stored'.value),
               stored'.value[i] = stored'.value[j]
        PROVE  i = j
    <3>1. CASE i = Len(stored'.value) \/ j = Len(stored'.value)
      BY <1>3, <1>4, <2>1, <2>3, <3>1
    <3>2. CASE i # Len(stored'.value) /\ j # Len(stored'.value)
      <4>1. i \in 1..Len(stored.value) /\ j \in 1..Len(stored.value)
        BY <1>3, <1>4, <3>2
      <4>2. stored.value[i] = stored.value[j]
        BY <1>3, <2>3, <4>1
      <4>. QED
        BY <4>1, <4>2 DEF IInv, RowSound
    <3>. QED
      BY <3>1, <3>2
  <2>. QED
    BY <2>2, <2>3 DEF RowSound
<1>7. KindSound'
  BY <1>1 DEF IInv, KindSound
<1>8. SavedSound'
  <2>1. ASSUME NEW r \in Calls
        PROVE  Applied(r)' <=> (Applied(r) \/ r = q)
    BY <1>3, <1>4 DEF Applied
  <2>. QED
    BY <1>1, <2>1 DEF IInv, SavedSound
<1>9. SentSound'
  <2>. SUFFICES ASSUME NEW r \in Calls, work'[r].status = "sent"
       PROVE  /\ work'[r].read.revision <= stored'.revision
              /\ work'[r].read.revision # stored'.revision
    BY DEF SentSound
  <2>1. r # q /\ work[r].status = "sent"
    BY <1>1
  <2>2. work[r].read.revision <= stored.revision /\ work[r].read.revision \in Nat
    BY <2>1 DEF IInv, SentSound, TypeOK, Works, Rows
  <2>. QED
    BY <1>1, <1>3, <1>4, <2>2
<1>10. BegunSound'
  BY <1>1 DEF IInv, BegunSound, KindSound, TypeOK
<1>11. CallSound'
  BY <1>1 DEF IInv, CallSound
<1>12. TriesSound'
  BY <1>1, <1>3, <1>4 DEF IInv, TriesSound, TypeOK
<1>. QED
  BY <1>5, <1>6, <1>7, <1>8, <1>9, <1>10, <1>11, <1>12 DEF IInv

LEMMA ServeStep ==
  ASSUME IInv, NEW q \in Calls, Serve(q)
  PROVE  IInv'
<1>1. stored \in Rows /\ work \in [Calls -> Works]
  BY DEF IInv, TypeOK
<1>2. CASE stored.revision = work[q].read.revision
  <2>1. work[q].read = stored
    BY <1>2 DEF Serve, IInv, SentSound, Asked
  <2>. QED
    BY <1>2, <2>1, SavedStep DEF Serve
<1>3. CASE stored.revision # work[q].read.revision
  <2>1. /\ work' \in [Calls -> Works] /\ work'[q].status = "stale"
        /\ \A r \in Calls : r # q => work'[r] = work[r]
    BY <1>1, <1>3 DEF Serve, Works
  <2>. QED
    BY <1>3, <2>1, WorkStep DEF Serve
<1>. QED
  BY <1>2, <1>3

LEMMA CommitStep ==
  ASSUME IInv, NEW q \in Calls, Commit(q)
  PROVE  IInv'
<1>1. work[q].read = stored
  BY DEF Commit, IInv, BegunSound, Asked
<1>. QED
  BY <1>1, SavedStep DEF Commit

-----------------------------------------------------------------------------
(* The death of a process.                                                 *)

LEMMA DieStep ==
  ASSUME IInv, NEW p \in Processes, Die(p)
  PROVE  IInv'
<1>. USE DEF Asked
<1>1. /\ line' \in [Processes -> Values]
      /\ call' \in [Calls -> CallRecords]
      /\ work' \in [Calls -> Works]
      /\ UNCHANGED <<kind, stored>>
  <2>1. line' \in [Processes -> Values]
    BY DEF Die, IInv, TypeOK, Values
  <2>2. call' \in [Calls -> CallRecords]
    BY DEF Die, IInv, TypeOK, CallRecords, Pcs
  <2>3. work' \in [Calls -> Works]
    BY DEF Die, IInv, TypeOK, Works
  <2>. QED
    BY <2>1, <2>2, <2>3 DEF Die
<1>2. \A q \in Calls :
        /\ call'[q].tries = call[q].tries /\ call'[q].since = call[q].since
        /\ \/ call'[q] = call[q]
           \/ call[q].pc = "waiting" /\ call'[q].pc = "failed"
           \/ call[q].pc = "trying" /\ call'[q].pc = "unknown"
  BY DEF Die, IInv, TypeOK
<1>3. \A q \in Calls :
        \/ work'[q] = work[q]
        \/ /\ work[q].status \in {"queued", "begun"}
           /\ work'[q].status = "none" /\ work'[q].read = work[q].read
  BY DEF Die, IInv, TypeOK, Works
<1>4. TypeOK'
  BY <1>1 DEF IInv, TypeOK, CallRecords, Pcs
<1>5. RowSound' /\ KindSound'
  BY <1>1, <1>3 DEF IInv, RowSound, KindSound
<1>6. SavedSound'
  BY <1>1, <1>3 DEF IInv, SavedSound, Applied
<1>7. SentSound' /\ BegunSound'
  BY <1>1, <1>3 DEF IInv, SentSound, BegunSound
<1>8. CallSound'
  BY <1>2, <1>3 DEF IInv, CallSound
<1>9. TriesSound'
  BY <1>1, <1>2, <1>3 DEF IInv, TriesSound
<1>. QED
  BY <1>4, <1>5, <1>6, <1>7, <1>8, <1>9 DEF IInv

-----------------------------------------------------------------------------
LEMMA NextInv == IInv /\ [Next]_vars => IInv'
<1>. SUFFICES ASSUME IInv, [Next]_vars PROVE IInv'
  OBVIOUS
<1>1. ASSUME NEW q \in Calls,
             Mutate(q) \/ Progress(q) \/ Serve(q) \/ Unreadable(q) \/ Cancel(q)
      PROVE  IInv'
  BY <1>1, MutateStep, StaleStep, CallerSteps, WriteStep, StartThreadStep,
     ThreadSteps, ServeStep, CommitStep DEF Progress
<1>2. ASSUME NEW p \in Processes, Die(p) PROVE IInv'
  BY <1>2, DieStep
<1>3. CASE UNCHANGED vars
  BY <1>3 DEF vars, IInv, TypeOK, RowSound, KindSound, SavedSound, SentSound,
              BegunSound, CallSound, TriesSound, Asked, Applied
<1>. QED
  BY <1>1, <1>2, <1>3 DEF Next

\* The inductive invariant of the store.
THEOREM StoreInvariance == Spec => []IInv
BY InitInv, NextInv, PTL DEF Spec

\* The values of the state of Store.mutate are those the code writes, and no
\* call tries more often than its bound.
THEOREM StoreTypeCorrect == Spec => []TypeOK
<1>1. IInv => TypeOK
  BY DEF IInv
<1>. QED
  BY <1>1, StoreInvariance, PTL

\* What a caller of Store.mutate is told is true, for any number of calls and
\* processes, whatever is cancelled, late or lost.
THEOREM TrueAnswers == Spec => []AnswersAreTrue
<1>1. IInv => AnswersAreTrue
  BY DEF IInv, AnswersAreTrue, SavedSound, CallSound
<1>. QED
  BY <1>1, StoreInvariance, PTL

\* A call of Store.mutate that gives up for conflicts lost each of its tries
\* to another mutation.
THEOREM ProgressBehindConflict == Spec => []ConflictMeansProgress
<1>1. IInv => ConflictMeansProgress
  BY DEF IInv, ConflictMeansProgress, TriesSound, CallSound, Asked
<1>. QED
  BY <1>1, StoreInvariance, PTL

LEMMA RowStep ==
  ASSUME IInv, NEW q \in Calls, Serve(q) \/ Commit(q), stored' # stored
  PROVE  /\ ~Applied(q)
         /\ Accepts(q, stored.value)
         /\ stored' = Mutated(stored, q)
         /\ call[q].pc \in {"trying", "unknown"}
         /\ UNCHANGED call
<1>. USE DEF Asked
<1>1. CASE Serve(q)
  <2>1. stored.revision = work[q].read.revision /\ work[q].status = "sent"
    BY <1>1 DEF Serve
  <2>2. work[q].read = stored /\ Accepts(q, stored.value)
    BY <2>1 DEF IInv, SentSound
  <2>. QED
    BY <1>1, <2>1, <2>2
    DEF Serve, IInv, SavedSound, CallSound, TypeOK
<1>2. CASE Commit(q)
  <2>1. work[q].read = stored
    BY <1>2 DEF Commit, IInv, BegunSound
  <2>. QED
    BY <1>2, <2>1 DEF Commit, IInv, SavedSound, CallSound, TypeOK
<1>. QED
  BY <1>1, <1>2

\* No update of the shared state is lost or happens twice.
THEOREM KeptUpdates == Spec => UpdatesKept
<1>1. ASSUME IInv, [Next]_vars, stored' # stored
      PROVE  \E q \in Calls : ~Applied(q) /\ stored' = Mutated(stored, q)
  <2>1. PICK q \in Calls : Serve(q) \/ Commit(q)
    BY <1>1 DEF Next, vars, Mutate, Progress, Write, NoAnswer, Raise, Stale,
                StartThread, Begin, Busy, Rollback, Return, Unreadable, Cancel,
                Die
  <2>. QED
    BY <1>1, <2>1, RowStep
<1>2. IInv /\ [Next]_vars =>
        [stored' # stored =>
           \E q \in Calls : ~Applied(q) /\ stored' = Mutated(stored, q)]_vars
  BY <1>1
<1>. QED
  BY <1>2, StoreInvariance, PTL DEF Spec, UpdatesKept

-----------------------------------------------------------------------------
(* Store.mutate implements AtomicStore.                                    *)

Outcomes == [q \in Calls |-> Outcome(q)]

\* What callers know after a step at one call that leaves the row alone.
LEMMA CallOutcome ==
  ASSUME IInv, IInv', stored' = stored, NEW q \in Calls,
         \A r \in Calls : r # q => call'[r] = call[r],
         \/ call'[q].pc = call[q].pc
         \/ call[q].pc \in {"new", "waiting", "trying"}
  PROVE  [Promise!StoreNext]_(Promise!storeVars)
<1>. USE DEF Asked
<1>1. \A r \in Calls : r # q => Outcome(r)' = Outcome(r)
  BY DEF Outcome
<1>2. call'[q].pc \in Pcs /\ call[q].pc \in Pcs
  BY DEF IInv, TypeOK, Pcs
<1>3. stored'.value = stored.value /\ Applied(q)' = Applied(q)
  BY DEF Applied
<1>4. CASE Outcome(q)' = Outcome(q)
  <2>1. Outcomes' = Outcomes
    BY <1>1, <1>4 DEF Outcomes
  <2>. QED
    BY <1>3, <2>1 DEF Outcomes, Promise!storeVars
<1>5. CASE Outcome(q)' # Outcome(q)
  <2>1. Outcome(q) = "open"
    BY <1>2, <1>5 DEF Outcome, Pcs
  <2>2. CASE call'[q].pc = "ok"
    <3>1. Applied(q)
      BY <1>3, <2>2 DEF IInv, CallSound, SavedSound
    <3>2. Outcomes' = [Outcomes EXCEPT ![q] = "ok"]
      BY <1>1, <2>2 DEF Outcomes, Outcome
    <3>3. Promise!Succeed(q)
      BY <1>3, <2>1, <3>1, <3>2 DEF Promise!Succeed, Promise!Applied, Applied,
                                    Outcomes
    <3>. QED
      BY <3>3 DEF Promise!StoreNext
  <2>3. CASE call'[q].pc = "unknown"
    <3>1. Outcomes' = [r \in Calls |-> IF r \in {} THEN "no"
                         ELSE IF r \in {q} THEN "unknown" ELSE Outcomes[r]]
      BY <1>1, <2>3 DEF Outcomes, Outcome
    <3>2. Promise!Fail({}, {q})
      BY <1>3, <2>1, <3>1 DEF Promise!Fail, Outcomes
    <3>. QED
      BY <3>2 DEF Promise!StoreNext
  <2>4. CASE call'[q].pc \in {"refused", "conflict", "failed"}
    <3>1. ~Applied(q)
      BY <1>3, <2>4 DEF IInv, CallSound, SavedSound
    <3>2. Outcomes' = [r \in Calls |-> IF r \in {q} THEN "no"
                         ELSE IF r \in {} THEN "unknown" ELSE Outcomes[r]]
      BY <1>1, <2>4 DEF Outcomes, Outcome
    <3>3. Promise!Fail({q}, {})
      BY <1>3, <2>1, <3>1, <3>2 DEF Promise!Fail, Promise!Applied, Applied,
                                    Outcomes
    <3>. QED
      BY <3>3 DEF Promise!StoreNext
  <2>5. CASE call'[q].pc \in {"new", "waiting", "trying"}
    BY <1>5, <2>1, <2>5 DEF Outcome
  <2>. QED
    BY <1>2, <2>2, <2>3, <2>4, <2>5 DEF Pcs
<1>. QED
  BY <1>4, <1>5

LEMMA RowPromise ==
  ASSUME IInv, NEW q \in Calls, Serve(q) \/ Commit(q), stored' # stored
  PROVE  Promise!StoreNext
<1>1. /\ ~Applied(q) /\ Accepts(q, stored.value) /\ stored' = Mutated(stored, q)
      /\ call[q].pc \in {"trying", "unknown"} /\ UNCHANGED call
  BY RowStep
<1>2. stored'.value = Append(stored.value, q)
  BY <1>1 DEF Mutated
<1>3. Outcome(q) \in {"open", "unknown"}
  BY <1>1 DEF Outcome
<1>4. Outcomes' = Outcomes
  BY <1>1 DEF Outcomes, Outcome
<1>5. Promise!Apply(q)
  BY <1>1, <1>2, <1>3, <1>4 DEF Promise!Apply, Promise!Applied, Applied, Outcomes
<1>. QED
  BY <1>5 DEF Promise!StoreNext

LEMMA DiePromise ==
  ASSUME IInv, NEW p \in Processes, Die(p)
  PROVE  Promise!StoreNext
<1>. DEFINE refused == {q \in Calls : ProcessOf[q] = p /\ call[q].pc = "waiting"}
            lost == {q \in Calls : ProcessOf[q] = p /\ call[q].pc = "trying"}
<1>1. stored' = stored
  BY DEF Die
<1>2. Outcomes' = [q \in Calls |-> IF q \in refused THEN "no"
                     ELSE IF q \in lost THEN "unknown" ELSE Outcomes[q]]
  <2>1. ASSUME NEW q \in Calls
        PROVE  Outcome(q)' = IF q \in refused THEN "no"
                             ELSE IF q \in lost THEN "unknown" ELSE Outcome(q)
    BY DEF Die, Outcome, IInv, TypeOK
  <2>. QED
    BY <2>1 DEF Outcomes
<1>3. \A q \in refused : Outcomes[q] = "open" /\ ~Applied(q)
  BY DEF Outcomes, Outcome, IInv, CallSound, SavedSound, Asked
<1>4. \A q \in lost : Outcomes[q] = "open"
  BY DEF Outcomes, Outcome
<1>5. refused \in SUBSET Calls /\ lost \in SUBSET Calls
  OBVIOUS
<1>. HIDE DEF refused, lost
<1>6. Promise!Fail(refused, lost)
  BY <1>1, <1>2, <1>3, <1>4 DEF Promise!Fail, Promise!Applied, Applied, Outcomes
<1>. QED
  BY <1>5, <1>6 DEF Promise!StoreNext

\* A step at a call other than one that changes the row.
LEMMA QuietShape ==
  ASSUME IInv, stored' = stored, NEW q \in Calls,
         Mutate(q) \/ Progress(q) \/ Serve(q) \/ Unreadable(q) \/ Cancel(q)
  PROVE  /\ \A r \in Calls : r # q => call'[r] = call[r]
         /\ \/ call'[q].pc = call[q].pc
            \/ call[q].pc \in {"new", "waiting", "trying"}
<1>. USE DEF IInv, TypeOK
<1>1. CASE Mutate(q)
  BY <1>1 DEF Mutate
<1>2. CASE Write(q) \/ StartThread(q)
  BY <1>2 DEF Write, Tried, StartThread, Holds
<1>3. CASE Begin(q) \/ Busy(q) \/ Commit(q) \/ Rollback(q) \/ Serve(q)
  BY <1>3 DEF Begin, Busy, Commit, Rollback, Serve
<1>4. CASE NoAnswer(q) \/ Raise(q) \/ Unreadable(q) \/ Cancel(q) \/ Return(q)
  BY <1>4 DEF NoAnswer, Raise, Unreadable, Cancel, Return, End, Holds
<1>5. CASE Stale(q)
  BY <1>5 DEF Stale, End
<1>. QED
  BY <1>1, <1>2, <1>3, <1>4, <1>5 DEF Progress

\* Store.mutate, with its locks, tries, threads and lost answers, is to its
\* callers a sequence of atomic mutations.
THEOREM StoreImplements == Spec => KeepsPromise
<1>1. Init => Promise!StoreInit
  BY DEF Init, Fresh, Promise!StoreInit, Outcome
<1>2. IInv /\ IInv' /\ [Next]_vars => [Promise!StoreNext]_(Promise!storeVars)
  <2>. SUFFICES ASSUME IInv, IInv', [Next]_vars
       PROVE  [Promise!StoreNext]_(Promise!storeVars)
    OBVIOUS
  <2>1. ASSUME NEW q \in Calls,
               Mutate(q) \/ Progress(q) \/ Serve(q) \/ Unreadable(q) \/ Cancel(q)
        PROVE  [Promise!StoreNext]_(Promise!storeVars)
    <3>1. CASE stored' = stored
      BY <2>1, <3>1, QuietShape, CallOutcome
    <3>2. CASE stored' # stored
      <4>1. Serve(q) \/ Commit(q)
        BY <2>1, <3>2 DEF Mutate, Progress, Write, NoAnswer, Raise, Stale,
                          StartThread, Begin, Busy, Rollback, Return,
                          Unreadable, Cancel
      <4>. QED
        BY <3>2, <4>1, RowPromise
    <3>. QED
      BY <3>1, <3>2
  <2>2. ASSUME NEW p \in Processes, Die(p)
        PROVE  [Promise!StoreNext]_(Promise!storeVars)
    BY <2>2, DiePromise
  <2>3. CASE UNCHANGED vars
    BY <2>3 DEF vars, Promise!storeVars, Outcome
  <2>. QED
    BY <2>1, <2>2, <2>3 DEF Next
<1>. QED
  BY <1>1, <1>2, StoreInvariance, PTL DEF Spec, KeepsPromise, Promise!Spec
=============================================================================
