---------------------------- MODULE SliceJobsProofs ----------------------------
(***************************************************************************)
(* Background slicing: types, and that the browser shows and tells what    *)
(* the server did, for any slices, polls, failures, outages and restarts.  *)
(***************************************************************************)
EXTENDS SliceJobs, FiniteSetTheorems, SequenceTheorems, TLAPS

\* An id for each slice that the user may still ask for is left.
IdsLeft == nextId - 1 + Cardinality(waiting) <= Cardinality(Slices)

\* A slice is registered once, under an id that was dealt out, and its outcome is
\* the status of its job.
Registered ==
    /\ \A i \in Ids : slot[i] # NoSlice => i < nextId /\ slot[i] \notin waiting
    /\ \A i, k \in Ids : slot[i] = slot[k] /\ slot[i] # NoSlice => i = k
    /\ \A i \in Ids : slot[i] # NoSlice =>
            outcome[slot[i]] = IF status[i] = "running" THEN "none" ELSE status[i]
    /\ \A s \in waiting : outcome[s] = "none"

\* The jobs that the page waits for, or will when the response arrives.
Awaited == posted \cup ListOf(jobs)

\* What the browser knows of jobs, in a poll's snapshot also after their end.
Known == Awaited \cup ListOf(rendered) \cup UNION {ListOf(todo[p]) : p \in Polls}

\* An id that the browser knows names the same slice on the server, or none.
SameSlice == restarts = 0 => \A j \in Known : j.id < nextId /\ slot[j.id] \in {NoSlice, j.slice}

\* While the page is up, no job it waits for comes of age.
NoneOld == outages = 0 /\ restarts = 0 =>
    \A j \in Awaited : slot[j.id] = j.slice /\ ~old[j.id]

\* A job with a start time is tracked.
StartedIsTracked == started \subseteq IdsOf(jobs)

\* An answer is about the first job of its poll, and stays true.
AnswerHasSubject == \A p \in Polls : answer[p] # "none" => todo[p] # <<>>
AnswerIsTrue == restarts = 0 => \A p \in Polls :
    answer[p] \in Outcomes => outcome[Head(todo[p]).slice] = answer[p]

RInv == IdsLeft /\ Registered
BInv == StartedIsTracked /\ SpinnerIsTracked
AInv == SameSlice /\ NoneOld /\ AnswerHasSubject /\ AnswerIsTrue /\ Truthful
IInv == TypeOK /\ RInv /\ BInv /\ AInv

------------------------------------------------------------------------------
\* What the assumption on the constants gives.
LEMMA Constants ==
  /\ IsFiniteSet(Slices) /\ Archives \subseteq Slices /\ NoSlice \notin Slices
  /\ MaxFailures \in Nat /\ MaxOutages \in Nat /\ MaxRestarts \in Nat
  /\ Cardinality(Slices) \in Nat
BY SliceConstants, FS_CardinalityType

\* The members of a list, by position.
LEMMA Members == ASSUME NEW seq \in Seq(TrackedJob), NEW j
  PROVE j \in ListOf(seq) <=> \E k \in 1..Len(seq) : seq[k] = j
BY DEF ListOf

\* The members of a well-formed list are jobs with different ids.
LEMMA MembersDiffer == ASSUME NEW seq, Listed(seq)
  PROVE /\ ListOf(seq) \subseteq TrackedJob
        /\ \A j, l \in ListOf(seq) : j.id = l.id => j = l
BY DEF Listed, ListOf

\* trackJob of a new id appends the job.
LEMMA AppendListed == ASSUME NEW seq, Listed(seq), NEW j \in TrackedJob, j.id \notin IdsOf(seq)
  PROVE Listed(Append(seq, j)) /\ ListOf(Append(seq, j)) = ListOf(seq) \cup {j}
<1>1. seq \in Seq(TrackedJob) /\ Append(seq, j) \in Seq(TrackedJob)
  BY DEF Listed
<1>2. /\ Len(Append(seq, j)) = Len(seq) + 1 /\ Append(seq, j)[Len(seq) + 1] = j
      /\ \A k \in 1..Len(seq) : Append(seq, j)[k] = seq[k]
  BY <1>1
<1>3. \A k \in 1..Len(seq) : seq[k].id # j.id
  BY <1>1 DEF IdsOf, ListOf
<1>4. \A k, l \in 1..Len(seq) : seq[k].id = seq[l].id => k = l
  BY <1>1 DEF Listed
<1>5. \A k, l \in 1..(Len(seq) + 1) : Append(seq, j)[k].id = Append(seq, j)[l].id => k = l
  <2> SUFFICES ASSUME NEW k \in 1..(Len(seq) + 1), NEW l \in 1..(Len(seq) + 1),
                      Append(seq, j)[k].id = Append(seq, j)[l].id
               PROVE k = l
    OBVIOUS
  <2>1. Len(seq) \in Nat
    BY <1>1
  <2>2. (k \in 1..Len(seq) \/ k = Len(seq) + 1) /\ (l \in 1..Len(seq) \/ l = Len(seq) + 1)
    BY <2>1
  <2> QED
    BY <1>2, <1>3, <1>4, <2>2
<1>6. Listed(Append(seq, j))
  <2>1. DOMAIN Append(seq, j) = 1..(Len(seq) + 1)
    BY <1>1, <1>2
  <2> QED
    BY <1>1, <1>5, <2>1 DEF Listed
<1>7. ListOf(Append(seq, j)) = ListOf(seq) \cup {j}
  <2> SUFFICES ASSUME NEW x PROVE x \in ListOf(Append(seq, j)) <=> x \in ListOf(seq) \cup {j}
    OBVIOUS
  <2>1. 1..(Len(seq) + 1) = 1..Len(seq) \cup {Len(seq) + 1}
    BY <1>1
  <2>2. x \in ListOf(seq) <=> \E k \in 1..Len(seq) : seq[k] = x
    BY <1>1, Members
  <2>3. x \in ListOf(Append(seq, j)) <=> \E k \in 1..(Len(seq) + 1) : Append(seq, j)[k] = x
    BY <1>1, <1>2, Members
  <2> QED
    BY <1>2, <2>1, <2>2, <2>3
<1> QED
  BY <1>6, <1>7

\* A poll goes on with the rest of its snapshot.
LEMMA TailListed == ASSUME NEW seq, Listed(seq), seq # <<>>
  PROVE /\ Listed(Tail(seq)) /\ Head(seq) \in TrackedJob
        /\ Head(seq) \in ListOf(seq) /\ ListOf(Tail(seq)) \subseteq ListOf(seq)
<1>1. /\ seq \in Seq(TrackedJob) /\ Tail(seq) \in Seq(TrackedJob) /\ Len(seq) \in Nat \ {0}
      /\ Len(Tail(seq)) = Len(seq) - 1 /\ Head(seq) = seq[1]
      /\ \A k \in 1..(Len(seq) - 1) : Tail(seq)[k] = seq[k + 1]
  BY HeadTailProperties DEF Listed
<1>2. \A k \in 1..(Len(seq) - 1) : k + 1 \in 1..Len(seq)
  BY <1>1
<1>3. Listed(Tail(seq))
  <2>1. \A k, l \in 1..Len(seq) : seq[k].id = seq[l].id => k = l
    BY <1>1 DEF Listed
  <2>2. \A k, l \in 1..(Len(seq) - 1) : Tail(seq)[k].id = Tail(seq)[l].id => k = l
    BY <1>1, <1>2, <2>1
  <2>3. DOMAIN Tail(seq) = 1..(Len(seq) - 1)
    BY <1>1
  <2> QED
    BY <1>1, <2>2, <2>3 DEF Listed
<1>4. Head(seq) \in ListOf(seq) /\ Head(seq) \in TrackedJob
  BY <1>1, Members
<1>5. ASSUME NEW x \in ListOf(Tail(seq)) PROVE x \in ListOf(seq)
  <2>1. PICK k \in 1..(Len(seq) - 1) : Tail(seq)[k] = x
    BY <1>1, Members
  <2> QED
    BY <1>1, <1>2, <2>1, Members
<1> QED
  BY <1>3, <1>4, <1>5

\* The filter of completeJob drops the job of the id and keeps every other.
LEMMA WithoutListed == ASSUME NEW seq, Listed(seq), NEW id
  PROVE Listed(Without(seq, id)) /\ ListOf(Without(seq, id)) = {j \in ListOf(seq) : j.id # id}
<1>1. CASE id \notin IdsOf(seq)
  BY <1>1 DEF Without, IdsOf
<1>2. CASE id \in IdsOf(seq)
  <2> DEFINE at == CHOOSE k \in DOMAIN seq : seq[k].id = id
             n == Len(seq)
             rest == SubSeq(seq, 1, at - 1) \o SubSeq(seq, at + 1, n)
  <2>1. seq \in Seq(TrackedJob) /\ n \in Nat /\ DOMAIN seq = 1..n
    BY DEF Listed
  <2>2. \E k \in DOMAIN seq : seq[k].id = id
    BY <1>2 DEF IdsOf, ListOf
  <2>3. at \in 1..n /\ seq[at].id = id
    BY <2>1, <2>2
  <2>4. Without(seq, id) = rest
    BY <1>2 DEF Without
  <2> HIDE DEF at
  <2>5. \A k \in 1..n : seq[k] \in TrackedJob
    BY <2>1
  <2>6. /\ SubSeq(seq, 1, at - 1) \in Seq(TrackedJob) /\ Len(SubSeq(seq, 1, at - 1)) = at - 1
        /\ \A k \in 1..(at - 1) : SubSeq(seq, 1, at - 1)[k] = seq[k]
    BY <2>1, <2>3, <2>5, SubSeqProperties
  <2>7. /\ SubSeq(seq, at + 1, n) \in Seq(TrackedJob) /\ Len(SubSeq(seq, at + 1, n)) = n - at
        /\ \A k \in 1..(n - at) : SubSeq(seq, at + 1, n)[k] = seq[at + k]
    <3>1. at + 1 \in Int /\ n \in Int /\ \A k \in (at + 1)..n : seq[k] \in TrackedJob
      BY <2>1, <2>3, <2>5
    <3>2. /\ SubSeq(seq, at + 1, n) \in Seq(TrackedJob)
          /\ Len(SubSeq(seq, at + 1, n)) = IF at + 1 <= n THEN n - (at + 1) + 1 ELSE 0
          /\ \A k \in 1..(n - (at + 1) + 1) : SubSeq(seq, at + 1, n)[k] = seq[at + 1 + k - 1]
      BY <3>1, SubSeqProperties
    <3>3. n - (at + 1) + 1 = n - at /\ \A k \in 1..(n - at) : at + 1 + k - 1 = at + k
      BY <2>1, <2>3
    <3>4. (IF at + 1 <= n THEN n - (at + 1) + 1 ELSE 0) = n - at
      <4>1. n \in Nat /\ at \in Nat /\ at <= n
        BY <2>1, <2>3
      <4>2. CASE at = n
        BY <4>1, <4>2
      <4>3. CASE at + 1 <= n
        BY <3>3, <4>3
      <4> QED
        BY <4>1, <4>2, <4>3
    <3> DEFINE back == SubSeq(seq, at + 1, n)
    <3>5. back \in Seq(TrackedJob) /\ Len(back) = n - at
      BY <3>2, <3>4
    <3>6. \A k \in 1..(n - at) : back[k] = seq[at + 1 + k - 1]
      BY <3>2, <3>3
    <3> HIDE DEF back
    <3>7. \A k \in 1..(n - at) : back[k] = seq[at + k]
      BY <3>3, <3>6
    <3> QED
      BY <3>5, <3>7 DEF back
  <2>8. /\ rest \in Seq(TrackedJob) /\ Len(rest) = n - 1
        /\ \A k \in 1..(n - 1) : rest[k] = IF k < at THEN seq[k] ELSE seq[k + 1]
    <3> DEFINE front == SubSeq(seq, 1, at - 1)
               back == SubSeq(seq, at + 1, n)
    <3> HIDE DEF front, back
    <3>1. /\ front \o back \in Seq(TrackedJob) /\ Len(front \o back) = Len(front) + Len(back)
          /\ \A k \in 1..(Len(front) + Len(back)) :
                (front \o back)[k] = IF k <= Len(front) THEN front[k] ELSE back[k - Len(front)]
      BY <2>6, <2>7, ConcatProperties DEF front, back
    <3>2. Len(front) = at - 1 /\ Len(back) = n - at /\ Len(front) + Len(back) = n - 1
      <4>1. Len(front) = at - 1
        BY <2>6 DEF front
      <4>2. Len(back) = n - at
        BY <2>7 DEF back
      <4> QED
        BY <2>1, <2>3, <4>1, <4>2
    <3>3. ASSUME NEW k \in 1..(n - 1)
          PROVE (front \o back)[k] = IF k < at THEN seq[k] ELSE seq[k + 1]
      <4>1. CASE k < at
        <5>1. k <= at - 1 /\ k \in 1..(at - 1)
          BY <2>1, <2>3, <4>1
        <5> QED
          BY <2>6, <3>1, <3>2, <4>1, <5>1 DEF front
      <4>2. CASE ~(k < at)
        <5>1. k - (at - 1) \in 1..(n - at) /\ at + (k - (at - 1)) = k + 1 /\ ~(k <= at - 1)
          BY <2>1, <2>3, <4>2
        <5>2. back[k - (at - 1)] = seq[k + 1]
          BY <2>7, <5>1 DEF back
        <5> QED
          BY <3>1, <3>2, <4>2, <5>1, <5>2
      <4> QED
        BY <4>1, <4>2
    <3> QED
      BY <3>1, <3>2, <3>3 DEF front, back
  <2> HIDE DEF rest
  <2>9. \A k, l \in 1..n : seq[k].id = seq[l].id => k = l
    BY <2>1 DEF Listed
  <2>10. Listed(rest)
    <3>1. DOMAIN rest = 1..(n - 1)
      BY <2>8
    <3>2. \A k, l \in 1..(n - 1) : rest[k].id = rest[l].id => k = l
      BY <2>1, <2>3, <2>8, <2>9
    <3> QED
      BY <2>8, <3>1, <3>2 DEF Listed
  <2>11. ListOf(rest) \subseteq {j \in ListOf(seq) : j.id # id}
    BY <2>1, <2>3, <2>8, <2>9, Members
  <2>12. ASSUME NEW j \in ListOf(seq), j.id # id PROVE j \in ListOf(rest)
    <3>1. PICK k \in 1..n : seq[k] = j
      BY <2>1, Members
    <3>2. k # at
      BY <2>3, <2>12, <3>1
    <3>3. CASE k < at
      BY <2>1, <2>3, <2>8, <3>1, <3>3, Members
    <3>4. CASE k > at
      <4>1. k - 1 \in 1..(n - 1) /\ rest[k - 1] = j
        BY <2>1, <2>3, <2>8, <3>1, <3>4
      <4> QED
        BY <2>8, <4>1, Members
    <3> QED
      BY <2>1, <2>3, <3>2, <3>3, <3>4
  <2> QED
    BY <2>4, <2>10, <2>11, <2>12
<1> QED
  BY <1>1, <1>2

------------------------------------------------------------------------------
\* A job that ends leaves the list, its start time and its spinner go with it.
LEMMA CompleteType == ASSUME TypeOK, NEW j \in TrackedJob, NEW result \in Outcomes, Complete(j, result)
  PROVE /\ Listed(jobs') /\ ListOf(jobs') = {k \in ListOf(jobs) : k.id # j.id}
        /\ started' = started \ {j.id} /\ toast'[j.id] # "loading"
        /\ toast' \in [Ids -> {"none", "loading", "done"}] /\ \A i \in Ids \ {j.id} : toast'[i] = toast[i]
        /\ timers' \in [Ids -> Nat] /\ modal' \in Slices \cup {NoSlice}
        /\ told' = [told EXCEPT ![j.slice] = @ \cup {result}] /\ told' \in [Slices -> SUBSET Outcomes]
<1>1. j.id \in Ids /\ j.slice \in Slices
  BY DEF TrackedJob
<1>2. Listed(jobs') /\ ListOf(jobs') = {k \in ListOf(jobs) : k.id # j.id}
  BY WithoutListed DEF TypeOK, Complete
<1>3. /\ toast' \in [Ids -> {"none", "loading", "done"}] /\ toast'[j.id] # "loading"
      /\ \A i \in Ids \ {j.id} : toast'[i] = toast[i]
  BY <1>1 DEF TypeOK, Complete
<1>4. timers' \in [Ids -> Nat]
  BY <1>1 DEF TypeOK, Complete
<1>5. modal' \in Slices \cup {NoSlice}
  BY <1>1 DEF TypeOK, Complete
<1>6. told' = [told EXCEPT ![j.slice] = @ \cup {result}] /\ told' \in [Slices -> SUBSET Outcomes]
  BY <1>1 DEF TypeOK, Complete
<1> QED
  BY <1>2, <1>3, <1>4, <1>5, <1>6 DEF Complete

\* A poll applies its answer to the job it asked for, then goes on.
LEMMA HandleSubject == ASSUME TypeOK, AnswerHasSubject, NEW p \in Polls, Handle(p)
  PROVE /\ Listed(todo[p]) /\ todo[p] # <<>> /\ Head(todo[p]) \in TrackedJob
        /\ Head(todo[p]) \in ListOf(todo[p]) /\ ListOf(Tail(todo[p])) \subseteq ListOf(todo[p])
        /\ Listed(Tail(todo[p]))
        /\ \/ answer[p] \in Outcomes /\ Complete(Head(todo[p]), answer[p])
           \/ UNCHANGED <<jobs, started, shown>>
<1>1. Listed(todo[p]) /\ todo[p] # <<>>
  BY DEF TypeOK, AnswerHasSubject, Handle
<1> QED
  BY <1>1, TailListed DEF Handle, Terminal, Subject

\* An id is left for the next slice.
LEMMA IdLeft == ASSUME TypeOK, IdsLeft, NEW s \in waiting
  PROVE nextId \in Ids /\ (nextId' = nextId + 1 /\ waiting' = waiting \ {s} => IdsLeft')
<1>1. IsFiniteSet(waiting) /\ Cardinality(waiting) \in Nat
  BY Constants, FS_Subset, FS_CardinalityType DEF TypeOK
<1>2. Cardinality(waiting \ {s}) = Cardinality(waiting) - 1 /\ Cardinality(waiting) >= 1
  BY <1>1, FS_RemoveElement, FS_EmptySet, FS_CardinalityType
<1>3. nextId \in Nat /\ nextId >= 1
  BY Constants DEF TypeOK
<1>4. nextId \in Ids
  BY <1>1, <1>2, <1>3, Constants DEF IdsLeft, Ids
<1>5. nextId + (Cardinality(waiting \ {s})) <= Cardinality(Slices)
  BY <1>1, <1>2, <1>3, Constants DEF IdsLeft
<1>6. ASSUME nextId' = nextId + 1, waiting' = waiting \ {s} PROVE IdsLeft'
  <2>1. nextId' - 1 = nextId /\ Cardinality(waiting') = Cardinality(waiting \ {s})
    BY <1>3, <1>6
  <2> QED
    BY <1>5, <2>1 DEF IdsLeft
<1> QED
  BY <1>4, <1>6

\* The initial state is well typed.
LEMMA InitType == Init => TypeOK
<1> SUFFICES ASSUME Init PROVE TypeOK
  OBVIOUS
<1>1. Listed(<<>>)
  BY DEF Listed
<1>2. Listed(jobs) /\ Listed(rendered) /\ \A p \in Polls : Listed(todo[p])
  BY <1>1 DEF Init
<1>3. nextId \in 1..Cardinality(Slices) + 1
  BY Constants DEF Init
<1>4. failures \in 0..MaxFailures /\ outages \in 0..MaxOutages /\ restarts \in 0..MaxRestarts
  BY Constants DEF Init
<1>5. status \in [Ids -> Statuses] /\ answer \in [Polls -> Answers]
  BY DEF Init, Statuses, Answers
<1>6. outcome \in [Slices -> Outcomes \cup {"none"}] /\ told \in [Slices -> SUBSET Outcomes]
  BY DEF Init
<1> QED
  BY <1>2, <1>3, <1>4, <1>5, <1>6 DEF Init, TypeOK

\* Every step keeps the types.
LEMMA NextType == ASSUME TypeOK, IdsLeft, AnswerHasSubject, [Next]_vars PROVE TypeOK'
<1> USE DEF registry, tracker, shown, polling, bounds
<1>1. ASSUME NEW s \in Slices, Enqueue(s) PROVE TypeOK'
  <2>1. s \in waiting /\ nextId \in Ids /\ nextId' = nextId + 1
    BY <1>1, IdLeft DEF Enqueue
  <2>2. nextId' \in 1..Cardinality(Slices) + 1
    BY <2>1, Constants DEF Ids
  <2>3. slot' \in [Ids -> Slices \cup {NoSlice}]
    BY <1>1 DEF Enqueue, TypeOK
  <2>4. status' \in [Ids -> Statuses]
    BY <1>1 DEF Enqueue, TypeOK, Statuses
  <2>5. old' \in [Ids -> BOOLEAN]
    BY <1>1 DEF Enqueue
  <2>6. [id |-> nextId, slice |-> s] \in TrackedJob
    BY <2>1 DEF TrackedJob
  <2>7. posted' \subseteq TrackedJob
    BY <1>1, <2>6 DEF Enqueue, TypeOK
  <2>8. waiting' \subseteq Slices
    BY <1>1 DEF Enqueue, TypeOK
  <2> QED
    BY <1>1, <2>2, <2>3, <2>4, <2>5, <2>7, <2>8 DEF Enqueue, TypeOK
<1>2. ASSUME NEW i \in Ids, Finish(i) PROVE TypeOK'
  <2>1. PICK o \in Outcomes : status' = [status EXCEPT ![i] = o] /\ outcome' = [outcome EXCEPT ![slot[i]] = o]
    BY <1>2 DEF Finish
  <2>2. status' \in [Ids -> Statuses] /\ outcome' \in [Slices -> Outcomes \cup {"none"}]
    BY <2>1 DEF TypeOK, Statuses
  <2> QED
    BY <1>2, <2>2 DEF Finish, TypeOK
<1>3. ASSUME NEW i \in Ids, Age(i) PROVE TypeOK'
  <2>1. old' \in [Ids -> BOOLEAN]
    BY <1>3 DEF Age, TypeOK
  <2>2. outages' \in 0..MaxOutages
    BY <1>3, Constants DEF Age, TypeOK
  <2> QED
    BY <1>3, <2>1, <2>2 DEF Age, TypeOK
<1>4. ASSUME NEW i \in Ids, Dismiss(i) PROVE TypeOK'
  <2>1. timers' \in [Ids -> Nat]
    BY <1>4 DEF Dismiss, TypeOK
  <2>2. toast' \in [Ids -> {"none", "loading", "done"}]
    BY <1>4 DEF Dismiss, TypeOK
  <2> QED
    BY <1>4, <2>1, <2>2 DEF Dismiss, TypeOK
<1>5. ASSUME NEW j \in posted, Track(j) PROVE TypeOK'
  <2>1. j \in TrackedJob /\ j.id \in Ids
    BY DEF TypeOK, TrackedJob
  <2>2. Listed(jobs')
    BY <1>5, <2>1, AppendListed DEF Track, IsNew, TypeOK
  <2>3. toast' \in [Ids -> {"none", "loading", "done"}]
    BY <1>5, <2>1 DEF Track, TypeOK
  <2>4. started' \subseteq Ids
    BY <1>5, <2>1 DEF Track, TypeOK
  <2> QED
    BY <1>5, <2>2, <2>3, <2>4 DEF Track, TypeOK
<1>6. ASSUME NEW j \in posted, ResponseLost(j) PROVE TypeOK'
  <2>1. failures' \in 0..MaxFailures
    BY <1>6, Constants DEF ResponseLost, TypeOK
  <2> QED
    BY <1>6, <2>1 DEF ResponseLost, TypeOK
<1>7. ASSUME NEW p \in Polls, StartPoll(p) PROVE TypeOK'
  <2>1. /\ todo' \in [Polls -> Seq(TrackedJob)]
        /\ \A q \in Polls : todo'[q] = IF q = p THEN rendered ELSE todo[q]
    BY <1>7 DEF StartPoll, TypeOK, Listed
  <2> QED
    BY <1>7, <2>1 DEF StartPoll, TypeOK
<1>8. ASSUME NEW p \in Polls, Answer(p) PROVE TypeOK'
  <2>1. Listed(todo[p]) /\ todo[p] # <<>>
    BY <1>8 DEF Answer, TypeOK
  <2>2. Head(todo[p]).id \in Ids
    BY <2>1, TailListed DEF TrackedJob
  <2> DEFINE i == Head(todo[p]).id
  <2>3. /\ \/ answer' = [answer EXCEPT ![p] = IF slot[i] = NoSlice THEN "missing" ELSE status[i]]
           \/ answer' = [answer EXCEPT ![p] = "error"]
        /\ failures' = failures \/ (failures < MaxFailures /\ failures' = failures + 1)
    BY <1>8 DEF Answer
  <2>4. failures' \in 0..MaxFailures
    BY <2>3, Constants DEF TypeOK
  <2>5. answer' \in [Polls -> Answers]
    BY <2>2, <2>3 DEF TypeOK, Answers
  <2> QED
    BY <1>8, <2>4, <2>5 DEF Answer, TypeOK
<1>9. ASSUME NEW p \in Polls, Handle(p) PROVE TypeOK'
  <2>1. /\ todo' = [todo EXCEPT ![p] = Tail(@)] /\ answer' = [answer EXCEPT ![p] = "none"]
        /\ UNCHANGED <<registry, waiting, posted, rendered, outcome, bounds>>
    BY <1>9 DEF Handle
  <2>2. \A q \in Polls : Listed(todo'[q])
    <3>1. \A q \in Polls : todo'[q] = IF q = p THEN Tail(todo[p]) ELSE todo[q]
      BY <2>1 DEF TypeOK
    <3> QED
      BY <1>9, <3>1, HandleSubject DEF TypeOK
  <2>3. answer' \in [Polls -> Answers]
    BY <2>1 DEF TypeOK, Answers
  <2>4. todo' \in [Polls -> Seq(TrackedJob)]
    BY <2>1, <2>2 DEF TypeOK, Listed
  <2>5. started' \subseteq Ids /\ Listed(jobs') /\ toast' \in [Ids -> {"none", "loading", "done"}]
        /\ timers' \in [Ids -> Nat] /\ modal' \in Slices \cup {NoSlice} /\ told' \in [Slices -> SUBSET Outcomes]
    <3>1. CASE answer[p] \in Outcomes /\ Complete(Head(todo[p]), answer[p])
      <4>1. Head(todo[p]) \in TrackedJob
        BY <1>9, HandleSubject
      <4> QED
        BY <3>1, <4>1, CompleteType DEF TypeOK
    <3>2. CASE UNCHANGED <<jobs, started, shown>>
      BY <3>2 DEF TypeOK
    <3> QED
      BY <1>9, <3>1, <3>2, HandleSubject
  <2> QED
    BY <2>1, <2>2, <2>3, <2>4, <2>5 DEF TypeOK
<1>10. CASE Restart
  <2>1. restarts' \in 0..MaxRestarts
    BY <1>10, Constants DEF Restart, TypeOK
  <2>2. nextId' \in 1..Cardinality(Slices) + 1
    BY <1>10, Constants DEF Restart
  <2>3. slot' \in [Ids -> Slices \cup {NoSlice}] /\ status' \in [Ids -> Statuses] /\ old' \in [Ids -> BOOLEAN]
    BY <1>10 DEF Restart, Statuses
  <2> QED
    BY <1>10, <2>1, <2>2, <2>3 DEF Restart, TypeOK
<1>11. CASE Render
  BY <1>11 DEF Render, TypeOK
<1>12. CASE Tick
  <2>1. toast' \in [Ids -> {"none", "loading", "done"}]
    BY <1>12 DEF Tick, TypeOK
  <2> QED
    BY <1>12, <2>1 DEF Tick, TypeOK
<1>13. CASE Acknowledge
  BY <1>13 DEF Acknowledge, TypeOK
<1>14. CASE UNCHANGED vars
  BY <1>14 DEF vars, TypeOK
<1> QED
  BY <1>1, <1>2, <1>3, <1>4, <1>5, <1>6, <1>7, <1>8, <1>9, <1>10, <1>11, <1>12, <1>13, <1>14 DEF Next

------------------------------------------------------------------------------
\* Before any slice ids are left for all of them, and none is registered.
LEMMA InitRegistry == Init => IdsLeft /\ Registered
<1> SUFFICES ASSUME Init PROVE IdsLeft /\ Registered
  OBVIOUS
<1>1. IdsLeft
  <2>1. nextId - 1 = 0 /\ waiting = Slices
    BY DEF Init
  <2> QED
    BY <2>1, Constants DEF IdsLeft
<1>2. Registered
  BY DEF Init, Registered
<1> QED
  BY <1>1, <1>2

\* The server's registry: ids are dealt out once between restarts, and the status
\* of a job is its slice's outcome.
LEMMA NextRegistry == ASSUME TypeOK, RInv, [Next]_vars PROVE RInv'
<1> USE DEF RInv
<1>1. ASSUME NEW s \in Slices, Enqueue(s) PROVE RInv'
  <2>1. /\ s \in waiting /\ waiting' = waiting \ {s} /\ nextId' = nextId + 1
        /\ slot' = [i \in Ids |-> IF i = nextId THEN s ELSE IF i \in Expired THEN NoSlice ELSE slot[i]]
        /\ status' = [i \in Ids |-> IF i \in Expired \cup {nextId} THEN "running" ELSE status[i]]
        /\ outcome' = outcome
    BY <1>1 DEF Enqueue
  <2>2. IdsLeft' /\ nextId \in Ids
    BY <2>1, IdLeft
  <2>3. \A i \in Ids : i < nextId => i < nextId' /\ i # nextId
    BY <2>1, <2>2 DEF Ids
  <2>4. nextId < nextId'
    BY <2>1, <2>2 DEF Ids
  <2>5. \A i \in Ids : slot'[i] # NoSlice =>
            (i = nextId /\ slot'[i] = s) \/ (i # nextId /\ slot'[i] = slot[i] /\ i \notin Expired)
    BY <2>1
  <2>6. \A i \in Ids : slot'[i] # NoSlice => i < nextId' /\ slot'[i] \notin waiting'
    BY <2>1, <2>3, <2>4, <2>5 DEF Registered
  <2>7. \A i, k \in Ids : slot'[i] = slot'[k] /\ slot'[i] # NoSlice => i = k
    BY <2>1, <2>5 DEF Registered
  <2>8. \A i \in Ids : slot'[i] # NoSlice =>
            outcome'[slot'[i]] = IF status'[i] = "running" THEN "none" ELSE status'[i]
    BY <2>1, <2>5 DEF Registered
  <2>9. \A t \in waiting' : outcome'[t] = "none"
    BY <2>1 DEF Registered
  <2> QED
    BY <2>2, <2>6, <2>7, <2>8, <2>9 DEF Registered
<1>2. ASSUME NEW i \in Ids, Finish(i) PROVE RInv'
  <2>1. PICK o \in Outcomes : status' = [status EXCEPT ![i] = o] /\ outcome' = [outcome EXCEPT ![slot[i]] = o]
    BY <1>2 DEF Finish
  <2>2. UNCHANGED <<slot, nextId, waiting>> /\ slot[i] # NoSlice
    BY <1>2 DEF Finish
  <2>3. \A k \in Ids : status'[k] = IF k = i THEN o ELSE status[k]
    BY <2>1 DEF TypeOK
  <2>4. \A s \in Slices : outcome'[s] = IF s = slot[i] THEN o ELSE outcome[s]
    BY <2>1 DEF TypeOK
  <2>5. o # "running" /\ \A k \in Ids : slot[k] # NoSlice => slot[k] \in Slices
    BY DEF Outcomes, TypeOK
  <2>6. \A k \in Ids : slot'[k] # NoSlice =>
            outcome'[slot'[k]] = IF status'[k] = "running" THEN "none" ELSE status'[k]
    BY <2>2, <2>3, <2>4, <2>5 DEF Registered
  <2>7. \A t \in waiting' : outcome'[t] = "none"
    BY <2>2, <2>4 DEF Registered, TypeOK
  <2> QED
    BY <2>2, <2>6, <2>7 DEF Registered, IdsLeft
<1>3. CASE Restart
  <2>1. IdsLeft'
    <3>1. nextId' - 1 = 0 /\ waiting' = waiting
      BY <1>3 DEF Restart
    <3>2. IsFiniteSet(Slices) /\ waiting \subseteq Slices
      BY Constants DEF TypeOK
    <3>3. Cardinality(waiting) <= Cardinality(Slices) /\ Cardinality(waiting) \in Nat
      BY <3>2, FS_Subset, FS_CardinalityType
    <3> QED
      BY <3>1, <3>3 DEF IdsLeft
  <2>2. Registered'
    BY <1>3 DEF Restart, Registered
  <2> QED
    BY <2>1, <2>2
<1>4. CASE UNCHANGED <<slot, status, nextId, waiting, outcome>>
  BY <1>4 DEF Registered, IdsLeft
<1>5. ASSUME NEW i \in Ids, Age(i) \/ Dismiss(i) PROVE UNCHANGED <<slot, status, nextId, waiting, outcome>>
  BY <1>5 DEF Age, Dismiss, registry
<1>6. ASSUME NEW j \in posted, Track(j) \/ ResponseLost(j) PROVE UNCHANGED <<slot, status, nextId, waiting, outcome>>
  BY <1>6 DEF Track, ResponseLost, registry
<1>7. ASSUME NEW p \in Polls, StartPoll(p) \/ Answer(p) \/ Handle(p)
      PROVE UNCHANGED <<slot, status, nextId, waiting, outcome>>
  BY <1>7 DEF StartPoll, Answer, Handle, registry
<1>8. CASE Render \/ Tick \/ Acknowledge \/ UNCHANGED vars
  BY <1>4, <1>8 DEF Render, Tick, Acknowledge, registry, vars
<1> QED
  BY <1>1, <1>2, <1>3, <1>4, <1>5, <1>6, <1>7, <1>8 DEF Next

------------------------------------------------------------------------------
\* A spinner never outlives its job: the start time goes when the job leaves the
\* list, so that a tick over an older list finds none.
LEMMA NextTracked == ASSUME TypeOK, AnswerHasSubject, BInv, [Next]_vars PROVE BInv'
<1> USE DEF BInv
<1>1. ASSUME NEW j \in posted, Track(j) PROVE BInv'
  <2>1. j \in TrackedJob /\ j.id \in Ids
    BY DEF TypeOK, TrackedJob
  <2>2. IdsOf(jobs') = IdsOf(jobs) \cup {j.id}
    <3>1. CASE j.id \notin IdsOf(jobs)
      <4>1. ListOf(jobs') = ListOf(jobs) \cup {j}
        BY <1>1, <2>1, <3>1, AppendListed DEF Track, IsNew, TypeOK
      <4> QED
        BY <4>1 DEF IdsOf
    <3>2. CASE j.id \in IdsOf(jobs)
      BY <1>1, <3>2 DEF Track, IsNew
    <3> QED
      BY <3>1, <3>2
  <2>3. started' = started \cup {j.id} /\ \A i \in Ids : i # j.id => toast'[i] = toast[i]
    BY <1>1, <2>1 DEF Track, TypeOK
  <2> QED
    BY <2>2, <2>3 DEF StartedIsTracked, SpinnerIsTracked
<1>2. ASSUME NEW p \in Polls, Handle(p) PROVE BInv'
  <2> DEFINE j == Head(todo[p])
  <2>1. CASE answer[p] \in Outcomes /\ Complete(j, answer[p])
    <3>1. j \in TrackedJob
      BY <1>2, HandleSubject
    <3> HIDE DEF j
    <3>2. /\ ListOf(jobs') = {k \in ListOf(jobs) : k.id # j.id} /\ started' = started \ {j.id}
          /\ toast'[j.id] # "loading" /\ \A i \in Ids \ {j.id} : toast'[i] = toast[i]
      BY <2>1, <3>1, CompleteType
    <3>3. IdsOf(jobs') = IdsOf(jobs) \ {j.id}
      BY <3>2 DEF IdsOf
    <3> QED
      BY <3>2, <3>3 DEF StartedIsTracked, SpinnerIsTracked
  <2>2. CASE UNCHANGED <<jobs, started, shown>>
    BY <2>2 DEF StartedIsTracked, SpinnerIsTracked, shown
  <2> QED
    BY <1>2, <2>1, <2>2, HandleSubject
<1>3. CASE Tick
  <2>1. UNCHANGED <<jobs, started>>
    BY <1>3 DEF Tick, tracker
  <2>2. \A i \in Ids : toast'[i] = "loading" => toast[i] = "loading" \/ i \in started
    BY <1>3 DEF Tick, Shows
  <2> QED
    BY <2>1, <2>2 DEF StartedIsTracked, SpinnerIsTracked
<1>4. ASSUME NEW i \in Ids, Dismiss(i) PROVE BInv'
  <2>1. UNCHANGED <<jobs, started>> /\ \A k \in Ids : toast'[k] = "loading" => toast[k] = "loading"
    BY <1>4 DEF Dismiss, tracker, TypeOK
  <2> QED
    BY <2>1 DEF StartedIsTracked, SpinnerIsTracked
<1>5. CASE UNCHANGED <<jobs, started, toast>>
  BY <1>5 DEF StartedIsTracked, SpinnerIsTracked
<1>6. ASSUME NEW s \in Slices, Enqueue(s) PROVE UNCHANGED <<jobs, started, toast>>
  BY <1>6 DEF Enqueue, tracker, shown
<1>7. ASSUME NEW i \in Ids, Finish(i) \/ Age(i) PROVE UNCHANGED <<jobs, started, toast>>
  BY <1>7 DEF Finish, Age, tracker, shown
<1>8. ASSUME NEW j \in posted, ResponseLost(j) PROVE UNCHANGED <<jobs, started, toast>>
  BY <1>8 DEF ResponseLost, tracker, shown
<1>9. ASSUME NEW p \in Polls, StartPoll(p) \/ Answer(p) PROVE UNCHANGED <<jobs, started, toast>>
  BY <1>9 DEF StartPoll, Answer, tracker, shown
<1>10. CASE Restart \/ Render \/ Acknowledge \/ UNCHANGED vars
  BY <1>5, <1>10 DEF Restart, Render, Acknowledge, tracker, shown, vars
<1> QED
  BY <1>1, <1>2, <1>3, <1>4, <1>5, <1>6, <1>7, <1>8, <1>9, <1>10 DEF Next

------------------------------------------------------------------------------
\* Only an enqueue brings a job that the browser did not know.
LEMMA KnownShrinks == ASSUME TypeOK, AnswerHasSubject, Next, \A s \in Slices : ~Enqueue(s)
  PROVE Known' \subseteq Known /\ Awaited' \subseteq Awaited
<1> USE DEF Known, Awaited
<1>1. ASSUME NEW j \in posted, Track(j) PROVE Known' \subseteq Known /\ Awaited' \subseteq Awaited
  <2>1. j \in TrackedJob
    BY DEF TypeOK
  <2>2. ListOf(jobs') \subseteq ListOf(jobs) \cup {j}
    BY <1>1, <2>1, AppendListed DEF Track, IsNew, TypeOK
  <2> QED
    BY <1>1, <2>2 DEF Track, polling
<1>2. ASSUME NEW p \in Polls, Handle(p) PROVE Known' \subseteq Known /\ Awaited' \subseteq Awaited
  <2>1. ListOf(jobs') \subseteq ListOf(jobs)
    <3>1. CASE answer[p] \in Outcomes /\ Complete(Head(todo[p]), answer[p])
      BY <1>2, <3>1, HandleSubject, CompleteType
    <3>2. CASE UNCHANGED <<jobs, started, shown>>
      BY <3>2
    <3> QED
      BY <1>2, <3>1, <3>2, HandleSubject
  <2>2. \A q \in Polls : ListOf(todo'[q]) \subseteq ListOf(todo[q])
    <3>1. \A q \in Polls : todo'[q] = IF q = p THEN Tail(todo[p]) ELSE todo[q]
      BY <1>2 DEF Handle, TypeOK
    <3> QED
      BY <1>2, <3>1, HandleSubject
  <2>3. UNCHANGED <<posted, rendered>>
    BY <1>2 DEF Handle
  <2> QED
    BY <2>1, <2>2, <2>3
<1>3. ASSUME NEW p \in Polls, StartPoll(p) PROVE Known' \subseteq Known /\ Awaited' \subseteq Awaited
  <2>1. \A q \in Polls : todo'[q] = IF q = p THEN rendered ELSE todo[q]
    BY <1>3 DEF StartPoll, TypeOK
  <2>2. UNCHANGED <<posted, jobs, rendered>>
    BY <1>3 DEF StartPoll, tracker
  <2>3. \A q \in Polls : ListOf(todo'[q]) \subseteq ListOf(rendered) \cup ListOf(todo[q])
    BY <2>1
  <2> QED
    BY <2>2, <2>3
<1>4. CASE UNCHANGED <<posted, jobs, rendered, todo>>
  BY <1>4
<1>5. ASSUME NEW i \in Ids, Finish(i) \/ Age(i) \/ Dismiss(i) PROVE UNCHANGED <<posted, jobs, rendered, todo>>
  BY <1>5 DEF Finish, Age, Dismiss, tracker, polling
<1>6. ASSUME NEW j \in posted, ResponseLost(j) PROVE Known' \subseteq Known /\ Awaited' \subseteq Awaited
  <2>1. posted' \subseteq posted /\ UNCHANGED <<jobs, rendered, todo>>
    BY <1>6 DEF ResponseLost, tracker, polling
  <2> QED
    BY <2>1
<1>7. ASSUME NEW p \in Polls, Answer(p) PROVE UNCHANGED <<posted, jobs, rendered, todo>>
  BY <1>7 DEF Answer, tracker
<1>8. CASE Render
  <2>1. rendered' = jobs /\ UNCHANGED <<posted, jobs, todo>>
    BY <1>8 DEF Render, polling
  <2> QED
    BY <2>1
<1>9. ASSUME Restart \/ Tick \/ Acknowledge PROVE UNCHANGED <<posted, jobs, rendered, todo>>
  BY <1>9 DEF Restart, Tick, Acknowledge, tracker, polling
<1> QED
  BY <1>1, <1>2, <1>3, <1>4, <1>5, <1>6, <1>7, <1>8, <1>9 DEF Next

\* What an enqueue adds to the browser's knowledge: the response on its way.
LEMMA EnqueueKnown == ASSUME NEW s \in Slices, Enqueue(s)
  PROVE /\ Known' = Known \cup {[id |-> nextId, slice |-> s]}
        /\ Awaited' = Awaited \cup {[id |-> nextId, slice |-> s]}
<1>1. posted' = posted \cup {[id |-> nextId, slice |-> s]} /\ UNCHANGED <<jobs, rendered, todo>>
  BY DEF Enqueue, tracker, polling
<1> QED
  BY <1>1 DEF Known, Awaited

\* What the browser knows are jobs.
LEMMA KnownType == ASSUME TypeOK PROVE Known \subseteq TrackedJob /\ Awaited \subseteq Known
BY MembersDiffer DEF TypeOK, Known, Awaited

\* An enqueue deals out a new id, and sweeps what it sweeps: a known id keeps its
\* slice or is left without one.
LEMMA NextSameSlice == ASSUME TypeOK, RInv, SameSlice, AnswerHasSubject, [Next]_vars PROVE SameSlice'
<1>1. ASSUME NEW s \in Slices, Enqueue(s) PROVE SameSlice'
  <2> SUFFICES ASSUME restarts = 0, NEW j \in Known'
               PROVE j.id < nextId' /\ slot'[j.id] \in {NoSlice, j.slice}
    BY <1>1 DEF Enqueue, bounds, SameSlice
  <2>1. nextId \in Ids /\ nextId' = nextId + 1 /\ nextId \in Nat
    BY <1>1, IdLeft DEF Enqueue, RInv, Ids
  <2>2. slot' = [i \in Ids |-> IF i = nextId THEN s ELSE IF i \in Expired THEN NoSlice ELSE slot[i]]
    BY <1>1 DEF Enqueue
  <2>3. CASE j \in Known
    <3>1. j.id \in Ids /\ j.id < nextId /\ slot[j.id] \in {NoSlice, j.slice}
      BY <2>3, KnownType DEF SameSlice, TrackedJob
    <3>2. j.id < nextId' /\ j.id # nextId
      BY <2>1, <3>1 DEF Ids
    <3> QED
      BY <2>2, <3>1, <3>2
  <2>4. CASE j = [id |-> nextId, slice |-> s]
    BY <2>1, <2>2, <2>4
  <2> QED
    BY <1>1, <2>3, <2>4, EnqueueKnown
<1>2. CASE Restart
  <2>1. restarts' # 0
    BY <1>2 DEF Restart, TypeOK
  <2> QED
    BY <2>1 DEF SameSlice
<1>3. ASSUME Next, ~Restart, \A s \in Slices : ~Enqueue(s) PROVE UNCHANGED <<slot, nextId, restarts>>
  BY <1>3 DEF Next, Finish, Age, Dismiss, Track, ResponseLost, StartPoll, Answer, Handle, Render, Tick,
              Acknowledge, registry, bounds
<1>4. ASSUME Next, ~Restart, \A s \in Slices : ~Enqueue(s) PROVE SameSlice'
  BY <1>3, <1>4, KnownShrinks DEF SameSlice
<1>5. CASE UNCHANGED vars
  <2>1. Known' = Known /\ UNCHANGED <<slot, nextId, restarts>>
    BY <1>5 DEF vars, registry, tracker, polling, bounds, Known, Awaited
  <2> QED
    BY <2>1 DEF SameSlice
<1> QED
  BY <1>1, <1>2, <1>4, <1>5

\* While the page is up, the retention ends for jobs only that nobody waits for:
\* an awaited job is young, and no sweep takes it.
LEMMA NextNoneOld == ASSUME TypeOK, RInv, SameSlice, NoneOld, AnswerHasSubject, [Next]_vars PROVE NoneOld'
<1>1. ASSUME NEW s \in Slices, Enqueue(s) PROVE NoneOld'
  <2> SUFFICES ASSUME outages = 0, restarts = 0, NEW j \in Awaited'
               PROVE slot'[j.id] = j.slice /\ ~old'[j.id]
    BY <1>1 DEF Enqueue, bounds, NoneOld
  <2>1. nextId \in Ids
    BY <1>1, IdLeft DEF Enqueue, RInv
  <2>2. /\ slot' = [i \in Ids |-> IF i = nextId THEN s ELSE IF i \in Expired THEN NoSlice ELSE slot[i]]
        /\ old' = [i \in Ids |-> old[i] /\ i \notin Expired \cup {nextId}]
    BY <1>1 DEF Enqueue
  <2>3. CASE j \in Awaited
    <3>1. j.id \in Ids /\ j.id < nextId /\ slot[j.id] = j.slice /\ ~old[j.id]
      BY <2>3, KnownType DEF NoneOld, SameSlice, TrackedJob
    <3>2. j.id # nextId /\ j.id \notin Expired
      BY <2>1, <3>1 DEF Ids, Expired
    <3> QED
      BY <2>2, <3>1, <3>2
  <2>4. CASE j = [id |-> nextId, slice |-> s]
    BY <2>1, <2>2, <2>4
  <2> QED
    BY <1>1, <2>3, <2>4, EnqueueKnown
<1>2. ASSUME NEW i \in Ids, Age(i) PROVE NoneOld'
  <2> SUFFICES ASSUME outages' = 0, restarts' = 0, NEW j \in Awaited'
               PROVE slot'[j.id] = j.slice /\ ~old'[j.id]
    BY DEF NoneOld
  <2>1. /\ old' = [old EXCEPT ![i] = TRUE] /\ outages' = IF Watched(i) THEN outages + 1 ELSE outages
        /\ UNCHANGED <<slot, restarts, posted, jobs>>
    BY <1>2 DEF Age, tracker
  <2>2. outages \in Nat
    BY Constants DEF TypeOK
  <2>3. ~Watched(i) /\ outages = 0
    BY <2>1, <2>2
  <2>4. Awaited' = Awaited /\ j \in Awaited
    BY <2>1 DEF Awaited
  <2>5. j.id # i /\ j.id \in Ids
    BY <2>3, <2>4, KnownType DEF Watched, Awaited, TrackedJob
  <2>6. slot[j.id] = j.slice /\ ~old[j.id]
    BY <2>1, <2>3, <2>4 DEF NoneOld
  <2> QED
    BY <2>1, <2>5, <2>6 DEF TypeOK
<1>3. CASE Restart
  <2>1. restarts' # 0
    BY <1>3 DEF Restart, TypeOK
  <2> QED
    BY <2>1 DEF NoneOld
<1>4. ASSUME Next, ~Restart, \A s \in Slices : ~Enqueue(s), \A i \in Ids : ~Age(i)
      PROVE UNCHANGED <<slot, old, restarts, outages>>
  BY <1>4 DEF Next, Finish, Dismiss, Track, ResponseLost, StartPoll, Answer, Handle, Render, Tick,
              Acknowledge, registry, bounds
<1>5. ASSUME Next, ~Restart, \A s \in Slices : ~Enqueue(s), \A i \in Ids : ~Age(i) PROVE NoneOld'
  BY <1>4, <1>5, KnownShrinks DEF NoneOld
<1>6. CASE UNCHANGED vars
  <2>1. Awaited' = Awaited /\ UNCHANGED <<slot, old, restarts, outages>>
    BY <1>6 DEF vars, registry, tracker, bounds, Awaited
  <2> QED
    BY <2>1 DEF NoneOld
<1> QED
  BY <1>1, <1>2, <1>3, <1>5, <1>6

\* An answer belongs to the first job of its poll until it is handled.
LEMMA NextSubject == ASSUME TypeOK, AnswerHasSubject, [Next]_vars PROVE AnswerHasSubject'
<1> USE DEF AnswerHasSubject
<1>1. ASSUME NEW p \in Polls, StartPoll(p) PROVE AnswerHasSubject'
  <2>1. \A q \in Polls : todo'[q] = IF q = p THEN rendered ELSE todo[q]
    BY <1>1 DEF StartPoll, TypeOK
  <2> QED
    BY <1>1, <2>1 DEF StartPoll
<1>2. ASSUME NEW p \in Polls, Answer(p) PROVE AnswerHasSubject'
  <2>1. todo' = todo /\ todo[p] # <<>> /\ \A q \in Polls : q # p => answer'[q] = answer[q]
    BY <1>2 DEF Answer, TypeOK
  <2> QED
    BY <2>1
<1>3. ASSUME NEW p \in Polls, Handle(p) PROVE AnswerHasSubject'
  <2>1. /\ \A q \in Polls : q # p => todo'[q] = todo[q] /\ answer'[q] = answer[q]
        /\ answer'[p] = "none"
    BY <1>3 DEF Handle, TypeOK
  <2> QED
    BY <2>1
<1>4. CASE UNCHANGED polling
  BY <1>4 DEF polling
<1>5. ASSUME NEW s \in Slices, Enqueue(s) PROVE UNCHANGED polling
  BY <1>5 DEF Enqueue
<1>6. ASSUME NEW i \in Ids, Finish(i) \/ Age(i) \/ Dismiss(i) PROVE UNCHANGED polling
  BY <1>6 DEF Finish, Age, Dismiss
<1>7. ASSUME NEW j \in posted, Track(j) \/ ResponseLost(j) PROVE UNCHANGED polling
  BY <1>7 DEF Track, ResponseLost
<1>8. CASE Restart \/ Render \/ Tick \/ Acknowledge \/ UNCHANGED vars
  BY <1>4, <1>8 DEF Restart, Render, Tick, Acknowledge, vars
<1> QED
  BY <1>1, <1>2, <1>3, <1>4, <1>5, <1>6, <1>7, <1>8 DEF Next

\* The subject of every answer is a job that the browser knows.
LEMMA SubjectKnown == ASSUME TypeOK, NEW p \in Polls, todo[p] # <<>>
  PROVE Head(todo[p]) \in Known /\ Head(todo[p]).id \in Ids /\ Head(todo[p]).slice \in Slices
<1>1. Head(todo[p]) \in ListOf(todo[p]) /\ Head(todo[p]) \in TrackedJob
  BY TailListed DEF TypeOK
<1> QED
  BY <1>1 DEF Known, TrackedJob

\* A slice's outcome is settled once: a step that changes it finds it open.
LEMMA OutcomeSettled == ASSUME TypeOK, RInv, [Next]_vars, NEW s \in Slices, outcome[s] # "none"
  PROVE outcome'[s] = outcome[s]
<1>1. ASSUME NEW i \in Ids, Finish(i) PROVE outcome'[s] = outcome[s]
  <2>1. PICK o \in Outcomes : outcome' = [outcome EXCEPT ![slot[i]] = o]
    BY <1>1 DEF Finish
  <2>2. outcome[slot[i]] = "none"
    BY <1>1 DEF Finish, RInv, Registered
  <2> QED
    BY <2>1, <2>2 DEF TypeOK
<1>2. ASSUME Next, \A i \in Ids : ~Finish(i) PROVE UNCHANGED outcome
  BY <1>2 DEF Next, Enqueue, Age, Dismiss, Track, ResponseLost, StartPoll, Answer, Handle, Restart, Render,
              Tick, Acknowledge
<1>3. CASE UNCHANGED vars
  BY <1>3 DEF vars
<1> QED
  BY <1>1, <1>2, <1>3

\* Answers that lie in a poll stay true: of a snapshot's job the server tells the
\* outcome of the slice itself, which never changes again.
LEMMA NextTrue == ASSUME TypeOK, RInv, SameSlice, AnswerHasSubject, AnswerIsTrue, [Next]_vars PROVE AnswerIsTrue'
<1> USE DEF AnswerIsTrue
<1>0. restarts' = 0 => restarts = 0
  <2>1. Next => restarts' = restarts \/ restarts' = restarts + 1
    BY DEF Next, Enqueue, Finish, Age, Dismiss, Track, ResponseLost, StartPoll, Answer, Handle, Restart, Render,
              Tick, Acknowledge, bounds
  <2> QED
    BY <2>1 DEF TypeOK, vars, bounds
<1> SUFFICES ASSUME restarts = 0, NEW q \in Polls, answer'[q] \in Outcomes
             PROVE outcome'[Head(todo'[q]).slice] = answer'[q]
  BY <1>0
<1>1. CASE answer'[q] = answer[q] /\ todo'[q] = todo[q]
  <2>1. outcome[Head(todo[q]).slice] = answer[q] /\ answer[q] # "none"
    BY <1>1 DEF Outcomes
  <2>2. Head(todo[q]).slice \in Slices
    BY <2>1, SubjectKnown DEF AnswerHasSubject
  <2> QED
    BY <1>1, <2>1, <2>2, OutcomeSettled
<1>2. CASE Answer(q)
  <2> DEFINE j == Head(todo[q])
  <2>1. j \in Known /\ j.id \in Ids /\ j.slice \in Slices /\ todo' = todo /\ outcome' = outcome
    BY <1>2, SubjectKnown DEF Answer
  <2>2. answer'[q] \in {IF slot[j.id] = NoSlice THEN "missing" ELSE status[j.id], "error"}
    BY <1>2 DEF Answer, TypeOK
  <2> HIDE DEF j
  <2>3. slot[j.id] # NoSlice /\ status[j.id] = answer'[q] /\ answer'[q] # "running"
    BY <2>2 DEF Outcomes
  <2>4. slot[j.id] = j.slice
    BY <2>1, <2>3 DEF SameSlice
  <2>5. outcome[slot[j.id]] = status[j.id]
    BY <2>1, <2>3 DEF RInv, Registered
  <2> QED
    BY <2>1, <2>3, <2>4, <2>5 DEF j
<1>3. ASSUME NEW p \in Polls, StartPoll(p) PROVE answer'[q] = answer[q] /\ todo'[q] = todo[q]
  <2>1. answer[q] # "none"
    BY <1>3 DEF StartPoll, Outcomes
  <2>2. todo[q] # <<>>
    BY <2>1 DEF AnswerHasSubject
  <2> QED
    BY <1>3, <2>2 DEF StartPoll, TypeOK
<1>4. ASSUME NEW p \in Polls, p # q, Answer(p) PROVE answer'[q] = answer[q] /\ todo'[q] = todo[q]
  BY <1>4 DEF Answer, TypeOK
<1>5. ASSUME NEW p \in Polls, Handle(p) PROVE answer'[q] = answer[q] /\ todo'[q] = todo[q]
  <2>1. p # q
    BY <1>5 DEF Handle, TypeOK, Outcomes
  <2> QED
    BY <1>5, <2>1 DEF Handle, TypeOK
<1>6. ASSUME Next, \A p \in Polls : ~(StartPoll(p) \/ Answer(p) \/ Handle(p)) PROVE UNCHANGED polling
  BY <1>6 DEF Next, Enqueue, Finish, Age, Dismiss, Track, ResponseLost, Restart, Render, Tick, Acknowledge
<1>7. CASE UNCHANGED vars
  BY <1>1, <1>7 DEF vars, polling
<1> QED
  BY <1>1, <1>2, <1>3, <1>4, <1>5, <1>6, <1>7 DEF polling

\* Users are told a true answer, and it stays true.
LEMMA NextTold == ASSUME TypeOK, RInv, AnswerHasSubject, AnswerIsTrue, Truthful, [Next]_vars PROVE Truthful'
<1> USE DEF Truthful
<1>1. Next => restarts' = restarts \/ restarts' = restarts + 1
  BY DEF Next, Enqueue, Finish, Age, Dismiss, Track, ResponseLost, StartPoll, Answer, Handle, Restart, Render,
         Tick, Acknowledge, bounds
<1>2. restarts' = 0 => restarts = 0
  BY <1>1 DEF TypeOK, vars, bounds
<1> SUFFICES ASSUME restarts = 0, NEW s \in Slices, NEW r \in told'[s] PROVE r = outcome'[s]
  BY <1>2
<1>3. CASE r \in told[s]
  <2>1. r = outcome[s] /\ r \in Outcomes
    BY <1>3 DEF TypeOK
  <2> QED
    BY <2>1, OutcomeSettled DEF Outcomes
<1>4. CASE r \notin told[s]
  <2>1. told' # told
    BY <1>4
  <2>2. PICK p \in Polls : Handle(p)
    BY <2>1 DEF Next, vars, Enqueue, Finish, Age, Dismiss, Track, ResponseLost, StartPoll, Answer, Restart,
                Render, Tick, Acknowledge, shown
  <2> DEFINE j == Head(todo[p])
  <2>3. j \in TrackedJob /\ answer[p] \in Outcomes /\ Complete(j, answer[p])
    BY <2>1, <2>2, HandleSubject DEF shown
  <2>4. outcome' = outcome /\ outcome[j.slice] = answer[p]
    BY <2>2, <2>3 DEF Handle, AnswerIsTrue
  <2> HIDE DEF j
  <2>5. told' = [told EXCEPT ![j.slice] = @ \cup {answer[p]}]
    BY <2>3, CompleteType
  <2>6. s = j.slice /\ r = answer[p]
    BY <1>4, <2>5 DEF TypeOK
  <2> QED
    BY <2>4, <2>6
<1> QED
  BY <1>3, <1>4

------------------------------------------------------------------------------
\* The invariant holds at the start.
LEMMA InitInv == Init => IInv
<1> SUFFICES ASSUME Init PROVE IInv
  OBVIOUS
<1>1. jobs = <<>> /\ rendered = <<>> /\ posted = {} /\ \A p \in Polls : todo[p] = <<>> /\ answer[p] = "none"
  BY DEF Init
<1>2. ListOf(<<>>) = {}
  BY DEF ListOf
<1>3. Known = {} /\ Awaited = {}
  BY <1>1, <1>2 DEF Known, Awaited
<1>4. BInv
  BY DEF Init, BInv, StartedIsTracked, SpinnerIsTracked
<1>5. AInv
  BY <1>1, <1>3 DEF Init, AInv, SameSlice, NoneOld, AnswerHasSubject, AnswerIsTrue, Truthful, Outcomes
<1> QED
  BY <1>4, <1>5, InitType, InitRegistry DEF IInv, RInv

\* Every step keeps it.
LEMMA NextInv == ASSUME IInv, [Next]_vars PROVE IInv'
<1>1. TypeOK'
  BY NextType DEF IInv, RInv, AInv
<1>2. RInv' /\ BInv'
  BY NextRegistry, NextTracked DEF IInv, AInv
<1>3. AInv'
  BY NextSameSlice, NextNoneOld, NextSubject, NextTrue, NextTold DEF IInv, AInv
<1> QED
  BY <1>1, <1>2, <1>3 DEF IInv

\* The invariant of every reachable state.
LEMMA Invariant == Spec => []IInv
BY InitInv, NextInv, PTL DEF Spec

\* The domains of the variables; no list of the tracker names a job twice.
THEOREM SliceTypes == Spec => []TypeOK
<1>1. IInv => TypeOK
  BY DEF IInv
<1> QED
  BY <1>1, Invariant, PTL

\* completeJob drops the start time with the job, and renderProgressToast returns
\* without one: no tick over an older list, and no overlapping poll, brings the
\* spinner of a finished job back.
THEOREM NoOrphanSpinner == Spec => []SpinnerIsTracked
<1>1. IInv => SpinnerIsTracked
  BY DEF IInv, BInv
<1> QED
  BY <1>1, Invariant, PTL

\* The sweep takes only jobs that ended half an hour ago: as long as the page polls
\* and the server runs on, a job is kept until the page was told its end.
THEOREM JobsAreKept == Spec => []KeptUntilReported
<1>1. IInv => KeptUntilReported
  BY DEF IInv, AInv, NoneOld, KeptUntilReported, Awaited
<1> QED
  BY <1>1, Invariant, PTL

\* Whatever polls overlap and however late their answers are applied, a user is told
\* of a slice only how that slice itself ended, until a restart deals ids out again.
THEOREM UsersAreToldTheTruth == Spec => []Truthful
<1>1. IInv => Truthful
  BY DEF IInv, AInv
<1> QED
  BY <1>1, Invariant, PTL
=============================================================================
