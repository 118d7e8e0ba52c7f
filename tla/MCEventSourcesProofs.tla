------------------------- MODULE MCEventSourcesProofs -------------------------
(***************************************************************************)
(* TLAPS proofs about the job of MCEventSources.                           *)
(*                                                                         *)
(* First SharedRootBatchEventsSource, whose variables are the job's own,   *)
(* for any number of lanes and of events, any limit and any batch size:    *)
(* the events processed are the first ones of the file, once each, and     *)
(* with the bytes that were written for them.                              *)
(*                                                                         *)
(* Then the sources of one event per read: the invariants proved in        *)
(* EventSourcesProofs, for any numbers, hold in the job whose source they  *)
(* are for.  That module is instantiated with the same variables as        *)
(* EventSources is by MCEventSources, so that what both define is the same.*)
(*                                                                         *)
(* Last PDSFormat, for any numbers, any sizes and any bound of a word: the *)
(* file is laid out as it was written, cut where the outputer died, and    *)
(* the reader stands at the record of the event it counts, or has failed.  *)
(***************************************************************************)
EXTENDS MCEventSources, FiniteSetTheorems, SequenceTheorems, WellFoundedInduction, TLAPS

\* The entries of a file of batches of b, and the events of the k-th of them.
Entries(b) == (NInFile + b - 1) \div b
Held(b, k) == IF (k - 1) * b + b <= NInFile THEN b ELSE NInFile - (k - 1) * b

Asks == [lane : Lanes, index : Int]

Types == /\ maxNEvents \in Nat /\ ievt \in Nat
         /\ eventID \in [Lanes -> Int] /\ index \in [Lanes -> Int]
         /\ pc \in [Lanes -> {"next", "asking", "asked", "decode", "process", "done"}]
         /\ queued \in Seq(Asks) /\ reading \subseteq Asks

\* The cache holds the last entry that was read, and where the next event is in it.
Ids(b, k) == [i \in 1..Held(b, k) |-> (k - 1) * b + i - 1]

Cached(b) == /\ Len(tree) = Entries(b)
             /\ \A k \in 1..Entries(b) : tree[k].ids = Ids(b, k)
             /\ nextEntry \in 0..Entries(b)
             /\ nextEntry = 0 => current.ids = <<>>
             /\ nextEntry > 0 => current.ids = Ids(b, nextEntry)
             /\ cachedEventIndex \in 0..Len(current.ids)

\* The events given to lanes so far are those below this one.
Given(b) == IF nextEntry = 0 THEN 0 ELSE (nextEntry - 1) * b + cachedEventIndex

Waiting == {l \in Lanes : pc[l] \in {"asking", "asked"}}
Asked == IF ievt < maxNEvents THEN ievt ELSE maxNEvents

\* Every index below the limit gets an event as long as there are any.
Counted(b) == /\ Given(b) <= NInFile
              /\ Given(b) + Cardinality(Waiting) <= Asked
              /\ Given(b) = NInFile \/ Given(b) + Cardinality(Waiting) = Asked
              /\ \A l \in Lanes : pc[l] = "done" => ievt >= maxNEvents \/ Given(b) = NInFile

Has(l) == pc[l] \in {"decode", "process"}

\* An event that was given is with one lane or was processed by one.
NotTwice(b) ==
  /\ \A l \in Lanes : Has(l) => /\ eventID[l] \in 0..(Given(b) - 1)
                                /\ \A x \in processed : x[2] # eventID[l]
  /\ \A k, l \in Lanes : Has(k) /\ Has(l) /\ eventID[k] = eventID[l] => k = l
  /\ \A x \in processed : x[2] \in 0..(Given(b) - 1)
  /\ \A x, y \in processed : x[2] = y[2] => x = y

NoneLost(b) == \A e \in 0..(Given(b) - 1) : \/ \E l \in Lanes : Has(l) /\ eventID[l] = e
                                            \/ \E x \in processed : x[2] = e

IInv(b) == Types /\ Cached(b) /\ Counted(b) /\ NotTwice(b) /\ NoneLost(b)

\* The quotient that the number of entries is.
LEMMA Quotient ==
  ASSUME NEW n \in Nat, NEW b \in Nat \ {0}
  PROVE  /\ (n \div b) \in Nat
         /\ b * (n \div b) <= n
         /\ n < b * (n \div b) + b
  OBVIOUS

LEMMA Products3 ==
  ASSUME NEW j \in Nat, NEW k \in Nat, NEW b \in Nat, j <= k
  PROVE  /\ j * b \in Nat /\ k * b \in Nat /\ j * b <= k * b
         /\ (j + 1) * b = j * b + b
         /\ k > 0 => (k - 1) * b = k * b - b
  OBVIOUS

\* What is in the entries of a file of batches of b: every one but the last has
\* b events, the last one what is left, and the ids count on from one to the next.
LEMMA EntryFacts ==
  ASSUME NEW b \in BatchSizes
  PROVE  /\ b \in Nat \ {0} /\ NInFile \in Nat
         /\ Entries(b) \in Nat /\ Len(FileOf(b)) = Entries(b)
         /\ Entries(b) = 0 => NInFile = 0
         /\ \A k \in 1..Entries(b) :
              /\ (k - 1) * b \in Nat /\ Held(b, k) \in Nat \ {0}
              /\ (k - 1) * b + Held(b, k) <= NInFile
              /\ k < Entries(b) => Held(b, k) = b
              /\ k = Entries(b) => (k - 1) * b + Held(b, k) = NInFile
              /\ FileOf(b)[k].ids = Ids(b, k) /\ Len(Ids(b, k)) = Held(b, k)
<1>1. b \in Nat \ {0} /\ NInFile \in Nat
  BY SourceAssumption DEF SourceAssumption
<1>2. NInFile + b - 1 \in Nat
  BY <1>1
<1> DEFINE K == Entries(b)
<1>3. K \in Nat /\ b * K <= NInFile + b - 1 /\ NInFile + b - 1 < b * K + b
  BY <1>1, <1>2, Quotient DEF Entries
<1>4. Len(FileOf(b)) = K
  BY <1>3 DEF FileOf, Entries
<1>5. K = 0 => NInFile = 0
  BY <1>1, <1>3
<1>6. ASSUME NEW k \in 1..K
      PROVE  /\ (k - 1) * b \in Nat /\ Held(b, k) \in Nat \ {0}
             /\ (k - 1) * b + Held(b, k) <= NInFile
             /\ k < K => Held(b, k) = b
             /\ k = K => (k - 1) * b + Held(b, k) = NInFile
  <2>1. /\ k \in Nat /\ k > 0 /\ k <= K
        /\ k * b \in Nat /\ K * b \in Nat /\ k * b <= K * b
        /\ (k - 1) * b = k * b - b /\ (K - 1) * b = K * b - b
    BY <1>1, <1>3, Products3, k \in Nat, k <= K, K > 0
  <2>2. b * K = K * b
    BY <1>1, <1>3
  <2>3. (k - 1) * b \in Nat
    BY <1>1
  <2>4. (k - 1) * b < NInFile
    BY <1>1, <1>3, <2>1, <2>2
  <2>5. k < K => k * b < NInFile
    <3>1. SUFFICES ASSUME k < K PROVE k * b < NInFile
      OBVIOUS
    <3>2. k + 1 <= K /\ k + 1 \in Nat
      BY <3>1, <1>3
    <3>3. (k + 1) * b <= K * b
      BY <3>2, <1>1, <1>3, Products3
    <3>4. (k + 1) * b = k * b + b
      BY <2>1, <1>1, Products3
    <3>5. QED
      BY <3>3, <3>4, <2>1, <2>2, <1>1, <1>3
  <2>6. k = K => (k - 1) * b + b >= NInFile
    BY <2>1, <2>2, <1>1, <1>3
  <2>7. QED
    BY <1>1, <2>1, <2>3, <2>4, <2>5, <2>6 DEF Held
<1>7. ASSUME NEW k \in 1..K
      PROVE  /\ FileOf(b)[k].ids = Ids(b, k) /\ Len(Ids(b, k)) = Held(b, k)
  <2>1. FileOf(b)[k].ids = Ids(b, k)
    BY DEF FileOf, Entries, WriteBatch, Held, Ids
  <2>2. Held(b, k) \in Nat
    BY <1>6
  <2>3. QED
    BY <2>1, <2>2 DEF Ids
<1> HIDE DEF K
<1>8. QED
  BY <1>1, <1>3, <1>4, <1>5, <1>6, <1>7 DEF K

LEMMA WaitingFinite == IsFiniteSet(Waiting) /\ Cardinality(Waiting) \in Nat
<1>1. NLanes \in Nat
  BY SourceAssumption DEF SourceAssumption
<1>2. IsFiniteSet(Lanes)
  BY <1>1, FS_Interval DEF Lanes
<1>3. Waiting \subseteq Lanes
  BY DEF Waiting
<1>4. QED
  BY <1>2, <1>3, FS_Subset, FS_CardinalityType

\* Where the cache stands in the file: at its start, or so far in an entry.
LEMMA WhereTheCacheIs ==
  ASSUME NEW b \in BatchSizes, Cached(b)
  PROVE  /\ Given(b) \in Nat
         /\ nextEntry = 0 => Given(b) = 0 /\ Len(current.ids) = 0 /\ cachedEventIndex = 0
         /\ nextEntry > 0 => /\ nextEntry \in 1..Entries(b)
                             /\ Len(current.ids) = Held(b, nextEntry)
                             /\ Given(b) = (nextEntry - 1) * b + cachedEventIndex
         /\ cachedEventIndex \in Nat /\ cachedEventIndex <= Len(current.ids)
         /\ nextEntry \in Nat
<1>1. Entries(b) \in Nat
  BY EntryFacts
<1>2. nextEntry \in 0..Entries(b)
  BY DEF Cached
<1>3. CASE nextEntry = 0
  <2>1. current.ids = <<>>
    BY <1>3 DEF Cached
  <2>2. Len(current.ids) = 0
    BY <2>1
  <2>3. cachedEventIndex = 0
    BY <2>2 DEF Cached
  <2>4. QED
    BY <1>3, <2>2, <2>3 DEF Given
<1>4. CASE nextEntry > 0
  <2>1. nextEntry \in 1..Entries(b)
    BY <1>1, <1>2, <1>4
  <2>2. current.ids = Ids(b, nextEntry)
    BY <1>4 DEF Cached
  <2>3. Len(current.ids) = Held(b, nextEntry) /\ Held(b, nextEntry) \in Nat
    BY <2>1, <2>2, EntryFacts
  <2>4. cachedEventIndex \in Nat /\ cachedEventIndex <= Len(current.ids)
    BY <2>3 DEF Cached
  <2>5. (nextEntry - 1) * b \in Nat
    BY <2>1, EntryFacts
  <2>6. Given(b) = (nextEntry - 1) * b + cachedEventIndex
    BY <1>4 DEF Given
  <2>7. QED
    BY <1>4, <2>1, <2>3, <2>4, <2>5, <2>6
<1>5. QED
  BY <1>1, <1>2, <1>3, <1>4

LEMMA InitHolds == Init => \E b \in BatchSizes : tree = FileOf(b) /\ IInv(b)
<1>1. SUFFICES ASSUME Init PROVE \E b \in BatchSizes : tree = FileOf(b) /\ IInv(b)
  OBVIOUS
<1>2. PICK b \in BatchSizes : tree = FileOf(b)
  BY <1>1 DEF Init
<1>3. Types
  BY <1>1, SourceAssumption DEF Init, Types, SourceAssumption, NoEvent
<1>4. Cached(b)
  BY SMTT(30), <1>1, <1>2, EntryFacts DEF Init, Cached, Empty
<1>5. Given(b) = 0
  BY <1>1 DEF Init, Given
<1>6. Waiting = {}
  BY <1>1 DEF Init, Waiting
<1>7. Cardinality(Waiting) = 0
  BY <1>6, FS_EmptySet
<1>8. Asked = 0
  BY <1>1, SourceAssumption DEF Init, Asked, SourceAssumption
<1>9. Counted(b)
  BY <1>1, <1>5, <1>7, <1>8, EntryFacts DEF Init, Counted
<1>10. NotTwice(b)
  BY <1>1 DEF Init, NotTwice, Has
<1>11. NoneLost(b)
  BY <1>5 DEF NoneLost
<1>12. QED
  BY <1>2, <1>3, <1>4, <1>9, <1>10, <1>11 DEF IInv

\* A step that neither moves the cache nor changes what lanes hold.
LEMMA SameCache ==
  ASSUME NEW b \in BatchSizes, Cached(b), UNCHANGED <<tree, nextEntry, current, cachedEventIndex>>
  PROVE  Cached(b)' /\ Given(b)' = Given(b)
BY DEF Cached, Given

LEMMA NextIndexKeeps ==
  ASSUME NEW b \in BatchSizes, IInv(b), NEW l \in Lanes, NextIndex(l)
  PROVE  IInv(b)'
<1>1. Types /\ Cached(b) /\ Counted(b) /\ NotTwice(b) /\ NoneLost(b)
  BY DEF IInv
<1>2. /\ pc[l] = "next" /\ pc \in [Lanes -> {"next", "asking", "asked", "decode", "process", "done"}]
      /\ pc' = [pc EXCEPT ![l] = IF ievt < maxNEvents THEN "asking" ELSE "done"]
      /\ ievt' = ievt + 1 /\ ievt \in Nat /\ maxNEvents \in Nat /\ maxNEvents' = maxNEvents
      /\ UNCHANGED <<tree, nextEntry, current, cachedEventIndex, eventID, processed, queued, reading>>
  BY <1>1 DEF NextIndex, Goto, Types, constants, cache, laneInfos, queue
<1>3. Cached(b)' /\ Given(b)' = Given(b) /\ Given(b) \in Nat
  BY <1>1, <1>2, SameCache, WhereTheCacheIs
<1>4. Types'
  <2>1. index' \in [Lanes -> Int]
    BY <1>1, <1>2 DEF Types, NextIndex
  <2>2. pc' \in [Lanes -> {"next", "asking", "asked", "decode", "process", "done"}]
    BY <1>2
  <2>3. ievt' \in Nat
    BY <1>2
  <2>4. QED
    BY <1>1, <1>2, <2>1, <2>2, <2>3 DEF Types
<1>5. Cardinality(Waiting) \in Nat /\ IsFiniteSet(Waiting)
  BY WaitingFinite
<1>6. Counted(b)'
  <2>1. CASE ievt < maxNEvents
    <3>1. Waiting' = Waiting \cup {l} /\ l \notin Waiting
      BY <1>2, <2>1 DEF Waiting
    <3>2. Cardinality(Waiting') = Cardinality(Waiting) + 1
      BY <3>1, <1>5, FS_AddElement
    <3>3. Asked = ievt /\ Asked' = ievt + 1
      BY <1>2, <2>1 DEF Asked
    <3>4. \A k \in Lanes : pc'[k] = "done" => pc[k] = "done"
      BY <1>2, <2>1
    <3>5. QED
      BY <1>1, <1>2, <1>3, <1>5, <3>2, <3>3, <3>4 DEF Counted
  <2>2. CASE ievt >= maxNEvents
    <3>1. Waiting' = Waiting
      BY <1>2, <2>2 DEF Waiting
    <3>2. Asked' = Asked
      BY <1>2, <2>2 DEF Asked
    <3>3. ievt' >= maxNEvents'
      BY <1>2, <2>2
    <3>4. QED
      BY <1>1, <1>3, <3>1, <3>2, <3>3 DEF Counted
  <2>3. QED
    BY <1>2, <2>1, <2>2
<1>7. \A k \in Lanes : Has(k)' <=> Has(k)
  BY <1>2 DEF Has
<1>8. NotTwice(b)' /\ NoneLost(b)'
  BY <1>1, <1>2, <1>3, <1>7 DEF NotTwice, NoneLost
<1>9. QED
  BY <1>3, <1>4, <1>6, <1>8 DEF IInv

LEMMA ReadEventAsyncKeeps ==
  ASSUME NEW b \in BatchSizes, IInv(b), NEW l \in Lanes, ReadEventAsync(l)
  PROVE  IInv(b)'
<1>1. Types /\ Cached(b) /\ Counted(b) /\ NotTwice(b) /\ NoneLost(b)
  BY DEF IInv
<1>2. /\ pc[l] = "asking" /\ pc \in [Lanes -> {"next", "asking", "asked", "decode", "process", "done"}]
      /\ pc' = [pc EXCEPT ![l] = "asked"]
      /\ UNCHANGED <<maxNEvents, ievt, tree, nextEntry, current, cachedEventIndex, eventID, index, processed, reading>>
      /\ queued' = Append(queued, [lane |-> l, index |-> index[l]])
  BY <1>1 DEF ReadEventAsync, Goto, Types, constants, cache, laneInfos, Queue!Submit
<1>3. Cached(b)' /\ Given(b)' = Given(b)
  BY <1>1, <1>2, SameCache
<1>4. Types'
  <2>1. [lane |-> l, index |-> index[l]] \in Asks
    BY <1>1 DEF Types, Asks
  <2>2. queued' \in Seq(Asks)
    BY <1>1, <1>2, <2>1 DEF Types
  <2>3. pc' \in [Lanes -> {"next", "asking", "asked", "decode", "process", "done"}]
    BY <1>2
  <2>4. QED
    BY <1>1, <1>2, <2>2, <2>3 DEF Types
<1>5. Waiting' = Waiting
  BY <1>2 DEF Waiting
<1>6. Asked' = Asked
  BY <1>2 DEF Asked
<1>7. \A k \in Lanes : (Has(k)' <=> Has(k)) /\ (pc'[k] = "done" => pc[k] = "done")
  BY <1>2 DEF Has
<1>8. Counted(b)'
  BY <1>1, <1>2, <1>3, <1>5, <1>6, <1>7 DEF Counted
<1>9. NotTwice(b)' /\ NoneLost(b)'
  BY <1>1, <1>2, <1>3, <1>7 DEF NotTwice, NoneLost
<1>10. QED
  BY <1>3, <1>4, <1>8, <1>9 DEF IInv

LEMMA StartReadKeeps ==
  ASSUME NEW b \in BatchSizes, IInv(b), StartRead
  PROVE  IInv(b)'
<1>1. Types /\ Cached(b) /\ Counted(b) /\ NotTwice(b) /\ NoneLost(b)
  BY DEF IInv
<1>2. /\ UNCHANGED <<maxNEvents, ievt, tree, nextEntry, current, cachedEventIndex, eventID, index, processed, pc>>
      /\ queued # <<>> /\ queued' = Tail(queued) /\ reading' = {Head(queued)}
  BY DEF StartRead, constants, cache, laneInfos, Queue!Begin
<1>3. Cached(b)' /\ Given(b)' = Given(b)
  BY <1>1, <1>2, SameCache
<1>4. queued' \in Seq(Asks) /\ reading' \subseteq Asks
  BY <1>1, <1>2 DEF Types
<1>5. Types'
  BY <1>1, <1>2, <1>4 DEF Types
<1>6. Waiting' = Waiting /\ Asked' = Asked
  BY <1>2 DEF Waiting, Asked
<1>7. \A k \in Lanes : Has(k)' <=> Has(k)
  BY <1>2 DEF Has
<1>8. Counted(b)'
  BY <1>1, <1>2, <1>3, <1>6 DEF Counted
<1>9. NotTwice(b)' /\ NoneLost(b)'
  BY <1>1, <1>2, <1>3, <1>7 DEF NotTwice, NoneLost
<1>10. QED
  BY <1>3, <1>5, <1>8, <1>9 DEF IInv

\* What both ways of giving an event do: the lane gets the next one of the file.
LEMMA GiveKeeps ==
  ASSUME NEW b \in BatchSizes, Types, Cached(b), Counted(b), NotTwice(b), NoneLost(b),
         NEW l \in Lanes, pc[l] = "asked", pc' = [pc EXCEPT ![l] = "decode"],
         eventID' = [eventID EXCEPT ![l] = Given(b)],
         Given(b)' = Given(b) + 1, Given(b) + 1 <= NInFile,
         UNCHANGED <<maxNEvents, ievt, processed>>
  PROVE  Counted(b)' /\ NotTwice(b)' /\ NoneLost(b)'
<1>1. Given(b) \in Nat
  BY WhereTheCacheIs
<1>2. Cardinality(Waiting) \in Nat /\ IsFiniteSet(Waiting)
  BY WaitingFinite
<1>3. /\ pc \in [Lanes -> {"next", "asking", "asked", "decode", "process", "done"}]
      /\ eventID \in [Lanes -> Int]
  BY DEF Types
<1>4. Waiting' = Waiting \ {l} /\ l \in Waiting
  BY <1>3 DEF Waiting
<1>5. Cardinality(Waiting') = Cardinality(Waiting) - 1
  BY <1>2, <1>4, FS_RemoveElement
<1>6. Asked' = Asked /\ NInFile \in Nat
  BY EntryFacts DEF Asked
<1>7. Counted(b)'
  <2>1. \A k \in Lanes : pc'[k] = "done" => pc[k] = "done"
    BY <1>3
  <2>2. Asked \in Nat
    BY DEF Asked, Types
  <2>3. QED
    BY <1>1, <1>2, <1>5, <1>6, <2>1, <2>2 DEF Counted
<1>8. /\ \A k \in Lanes : Has(k)' <=> Has(k) \/ k = l
      /\ \A k \in Lanes : k # l => eventID'[k] = eventID[k]
      /\ eventID'[l] = Given(b) /\ ~Has(l) /\ Has(l)'
  BY <1>3 DEF Has
<1>9. /\ \A k \in Lanes : Has(k) => eventID[k] \in 0..(Given(b) - 1)
      /\ \A x \in processed : x[2] \in 0..(Given(b) - 1)
  BY DEF NotTwice
<1>10. NotTwice(b)'
  BY <1>1, <1>8, <1>9 DEF NotTwice
<1>11. NoneLost(b)'
  <2>1. SUFFICES ASSUME NEW e \in 0..Given(b)
                 PROVE  \/ \E k \in Lanes : Has(k)' /\ eventID'[k] = e
                        \/ \E x \in processed' : x[2] = e
    BY <1>1 DEF NoneLost
  <2>2. CASE e = Given(b)
    BY <1>8, <2>2
  <2>3. CASE e \in 0..(Given(b) - 1)
    BY <1>8, <2>3 DEF NoneLost
  <2>4. QED
    BY <1>1, <2>2, <2>3
<1>12. QED
  BY <1>7, <1>10, <1>11

\* The next entry is read when every event of the one before was given.
LEMMA ReadAheadGives ==
  ASSUME NEW b \in BatchSizes, Cached(b), NEW l \in Lanes, ReadAhead(l), tree' = tree
  PROVE  /\ Cached(b)' /\ Given(b)' = Given(b) + 1 /\ Given(b) + 1 <= NInFile
         /\ pc[l] = "asked" /\ pc' = [pc EXCEPT ![l] = "decode"]
         /\ eventID' = [eventID EXCEPT ![l] = Given(b)]
<1> DEFINE n == nextEntry + 1
<1>1. /\ cachedEventIndex = Len(current.ids) /\ nextEntry < Len(tree)
      /\ nextEntry' = n /\ current' = tree[n]
      /\ cachedEventIndex' = 1
      /\ eventID' = [eventID EXCEPT ![l] = tree[n].ids[1]]
      /\ pc[l] = "asked" /\ pc' = [pc EXCEPT ![l] = "decode"]
  BY DEF ReadAhead, GiveEvent, Goto
<1>2. nextEntry \in Nat /\ Entries(b) \in Nat /\ Len(tree) = Entries(b)
  BY WhereTheCacheIs, EntryFacts DEF Cached
<1>3. n \in 1..Entries(b) /\ n \in Nat /\ n > 0 /\ n - 1 = nextEntry
  BY <1>1, <1>2
<1>4. /\ tree[n].ids = Ids(b, n) /\ Len(Ids(b, n)) = Held(b, n)
      /\ Held(b, n) \in Nat \ {0} /\ (n - 1) * b + Held(b, n) <= NInFile
      /\ (n - 1) * b \in Nat /\ b \in Nat \ {0} /\ NInFile \in Nat
  BY <1>3, EntryFacts DEF Cached
<1>5. Ids(b, n)[1] = (n - 1) * b
  BY <1>4 DEF Ids
<1>6. Given(b) = (n - 1) * b
  <2>1. CASE nextEntry = 0
    BY <2>1, <1>3, <1>4, WhereTheCacheIs
  <2>2. CASE nextEntry > 0
    <3>1. nextEntry \in 1..Entries(b) /\ nextEntry < Entries(b)
      BY <1>1, <1>2, <2>2
    <3>2. Held(b, nextEntry) = b
      BY <3>1, EntryFacts
    <3>3. Given(b) = (nextEntry - 1) * b + b
      BY <1>1, <2>2, <3>2, WhereTheCacheIs
    <3>4. (nextEntry - 1) * b = nextEntry * b - b
      BY <1>2, <1>4, <2>2, Products3
    <3>5. nextEntry * b \in Nat
      BY <1>2, <1>4, Products3
    <3>6. QED
      BY <1>3, <1>4, <3>3, <3>4, <3>5
  <2>3. QED
    BY <1>2, <2>1, <2>2
<1> HIDE DEF n
<1>7. Given(b)' = Given(b) + 1
  <2>1. Given(b)' = (n - 1) * b + 1
    BY <1>1, <1>3 DEF Given
  <2>2. QED
    BY <2>1, <1>6
<1>8. Cached(b)'
  <2>1. current'.ids = Ids(b, n) /\ cachedEventIndex' \in 0..Len(current'.ids)
    BY <1>1, <1>4
  <2>2. nextEntry' \in 0..Entries(b) /\ nextEntry' > 0
    BY <1>1, <1>2, <1>3
  <2>3. QED
    BY <1>1, <1>3, <2>1, <2>2 DEF Cached
<1>9. QED
  BY <1>1, <1>4, <1>5, <1>6, <1>7, <1>8

LEMMA GiveCachedGives ==
  ASSUME NEW b \in BatchSizes, Cached(b), NEW l \in Lanes, GiveCached(l), tree' = tree
  PROVE  /\ Cached(b)' /\ Given(b)' = Given(b) + 1 /\ Given(b) + 1 <= NInFile
         /\ pc[l] = "asked" /\ pc' = [pc EXCEPT ![l] = "decode"]
         /\ eventID' = [eventID EXCEPT ![l] = Given(b)]
<1>1. /\ cachedEventIndex < Len(current.ids)
      /\ nextEntry' = nextEntry /\ current' = current
      /\ cachedEventIndex' = cachedEventIndex + 1
      /\ eventID' = [eventID EXCEPT ![l] = current.ids[cachedEventIndex + 1]]
      /\ pc[l] = "asked" /\ pc' = [pc EXCEPT ![l] = "decode"]
  BY DEF GiveCached, GiveEvent, Goto
<1>2. nextEntry > 0 /\ cachedEventIndex \in Nat
  BY <1>1, WhereTheCacheIs
<1>3. /\ nextEntry \in 1..Entries(b) /\ Len(current.ids) = Held(b, nextEntry)
      /\ Given(b) = (nextEntry - 1) * b + cachedEventIndex
      /\ current.ids = Ids(b, nextEntry)
  BY <1>2, WhereTheCacheIs DEF Cached
<1>4. /\ Held(b, nextEntry) \in Nat \ {0} /\ (nextEntry - 1) * b + Held(b, nextEntry) <= NInFile
      /\ (nextEntry - 1) * b \in Nat /\ NInFile \in Nat
  BY <1>3, EntryFacts
<1>5. current.ids[cachedEventIndex + 1] = (nextEntry - 1) * b + cachedEventIndex
  BY <1>1, <1>2, <1>3, <1>4 DEF Ids
<1>6. Given(b)' = Given(b) + 1
  <2>1. Given(b)' = (nextEntry - 1) * b + (cachedEventIndex + 1)
    BY <1>1, <1>2 DEF Given
  <2>2. QED
    BY <2>1, <1>2, <1>3, <1>4
<1>7. Cached(b)'
  <2>1. cachedEventIndex' \in 0..Len(current'.ids)
    BY <1>1, <1>2, <1>3, <1>4
  <2>2. QED
    BY <1>1, <2>1 DEF Cached
<1>8. QED
  BY <1>1, <1>2, <1>3, <1>4, <1>5, <1>6, <1>7

LEMMA ReadKeeps ==
  ASSUME NEW b \in BatchSizes, IInv(b), Read
  PROVE  IInv(b)'
<1>1. Types /\ Cached(b) /\ Counted(b) /\ NotTwice(b) /\ NoneLost(b)
  BY DEF IInv
<1>2. PICK t \in reading : ReadAhead(t.lane) \/ GiveCached(t.lane) \/ EndOfFile(t.lane)
  BY DEF Read
<1>3. PICK l \in Lanes : l = t.lane
  BY <1>1, <1>2 DEF Types, Asks
<1>4. /\ UNCHANGED <<maxNEvents, ievt, tree, index, processed, queued>> /\ reading' = {}
      /\ pc \in [Lanes -> {"next", "asking", "asked", "decode", "process", "done"}]
      /\ eventID \in [Lanes -> Int]
  BY <1>1 DEF Read, Queue!Complete, constants, Types
<1>5. CASE ReadAhead(l) \/ GiveCached(l)
  <2>1. /\ Cached(b)' /\ Given(b)' = Given(b) + 1 /\ Given(b) + 1 <= NInFile
        /\ pc[l] = "asked" /\ pc' = [pc EXCEPT ![l] = "decode"]
        /\ eventID' = [eventID EXCEPT ![l] = Given(b)]
    BY <1>1, <1>3, <1>4, <1>5, ReadAheadGives, GiveCachedGives
  <2>2. Counted(b)' /\ NotTwice(b)' /\ NoneLost(b)'
    BY <1>1, <1>3, <1>4, <2>1, GiveKeeps
  <2>3. Given(b) \in Int
    BY <1>1, WhereTheCacheIs
  <2>4. eventID' \in [Lanes -> Int]
    BY <1>4, <2>1, <2>3
  <2>5. pc' \in [Lanes -> {"next", "asking", "asked", "decode", "process", "done"}]
    BY <1>4, <2>1
  <2>6. Types'
    BY <1>1, <1>4, <2>4, <2>5 DEF Types
  <2>7. QED
    BY <2>1, <2>2, <2>6 DEF IInv
<1>6. CASE EndOfFile(l)
  <2>1. /\ nextEntry >= Len(tree) /\ cachedEventIndex >= Len(current.ids)
        /\ pc[l] = "asked" /\ pc' = [pc EXCEPT ![l] = "done"]
        /\ UNCHANGED <<nextEntry, current, cachedEventIndex, eventID>>
    BY <1>6 DEF EndOfFile, Goto, cache
  <2>2. Cached(b)' /\ Given(b)' = Given(b)
    BY <1>1, <1>4, <2>1, SameCache
  <2>3. pc' \in [Lanes -> {"next", "asking", "asked", "decode", "process", "done"}]
    BY <1>4, <2>1
  <2>4. Types'
    BY <1>1, <1>4, <2>1, <2>3 DEF Types
  <2>5. Given(b) = NInFile
    <3>1. nextEntry \in Nat /\ nextEntry <= Entries(b) /\ Len(tree) = Entries(b) /\ Entries(b) \in Nat
      BY <1>1, WhereTheCacheIs, EntryFacts DEF Cached
    <3>2. nextEntry = Entries(b)
      BY <2>1, <3>1
    <3>3. CASE nextEntry = 0
      BY <1>1, <3>2, <3>3, WhereTheCacheIs, EntryFacts
    <3>4. CASE nextEntry > 0
      <4>1. nextEntry \in 1..Entries(b) /\ cachedEventIndex = Held(b, nextEntry)
            /\ Given(b) = (nextEntry - 1) * b + cachedEventIndex
        <5>1. nextEntry \in 1..Entries(b) /\ Held(b, nextEntry) \in Nat
          BY <3>1, <3>4, EntryFacts
        <5>2. QED
          BY <1>1, <2>1, <3>4, <5>1, WhereTheCacheIs
      <4>2. (nextEntry - 1) * b + Held(b, nextEntry) = NInFile
        BY <3>2, <4>1, EntryFacts
      <4>3. QED
        BY <4>1, <4>2
    <3>5. QED
      BY <3>1, <3>3, <3>4
  <2>6. Cardinality(Waiting) \in Nat /\ IsFiniteSet(Waiting)
    BY WaitingFinite
  <2>7. Waiting' = Waiting \ {l} /\ l \in Waiting
    BY <1>3, <1>4, <2>1 DEF Waiting
  <2>8. Cardinality(Waiting') = Cardinality(Waiting) - 1
    BY <2>6, <2>7, FS_RemoveElement
  <2>9. Asked' = Asked /\ Asked \in Nat /\ NInFile \in Nat
    BY <1>1, <1>4, EntryFacts DEF Asked, Types
  <2>10. Counted(b)'
    BY <1>1, <2>2, <2>5, <2>6, <2>8, <2>9 DEF Counted
  <2>11. \A k \in Lanes : Has(k)' <=> Has(k)
    BY <1>4, <2>1 DEF Has
  <2>12. NotTwice(b)' /\ NoneLost(b)'
    BY <1>1, <1>4, <2>1, <2>2, <2>11 DEF NotTwice, NoneLost
  <2>13. QED
    BY <2>2, <2>4, <2>10, <2>12 DEF IInv
<1>7. QED
  BY <1>2, <1>3, <1>5, <1>6

LEMMA DeserializeKeeps ==
  ASSUME NEW b \in BatchSizes, IInv(b), NEW l \in Lanes, Deserialize(l)
  PROVE  IInv(b)'
<1>1. Types /\ Cached(b) /\ Counted(b) /\ NotTwice(b) /\ NoneLost(b)
  BY DEF IInv
<1>2. /\ pc[l] = "decode" /\ pc \in [Lanes -> {"next", "asking", "asked", "decode", "process", "done"}]
      /\ pc' = [pc EXCEPT ![l] = "process"]
      /\ UNCHANGED <<maxNEvents, ievt, tree, nextEntry, current, cachedEventIndex, eventID, index, processed, queued, reading>>
  BY <1>1 DEF Deserialize, Goto, Types, constants, cache, queue
<1>3. Cached(b)' /\ Given(b)' = Given(b)
  BY <1>1, <1>2, SameCache
<1>4. pc' \in [Lanes -> {"next", "asking", "asked", "decode", "process", "done"}]
  BY <1>2
<1>5. Types'
  BY <1>1, <1>2, <1>4 DEF Types
<1>6. Waiting' = Waiting /\ Asked' = Asked
  BY <1>2 DEF Waiting, Asked
<1>7. \A k \in Lanes : (Has(k)' <=> Has(k)) /\ (pc'[k] = "done" => pc[k] = "done")
  BY <1>2 DEF Has
<1>8. Counted(b)'
  BY <1>1, <1>2, <1>3, <1>6, <1>7 DEF Counted
<1>9. NotTwice(b)' /\ NoneLost(b)'
  BY <1>1, <1>2, <1>3, <1>7 DEF NotTwice, NoneLost
<1>10. QED
  BY <1>3, <1>5, <1>8, <1>9 DEF IInv

LEMMA ProcessKeeps ==
  ASSUME NEW b \in BatchSizes, IInv(b), NEW l \in Lanes, Process(l)
  PROVE  IInv(b)'
<1>1. Types /\ Cached(b) /\ Counted(b) /\ NotTwice(b) /\ NoneLost(b)
  BY DEF IInv
<1>2. /\ pc[l] = "process" /\ pc \in [Lanes -> {"next", "asking", "asked", "decode", "process", "done"}]
      /\ pc' = [pc EXCEPT ![l] = "next"]
      /\ processed' = processed \cup {<<index[l], eventID[l]>>}
      /\ UNCHANGED <<maxNEvents, ievt, tree, nextEntry, current, cachedEventIndex, eventID, index, queued, reading>>
  BY <1>1 DEF Process, Goto, Types, constants, cache, queue, laneInfos
<1>3. Cached(b)' /\ Given(b)' = Given(b)
  BY <1>1, <1>2, SameCache
<1>4. pc' \in [Lanes -> {"next", "asking", "asked", "decode", "process", "done"}]
  BY <1>2
<1>5. Types'
  BY <1>1, <1>2, <1>4 DEF Types
<1>6. Waiting' = Waiting /\ Asked' = Asked
  BY <1>2 DEF Waiting, Asked
<1>7. \A k \in Lanes : (Has(k)' <=> Has(k) /\ k # l) /\ (pc'[k] = "done" => pc[k] = "done")
  BY <1>2 DEF Has
<1>8. Counted(b)'
  BY <1>1, <1>2, <1>3, <1>6, <1>7 DEF Counted
<1>9. Has(l) /\ \A x \in processed' : x \in processed \/ x[2] = eventID[l]
  BY <1>2 DEF Has
<1>10. \A x, y \in processed' : x[2] = y[2] => x = y
  <2>1. \A x \in processed : x[2] # eventID[l]
    BY <1>1, <1>9 DEF NotTwice
  <2>2. \A x, y \in processed : x[2] = y[2] => x = y
    BY <1>1 DEF NotTwice
  <2>3. <<index[l], eventID[l]>>[2] = eventID[l]
    OBVIOUS
  <2>4. QED
    BY <1>2, <2>1, <2>2, <2>3
<1>11. \A x \in processed' : x[2] \in 0..(Given(b) - 1)
  BY <1>1, <1>9 DEF NotTwice
<1>12. \A k \in Lanes : Has(k)' => /\ eventID[k] \in 0..(Given(b) - 1)
                                   /\ \A x \in processed' : x[2] # eventID[k]
  BY <1>1, <1>7, <1>9 DEF NotTwice
<1>13. \A k, m \in Lanes : Has(k)' /\ Has(m)' /\ eventID[k] = eventID[m] => k = m
  BY <1>1, <1>7 DEF NotTwice
<1>14. NotTwice(b)'
  BY <1>2, <1>3, <1>10, <1>11, <1>12, <1>13 DEF NotTwice
<1>15. NoneLost(b)'
  <2>1. SUFFICES ASSUME NEW e \in 0..(Given(b) - 1)
                 PROVE  \/ \E k \in Lanes : Has(k)' /\ eventID'[k] = e
                        \/ \E x \in processed' : x[2] = e
    BY <1>3 DEF NoneLost
  <2>2. CASE \E x \in processed : x[2] = e
    BY <1>2, <2>2
  <2>3. CASE eventID[l] = e
    <3>1. <<index[l], eventID[l]>> \in processed' /\ <<index[l], eventID[l]>>[2] = e
      BY <1>2, <2>3
    <3>2. QED
      BY <3>1
  <2>4. CASE \E k \in Lanes : k # l /\ Has(k) /\ eventID[k] = e
    BY <1>2, <1>7, <2>4
  <2>5. QED
    BY <1>1, <2>2, <2>3, <2>4 DEF NoneLost
<1>16. QED
  BY <1>3, <1>5, <1>8, <1>14, <1>15 DEF IInv

LEMMA StepKeeps ==
  ASSUME NEW b \in BatchSizes, IInv(b), [Next]_vars
  PROVE  IInv(b)'
<1>1. CASE StartRead
  BY <1>1, StartReadKeeps
<1>2. CASE Read
  BY <1>2, ReadKeeps
<1>3. CASE \E l \in Lanes : LaneStep(l)
  BY <1>3, NextIndexKeeps, ReadEventAsyncKeeps, DeserializeKeeps, ProcessKeeps DEF LaneStep
<1>4. CASE UNCHANGED vars
  <2>1. /\ UNCHANGED <<maxNEvents, ievt, tree, nextEntry, current, cachedEventIndex, eventID, index,
                       processed, queued, reading, pc>>
        /\ Types /\ Cached(b) /\ Counted(b) /\ NotTwice(b) /\ NoneLost(b)
    BY <1>4 DEF vars, constants, cache, queue, laneInfos, IInv
  <2>2. Cached(b)' /\ Given(b)' = Given(b)
    BY <2>1, SameCache
  <2>3. Types' /\ Waiting' = Waiting /\ Asked' = Asked /\ \A k \in Lanes : Has(k)' <=> Has(k)
    BY <2>1 DEF Types, Waiting, Asked, Has
  <2>4. Counted(b)' /\ NotTwice(b)' /\ NoneLost(b)'
    BY <2>1, <2>2, <2>3 DEF Counted, NotTwice, NoneLost
  <2>5. QED
    BY <2>2, <2>3, <2>4 DEF IInv
<1>5. QED
  BY <1>1, <1>2, <1>3, <1>4 DEF Next, Finished

LEMMA AllDone ==
  ASSUME NEW b \in BatchSizes, IInv(b)
  PROVE  FirstEventsOnce
<1>1. SUFFICES ASSUME \A l \in Lanes : pc[l] = "done"
               PROVE  /\ {x[2] : x \in processed} = {e \in InFile : e < maxNEvents}
                      /\ \A x, y \in processed : x[2] = y[2] => x = y
  BY DEF FirstEventsOnce
<1>2. Types /\ Cached(b) /\ Counted(b) /\ NotTwice(b) /\ NoneLost(b)
  BY DEF IInv
<1>3. Waiting = {} /\ Cardinality(Waiting) = 0
  BY <1>1, FS_EmptySet DEF Waiting
<1>4. NInFile \in Nat /\ Given(b) \in Nat /\ maxNEvents \in Nat /\ ievt \in Nat
  BY <1>2, EntryFacts, WhereTheCacheIs DEF Types
<1>5. 0 \in Lanes
  BY SourceAssumption DEF SourceAssumption, Lanes
<1>6. ievt >= maxNEvents \/ Given(b) = NInFile
  BY <1>1, <1>2, <1>5 DEF Counted
<1>7. Given(b) <= NInFile /\ Given(b) <= maxNEvents /\ (Given(b) = NInFile \/ Given(b) = maxNEvents)
  BY <1>2, <1>3, <1>4, <1>6 DEF Counted, Asked
<1>8. {e \in InFile : e < maxNEvents} = 0..(Given(b) - 1)
  BY <1>4, <1>7 DEF InFile
<1>9. {x[2] : x \in processed} = 0..(Given(b) - 1)
  <2>1. \A x \in processed : x[2] \in 0..(Given(b) - 1)
    BY <1>2 DEF NotTwice
  <2>2. \A e \in 0..(Given(b) - 1) : \E x \in processed : x[2] = e
    BY <1>1, <1>2 DEF NoneLost, Has
  <2>3. QED
    BY <2>1, <2>2
<1>10. QED
  BY <1>2, <1>8, <1>9 DEF NotTwice

\* For any number of lanes and events in the file, any limit and any batch size,
\* the events processed are the first ones of the file up to the limit, none of
\* them twice: every index that may still get an event is that of a lane that
\* waits for one, and what the source read ahead is given before it ends.
THEOREM FirstOnce == Spec => []FirstEventsOnce
<1>1. Init => \E b \in BatchSizes : IInv(b)
  BY InitHolds
<1>2. (\E b \in BatchSizes : IInv(b)) /\ [Next]_vars => (\E b \in BatchSizes : IInv(b))'
  BY StepKeeps
<1>3. (\E b \in BatchSizes : IInv(b)) => FirstEventsOnce
  BY AllDone
<1>4. QED
  BY <1>1, <1>2, <1>3, PTL DEF Spec

----------------------------------------------------------------------------
\* Sequences: the library's FlattenSeq and FoldLeft are recursive functions, so that
\* their values are not found by expanding them.  FlattenJoins and FoldSums show that a
\* function that does what they do step by step exists and is the one they choose; the
\* smallest place at which that fails (Smallest) takes the place of the induction.

\* Induction over the subsets of a finite set, and over natural numbers: what holds
\* for some has a smallest.
LEMMA SmallestSubset ==
  ASSUME NEW S, IsFiniteSet(S), NEW T, T \subseteq SUBSET S, T # {}
  PROVE  \E s \in T : \A r \in T : r \subseteq s => r = s
<1>1. IsWellFoundedOn(StrictSubsetOrdering(S), FiniteSubsetsOf(S))
  BY FS_StrictSubsetOrderingWellFounded
<1>2. T \subseteq FiniteSubsetsOf(S)
  BY FS_Subset DEF FiniteSubsetsOf
<1>3. \E s \in T : \A r \in T : ~ (<<r, s>> \in StrictSubsetOrdering(S))
  BY <1>1, <1>2, WFMin
<1>4. QED
  BY <1>3 DEF StrictSubsetOrdering

LEMMA Smallest ==
  ASSUME NEW T, T \subseteq Nat, T # {}
  PROVE  \E n \in T : \A m \in T : n <= m
<1>1. PICK k \in T : TRUE
  OBVIOUS
<1> DEFINE F == {0..(n - 1) : n \in {m \in T : m <= k}}
<1>2. IsFiniteSet(0..(k - 1))
  BY FS_Interval
<1>3. F \subseteq SUBSET (0..(k - 1)) /\ F # {}
  OBVIOUS
<1>4. \E s \in F : \A r \in F : r \subseteq s => r = s
  <2>1. PICK G, I : G = F /\ I = 0..(k - 1)
    OBVIOUS
  <2>2. IsFiniteSet(I) /\ G \in SUBSET SUBSET I /\ G # {}
    BY <1>2, <1>3, <2>1
  <2>3. \E s \in G : \A r \in G : r \subseteq s => r = s
    BY <2>2, SmallestSubset
  <2>4. QED
    BY <2>1, <2>3
<1>5. PICK n \in T : n <= k /\ \A r \in F : r \subseteq 0..(n - 1) => r = 0..(n - 1)
  BY <1>4
<1>6. ASSUME NEW m \in T, m < n PROVE FALSE
  <2>1. 0..(m - 1) \in F /\ 0..(m - 1) \subseteq 0..(n - 1)
    BY <1>5, <1>6
  <2>2. 0..(m - 1) = 0..(n - 1)
    BY <1>5, <2>1
  <2>3. n - 1 \in 0..(n - 1) /\ n - 1 \notin 0..(m - 1)
    BY <1>6
  <2>4. QED
    BY <2>2, <2>3
<1>7. QED
  BY <1>6

\* The beginnings of what a sequence of sequences is put together to: f[i] has the
\* first i of them.
Joins(f, s, V) == /\ f \in [0..Len(s) -> Seq(V)]
                  /\ f[0] = <<>>
                  /\ \A i \in 1..Len(s) : f[i] = f[i - 1] \o s[i]

LEMMA JoinedAre ==
  ASSUME NEW V, NEW s \in Seq(Seq(V))
  PROVE  Len(s) \in Nat /\ \A i \in 1..Len(s) : s[i] \in Seq(V)
OBVIOUS

LEMMA JoinFacts ==
  ASSUME NEW V, NEW s \in Seq(Seq(V)), NEW f, Joins(f, s, V)
  PROVE  /\ f[0] = <<>> /\ \A i \in 0..Len(s) : f[i] \in Seq(V)
         /\ \A i \in 1..Len(s) : f[i] = f[i - 1] \o s[i]
BY DEF Joins

LEMMA JoinExists ==
  ASSUME NEW V, NEW s \in Seq(Seq(V)) PROVE \E f : Joins(f, s, V)
<1> DEFINE P(f, n) == /\ f \in [0..n -> Seq(V)] /\ f[0] = <<>>
                      /\ \A i \in 1..n : f[i] = f[i - 1] \o s[i]
           T == {n \in 0..Len(s) : ~ \E f : P(f, n)}
<1>1. Len(s) \in Nat /\ \A i \in 1..Len(s) : s[i] \in Seq(V)
  OBVIOUS
<1>2. SUFFICES ASSUME T # {} PROVE FALSE
  <2>1. Len(s) \in 0..Len(s)
    BY <1>1
  <2>2. PICK f : P(f, Len(s))
    BY <2>1
  <2>3. Joins(f, s, V)
    BY <2>2 DEF Joins
  <2>4. QED
    BY <2>3
<1>3. PICK n \in T : \A m \in T : n <= m
  <2>1. \A m \in 0..Len(s) : m \in Nat
    BY <1>1
  <2>2. T \subseteq Nat
    BY <2>1
  <2> HIDE DEF T
  <2>3. QED
    BY <1>2, <2>2, Smallest
<1>4. CASE n = 0
  <2>1. P([i \in 0..0 |-> <<>>], 0)
    OBVIOUS
  <2>2. QED
    BY <1>3, <1>4, <2>1
<1>5. CASE n # 0
  <2>1. n - 1 \in 0..Len(s) /\ n - 1 \notin T /\ n \in 1..Len(s)
    <3>1. n \in 0..Len(s) /\ n - 1 \in 0..Len(s) /\ n \in 1..Len(s)
      BY <1>1, <1>3, <1>5
    <3>2. ~ (n <= n - 1)
      BY <3>1
    <3>3. QED
      BY <1>3, <3>1, <3>2
  <2>2. PICK g : P(g, n - 1)
    BY <2>1
  <2> DEFINE f == [i \in 0..n |-> IF i = n THEN g[n - 1] \o s[n] ELSE g[i]]
  <2>3. f \in [0..n -> Seq(V)]
    <3>1. g[n - 1] \o s[n] \in Seq(V)
      BY <1>1, <2>1, <2>2
    <3>2. ASSUME NEW i \in 0..n, i # n PROVE g[i] \in Seq(V)
      BY <2>2, <3>2
    <3>3. QED
      BY <3>1, <3>2
  <2>4. f[0] = <<>>
    BY <2>1, <2>2
  <2>5. ASSUME NEW i \in 1..n PROVE f[i] = f[i - 1] \o s[i]
    <3>1. CASE i = n
      <4>1. i \in 0..n /\ i - 1 \in 0..n /\ i - 1 # n
        BY <2>1, <3>1
      <4>2. f[i] = g[n - 1] \o s[n]
        BY <3>1, <4>1
      <4>3. f[i - 1] = g[i - 1]
        BY <4>1
      <4>4. QED
        BY <3>1, <4>2, <4>3
    <3>2. CASE i # n
      <4>1. i \in 1..(n - 1) /\ f[i] = g[i] /\ f[i - 1] = g[i - 1]
        BY <2>1, <3>2
      <4>2. QED
        BY <2>2, <4>1
    <3>3. QED
      BY <3>1, <3>2
  <2>6. P(f, n)
    BY <2>3, <2>4, <2>5
  <2>7. QED
    BY <1>3, <2>6
<1>6. QED
  BY <1>4, <1>5

\* FlattenSeq is that function: its recursive definition has one solution.
LEMMA FlattenJoins ==
  ASSUME NEW V, NEW s \in Seq(Seq(V)), NEW f, Joins(f, s, V)
  PROVE  FlattenSeq(s) = f[Len(s)]
<1>1. /\ Len(s) \in Nat /\ f[0] = <<>>
      /\ \A i \in 1..Len(s) : s[i] \in Seq(V) /\ f[i] = f[i - 1] \o s[i]
  BY JoinedAre, JoinFacts
<1>2. CASE Len(s) = 0
  <2>1. s = <<>> /\ FlattenSeq(s) = s
    BY <1>2 DEF FlattenSeq
  <2>2. QED
    BY <1>1, <1>2, <2>1
<1>3. CASE Len(s) # 0
  <2> DEFINE Step(g) == [i \in 1..Len(s) |-> IF i = 1 THEN s[i] ELSE g[i - 1] \o s[i]]
             flatten == CHOOSE g : g = Step(g)
             h == [i \in 1..Len(s) |-> f[i]]
  <2>1. FlattenSeq(s) = flatten[Len(s)]
    BY <1>3 DEF FlattenSeq
  <2>2. h = Step(h)
    <3>1. ASSUME NEW i \in 1..Len(s)
          PROVE  h[i] = IF i = 1 THEN s[i] ELSE h[i - 1] \o s[i]
      <4>1. CASE i = 1
        <5>1. <<>> \o s[i] = s[i]
          BY <1>1
        <5>2. f[i] = f[0] \o s[i]
          <6>1. i - 1 = 0
            BY <4>1
          <6>2. QED
            BY <1>1, <6>1
        <5>3. QED
          BY <1>1, <4>1, <5>1, <5>2
      <4>2. CASE i # 1
        <5>1. i - 1 \in 1..Len(s) /\ h[i - 1] = f[i - 1]
          BY <1>1, <4>2
        <5>2. QED
          BY <1>1, <4>2, <5>1
      <4>3. QED
        BY <4>1, <4>2
    <3>2. QED
      BY <3>1
  <2> HIDE DEF h
  <2>3. flatten = Step(flatten)
    BY <2>2
  <2> HIDE DEF flatten
  <2> DEFINE T == {i \in 1..Len(s) : flatten[i] # h[i]}
  <2>4. SUFFICES ASSUME T # {} PROVE FALSE
    <3>1. Len(s) \in 1..Len(s)
      BY <1>1, <1>3
    <3>2. flatten[Len(s)] = h[Len(s)]
      BY <3>1
    <3>3. QED
      BY <2>1, <3>1, <3>2 DEF h
  <2>5. PICK n \in T : \A m \in T : n <= m
    <3>1. T \subseteq Nat
      OBVIOUS
    <3> HIDE DEF T
    <3>2. QED
      BY <2>4, <3>1, Smallest
  <2>6. n \in 1..Len(s) /\ flatten[n] # h[n]
    OBVIOUS
  <2>7. /\ flatten[n] = IF n = 1 THEN s[n] ELSE flatten[n - 1] \o s[n]
        /\ h[n] = IF n = 1 THEN s[n] ELSE h[n - 1] \o s[n]
    BY <2>2, <2>3, <2>6
  <2>8. n # 1 => flatten[n - 1] = h[n - 1]
    <3>1. n # 1 => n - 1 \in 1..Len(s) /\ n - 1 \notin T
      BY <1>1, <2>5, <2>6
    <3>2. QED
      BY <3>1
  <2>9. QED
    BY <2>6, <2>7, <2>8
<1>4. QED
  BY <1>2, <1>3

\* The first n of the sequences.
LEMMA JoinOfFirst ==
  ASSUME NEW V, NEW s \in Seq(Seq(V)), NEW f, Joins(f, s, V), NEW n \in 0..Len(s)
  PROVE  FlattenSeq(SubSeq(s, 1, n)) = f[n]
<1> DEFINE t == SubSeq(s, 1, n)
           g == [i \in 0..n |-> f[i]]
<1>1. Len(s) \in Nat /\ \A i \in 1..Len(s) : s[i] \in Seq(V)
  OBVIOUS
<1>2. t \in Seq(Seq(V)) /\ Len(t) = n /\ \A i \in 1..n : t[i] = s[i]
  BY <1>1
<1>3. Joins(g, t, V)
  <2>1. /\ f \in [0..Len(s) -> Seq(V)] /\ f[0] = <<>>
        /\ \A i \in 1..Len(s) : f[i] = f[i - 1] \o s[i]
    BY DEF Joins
  <2>2. g \in [0..n -> Seq(V)] /\ g[0] = <<>>
    BY <1>1, <2>1
  <2>3. ASSUME NEW i \in 1..n PROVE g[i] = g[i - 1] \o t[i]
    <3>1. i \in 1..Len(s) /\ g[i] = f[i] /\ g[i - 1] = f[i - 1]
      BY <1>1
    <3>2. QED
      BY <1>2, <2>1, <3>1
  <2> HIDE DEF g, t
  <2>4. QED
    BY <1>2, <2>2, <2>3 DEF Joins
<1>4. FlattenSeq(t) = g[n]
  <2> HIDE DEF g, t
  <2> QED
    BY <1>2, <1>3, FlattenJoins
<1>5. QED
  BY <1>4

LEMMA Behind ==
  ASSUME NEW a \in Nat, NEW b \in Nat, NEW i \in 1..b
  PROVE  a + i \in 1..(a + b) /\ ~ (a + i <= a)
OBVIOUS

\* The n-th of the sequences is in the first k put together, behind the first n - 1.
StandsIn(f, s, n, k) ==
  /\ Len(f[n - 1]) \in Nat /\ Len(s[n]) \in Nat
  /\ Len(f[n]) = Len(f[n - 1]) + Len(s[n])
  /\ Len(f[n]) <= Len(f[k])
  /\ \A i \in 1..Len(s[n]) : f[k][Len(f[n - 1]) + i] = s[n][i]

LEMMA JoinIsLonger ==
  ASSUME NEW V, NEW s \in Seq(Seq(V)), NEW f, Joins(f, s, V), NEW n \in 1..Len(s),
         NEW k \in n..Len(s)
  PROVE  StandsIn(f, s, n, k)
<1>1. Len(s) \in Nat /\ \A i \in 0..Len(s) : f[i] \in Seq(V)
  BY JoinedAre, JoinFacts
<1>2. /\ f[n - 1] \in Seq(V) /\ s[n] \in Seq(V) /\ f[n] = f[n - 1] \o s[n]
  <2>1. n - 1 \in 0..Len(s)
    BY <1>1
  <2>2. QED
    BY <1>1, <2>1, JoinedAre, JoinFacts
<1>3. Len(f[n - 1]) \in Nat /\ Len(f[n]) = Len(f[n - 1]) + Len(s[n]) /\ Len(s[n]) \in Nat
  BY <1>2
<1> DEFINE Found(j) == /\ Len(f[n]) <= Len(f[j])
                       /\ \A i \in 1..Len(s[n]) : f[j][Len(f[n - 1]) + i] = s[n][i]
           T == {j \in n..Len(s) : ~ Found(j)}
<1>4. SUFFICES ASSUME T # {} PROVE FALSE
  <2>1. k \notin T => StandsIn(f, s, n, k)
    BY <1>3 DEF StandsIn
  <2>2. QED
    BY <2>1
<1>5. PICK j \in T : \A m \in T : j <= m
  <2>1. T \subseteq Nat
    BY <1>1
  <2> HIDE DEF T
  <2>2. QED
    BY <1>4, <2>1, Smallest
<1>6. CASE j = n
  <2>1. ASSUME NEW i \in 1..Len(s[n]) PROVE f[n][Len(f[n - 1]) + i] = s[n][i]
    <3>1. /\ Len(f[n - 1]) + i \in 1..(Len(f[n - 1]) + Len(s[n]))
          /\ ~ (Len(f[n - 1]) + i <= Len(f[n - 1]))
      BY <1>3, Behind
    <3>2. QED
      BY <1>2, <1>3, <3>1, ConcatProperties
  <2>2. Found(n)
    BY <1>3, <2>1
  <2>3. QED
    BY <1>5, <1>6, <2>2
<1>7. CASE j # n
  <2>1. j - 1 \in n..Len(s) /\ j - 1 \in 0..Len(s) /\ j \in 1..Len(s) /\ Found(j - 1)
    <3>1. j \in n..Len(s) /\ j - 1 \in n..Len(s) /\ ~ (j <= j - 1)
      BY SMTT(30), <1>1, <1>5, <1>7
    <3>2. j - 1 \notin T
      BY <1>5, <3>1
    <3>3. QED
      BY <1>1, <3>1, <3>2
  <2>2. f[j] = f[j - 1] \o s[j] /\ f[j - 1] \in Seq(V) /\ s[j] \in Seq(V)
    BY ZenonT(30), <1>1, <2>1, JoinedAre, JoinFacts
  <2>3. Len(f[j]) = Len(f[j - 1]) + Len(s[j]) /\ Len(s[j]) \in Nat /\ Len(f[j - 1]) \in Nat
    BY SMTT(30), <2>2
  <2>4. ASSUME NEW i \in 1..Len(f[j - 1]) PROVE f[j][i] = f[j - 1][i]
    <3>1. i \in 1..(Len(f[j - 1]) + Len(s[j])) /\ i <= Len(f[j - 1])
      <4>1. ASSUME NEW a \in Nat, NEW b \in Nat, NEW c \in 1..a
            PROVE  c \in 1..(a + b) /\ c <= a
        OBVIOUS
      <4>2. QED
        BY <2>3, <4>1
    <3>2. QED
      BY <2>2, <3>1, ConcatProperties
  <2>5. Found(j)
    <3>1. Len(f[n]) <= Len(f[j])
      <4>1. Len(f[n]) <= Len(f[j - 1])
        BY <2>1
      <4>2. ASSUME NEW a \in Nat, NEW b \in Nat, NEW c \in Nat, c <= a PROVE c <= a + b
        BY <4>2
      <4>3. Len(f[n]) \in Nat
        <5>1. ASSUME NEW a \in Nat, NEW b \in Nat PROVE a + b \in Nat
          OBVIOUS
        <5>2. QED
          BY <1>3, <5>1
      <4>4. QED
        BY <2>3, <4>1, <4>2, <4>3
    <3>2. ASSUME NEW i \in 1..Len(s[n]) PROVE f[j][Len(f[n - 1]) + i] = s[n][i]
      <4>1. Len(f[n - 1]) + i \in 1..Len(f[j - 1])
        <5>1. ASSUME NEW a \in Nat, NEW b \in Nat, NEW d \in Nat, NEW c \in 1..b,
                     a + b <= d
              PROVE  a + c \in 1..d
          BY <5>1
        <5>2. Len(f[n - 1]) + Len(s[n]) <= Len(f[j - 1])
          BY <1>3, <2>1
        <5>3. QED
          BY <1>3, <2>3, <5>1, <5>2
      <4>2. QED
        BY <2>1, <2>4, <4>1
    <3>3. QED
      BY <3>1, <3>2
  <2>6. QED
    BY <1>5, <2>5
<1>8. QED
  BY <1>6, <1>7

\* What adds up the numbers of a sequence at the places of a set, its last one last.
Sums(g, s, n) ==
  /\ g \in [SUBSET (1..n) -> Nat] /\ g[{}] = 0
  /\ \A S \in SUBSET (1..n) : \A k \in S : (\A j \in S : j <= k) => g[S] = g[S \ {k}] + s[k]

LEMMA SumsExist ==
  ASSUME NEW N \in Nat, NEW s \in [1..N -> Nat] PROVE \E g : Sums(g, s, N)
<1> DEFINE T == {n \in 0..N : ~ \E g : Sums(g, s, n)}
<1>1. SUFFICES ASSUME T # {} PROVE FALSE
  <2>1. N \in 0..N
    OBVIOUS
  <2>2. QED
    BY <2>1
<1>2. PICK n \in T : \A m \in T : n <= m
  <2>1. T \subseteq Nat
    OBVIOUS
  <2> HIDE DEF T
  <2>2. QED
    BY <1>1, <2>1, Smallest
<1>3. CASE n = 0
  <2>1. 1..0 = {}
    OBVIOUS
  <2>2. Sums([S \in SUBSET {} |-> 0], s, 0)
    BY <2>1 DEF Sums
  <2>3. QED
    BY <1>2, <1>3, <2>2
<1>4. CASE n # 0
  <2>1. n \in 1..N /\ n - 1 \in 0..N /\ n - 1 \notin T /\ s[n] \in Nat
    BY <1>2, <1>4
  <2>2. PICK h : Sums(h, s, n - 1)
    BY <2>1
  <2> DEFINE g == [S \in SUBSET (1..n) |-> IF n \in S THEN h[S \ {n}] + s[n] ELSE h[S]]
  <2>3. \A S \in SUBSET (1..n) : /\ S \ {n} \in SUBSET (1..(n - 1))
                                 /\ n \notin S => S \in SUBSET (1..(n - 1))
    BY <2>1
  <2>4. h \in [SUBSET (1..(n - 1)) -> Nat] /\ h[{}] = 0
    BY <2>2 DEF Sums
  <2>5. g \in [SUBSET (1..n) -> Nat] /\ g[{}] = 0
    BY <2>1, <2>3, <2>4
  <2>6. ASSUME NEW S \in SUBSET (1..n), NEW k \in S, \A j \in S : j <= k
        PROVE  g[S] = g[S \ {k}] + s[k]
    <3>1. S \ {k} \in SUBSET (1..n)
      OBVIOUS
    <3>2. CASE n \in S
      <4>1. k = n
        BY <2>1, <2>6, <3>2
      <4>2. g[S] = h[S \ {n}] + s[n] /\ g[S \ {k}] = h[S \ {n}]
        BY <3>1, <3>2, <4>1
      <4>3. QED
        BY <4>1, <4>2
    <3>3. CASE n \notin S
      <4>1. g[S] = h[S] /\ g[S \ {k}] = h[S \ {k}]
        BY <3>1, <3>3
      <4>2. h[S] = h[S \ {k}] + s[k]
        BY <2>2, <2>3, <2>6, <3>3 DEF Sums
      <4>3. QED
        BY <4>1, <4>2
    <3>4. QED
      BY <3>2, <3>3
  <2>7. Sums(g, s, n)
    BY <2>5, <2>6 DEF Sums
  <2>8. QED
    BY <1>2, <2>7
<1>5. QED
  BY <1>3, <1>4

LEMMA MaxIsLargest ==
  ASSUME NEW n \in Nat, NEW S \in SUBSET (1..n), S # {}
  PROVE  Max(S) \in S /\ \A j \in S : j <= Max(S)
<1> DEFINE T == {m \in 0..n : \A j \in S : j <= m}
<1>1. T \subseteq Nat /\ n \in T
  OBVIOUS
<1>2. PICK m \in T : \A k \in T : m <= k
  <2> HIDE DEF T
  <2> QED
    BY <1>1, Smallest
<1>3. m \in S
  <2>1. SUFFICES ASSUME m \notin S PROVE FALSE
    OBVIOUS
  <2>2. \A j \in S : j \in Nat /\ j >= 1 /\ j <= m /\ j # m /\ m \in 0..n
    BY <1>2, <2>1
  <2>3. m - 1 \in 0..n /\ \A j \in S : j <= m - 1
    <3>1. \A j \in S : j <= m - 1
      BY <2>2
    <3>2. PICK j \in S : TRUE
      OBVIOUS
    <3>3. m >= 1
      BY <2>2, <3>2
    <3>4. QED
      BY <2>2, <3>1, <3>3
  <2>4. m - 1 \in T
    BY <2>3
  <2>5. QED
    BY <1>2, <2>4
<1>4. \E x \in S : \A y \in S : x >= y
  BY <1>2, <1>3
<1>5. Max(S) \in S /\ \A y \in S : Max(S) >= y
  BY <1>4 DEF Max
<1>6. QED
  BY <1>5

\* The sum of a sequence, from its partial sums.
LEMMA FoldSums ==
  ASSUME NEW n \in Nat, NEW s \in [1..n -> Nat], NEW F \in [0..n -> Nat], F[0] = 0,
         \A i \in 1..n : F[i] = F[i - 1] + s[i]
  PROVE  FoldLeft(+, 0, s) = F[n]
<1> DEFINE Step(g) == [S \in SUBSET (1..n) |->
                         IF S = {} THEN 0 ELSE g[S \ {Max(S)}] + s[Max(S)]]
           it == CHOOSE g : g = Step(g)
<1>1. FoldLeft(+, 0, s) = it[1..n]
  BY DEF FoldLeft, MapThenFoldSet
<1>2. PICK g : Sums(g, s, n)
  BY SumsExist
<1>3. g = Step(g)
  <2>1. \A S \in SUBSET (1..n) : S # {} => g[S] = g[S \ {Max(S)}] + s[Max(S)]
    BY <1>2, MaxIsLargest DEF Sums
  <2>2. QED
    BY <1>2, <2>1 DEF Sums
<1>4. it = Step(it)
  BY <1>3
<1> HIDE DEF it
<1> DEFINE T == {i \in 0..n : it[1..i] # F[i]}
<1>5. SUFFICES ASSUME T # {} PROVE FALSE
  <2>1. n \in 0..n
    OBVIOUS
  <2>2. it[1..n] = F[n]
    BY <2>1
  <2>3. QED
    BY <1>1, <2>2
<1>6. PICK i \in T : \A m \in T : i <= m
  <2>1. T \subseteq Nat
    OBVIOUS
  <2> HIDE DEF T
  <2>2. QED
    BY <1>5, <2>1, Smallest
<1>7. 1..i \in SUBSET (1..n)
  BY <1>6
<1>8. CASE i = 0
  <2>1. 1..i = {}
    BY <1>8
  <2>2. it[1..i] = 0
    BY <1>4, <1>7, <2>1
  <2>3. QED
    BY <1>6, <1>8, <2>2
<1>9. CASE i # 0
  <2>1. i \in 1..n /\ i - 1 \in 0..n /\ i - 1 \notin T
    BY <1>6, <1>9
  <2>2. it[1..(i - 1)] = F[i - 1]
    BY <2>1
  <2>3. Max(1..i) = i
    <3>1. i \in 1..i
      BY <2>1
    <3>2. Max(1..i) \in 1..i /\ i <= Max(1..i)
      BY <1>7, <3>1, MaxIsLargest
    <3>3. QED
      BY <2>1, <3>2
  <2>4. (1..i) \ {i} = 1..(i - 1) /\ 1..i # {}
    <3>1. i \in Nat /\ i >= 1
      BY <2>1
    <3>2. i \in 1..i
      BY <3>1
    <3>3. ASSUME NEW j \in 1..i, j # i PROVE j \in 1..(i - 1)
      BY <3>1, <3>3
    <3>4. ASSUME NEW j \in 1..(i - 1) PROVE j \in (1..i) \ {i}
      BY <3>1
    <3>5. QED
      BY <3>2, <3>3, <3>4
  <2>5. it[1..i] = it[1..(i - 1)] + s[i]
    <3>1. it[1..i] = it[(1..i) \ {Max(1..i)}] + s[Max(1..i)]
      BY <1>4, <1>7, <2>4
    <3>2. QED
      BY <2>3, <2>4, <3>1
  <2>6. QED
    BY <1>6, <2>1, <2>2, <2>5
<1>10. QED
  BY <1>8, <1>9

\* The piece of a sequence at which another one is found.
LEMMA CutOut ==
  ASSUME NEW V, NEW whole \in Seq(V), NEW part \in Seq(V), NEW a \in Nat, NEW z \in Nat,
         z = a + Len(part), z <= Len(whole),
         \A i \in 1..Len(part) : whole[a + i] = part[i]
  PROVE  SubSeq(whole, a + 1, z) = part
<1> DEFINE cut == SubSeq(whole, a + 1, z)
<1>1. PICK n \in Nat, m \in Nat : n = Len(part) /\ m = Len(whole)
  OBVIOUS
<1>2. \A i \in (a + 1)..z : whole[i] \in V
  <2>1. \A i \in (a + 1)..z : i \in 1..m
    BY <1>1
  <2>2. QED
    BY <1>1, <2>1, ElementOfSeq
<1>3. /\ cut \in Seq(V) /\ Len(cut) = IF a + 1 <= z THEN z - (a + 1) + 1 ELSE 0
      /\ \A i \in 1..(z - (a + 1) + 1) : cut[i] = whole[a + 1 + i - 1]
  BY SMTT(30), <1>2, SubSeqProperties, a + 1 \in Int, z \in Int
<1> HIDE DEF cut
<1>4. Len(cut) = n /\ z - (a + 1) + 1 = n
  BY <1>1, <1>3
<1>5. ASSUME NEW i \in 1..n PROVE cut[i] = part[i]
  <2>1. a + 1 + i - 1 = a + i
    OBVIOUS
  <2>2. QED
    BY <1>1, <1>3, <1>4, <2>1
<1>6. cut = part
  BY <1>1, <1>3, <1>4, <1>5, SeqEqual
<1>7. QED
  BY <1>6 DEF cut
----------------------------------------------------------------------------
\* The bytes of an event, in the buffer of its batch.

Byte == InFile \X Products \X Nat

\* The sizes are those of the source's file.
Sized == sizeOf \in [InFile -> [Products -> Nat]]

Blobs(e) == [p \in Products |-> Blob(e, p)]

LEMMA BlobFacts ==
  ASSUME Sized, NEW e \in InFile
  PROVE  /\ NProducts \in Nat \ {0}
         /\ Blobs(e) \in Seq(Seq(Byte)) /\ Len(Blobs(e)) = NProducts
         /\ \A p \in Products : /\ Blobs(e)[p] = Blob(e, p) /\ Blob(e, p) \in Seq(Byte)
                                /\ sizeOf[e][p] \in Nat /\ Len(Blob(e, p)) = sizeOf[e][p]
<1>1. NProducts \in Nat \ {0}
  BY SourceAssumption DEF SourceAssumption
<1>2. ASSUME NEW p \in Products
      PROVE  /\ Blob(e, p) \in Seq(Byte) /\ sizeOf[e][p] \in Nat
             /\ Len(Blob(e, p)) = sizeOf[e][p]
  <2>1. PICK n \in Nat : n = sizeOf[e][p]
    BY DEF Sized
  <2>2. Blob(e, p) = [i \in 1..n |-> <<e, p, i>>]
    BY <2>1 DEF Blob
  <2>3. \A i \in 1..n : <<e, p, i>> \in Byte
    BY DEF Byte
  <2>4. [i \in 1..n |-> <<e, p, i>>] \in Seq(Byte)
    BY <2>3
  <2>5. QED
    BY <2>1, <2>2, <2>4
<1>3. Blobs(e) = [p \in 1..NProducts |-> Blob(e, p)]
  BY DEF Blobs, Products
<1>4. Blobs(e) \in Seq(Seq(Byte)) /\ Len(Blobs(e)) = NProducts
  BY <1>1, <1>2, <1>3 DEF Products
<1>5. QED
  BY <1>1, <1>2, <1>3, <1>4 DEF Products

\* What the table of an event says of its buffer: the bytes of a product stand between
\* its offset and the next, and the last offset is the length of the buffer.
LEMMA EventIsCut ==
  ASSUME Sized, NEW e \in InFile
  PROVE  /\ Offsets(e) \in [1..(NProducts + 1) -> Nat]
         /\ Buffer(e) \in Seq(Byte)
         /\ Offsets(e)[NProducts + 1] = Len(Buffer(e))
         /\ \A p \in Products :
              /\ Offsets(e)[p + 1] = Offsets(e)[p] + sizeOf[e][p]
              /\ SubSeq(Buffer(e), Offsets(e)[p] + 1, Offsets(e)[p + 1]) = Blob(e, p)
<1> DEFINE s == Blobs(e)
<1>1. /\ NProducts \in Nat \ {0} /\ s \in Seq(Seq(Byte)) /\ Len(s) = NProducts
      /\ \A p \in Products : /\ s[p] = Blob(e, p) /\ Blob(e, p) \in Seq(Byte)
                             /\ sizeOf[e][p] \in Nat /\ Len(Blob(e, p)) = sizeOf[e][p]
  BY BlobFacts
<1>2. PICK f : Joins(f, s, Byte)
  BY <1>1, JoinExists
<1>3. Buffer(e) = f[NProducts] /\ f[NProducts] \in Seq(Byte)
  <2>1. Buffer(e) = FlattenSeq(s)
    BY DEF Buffer, Blobs
  <2> HIDE DEF s
  <2>2. NProducts \in 0..Len(s)
    BY <1>1
  <2>3. FlattenSeq(s) = f[Len(s)] /\ f[NProducts] \in Seq(Byte)
    BY <1>1, <1>2, <2>2, FlattenJoins, JoinFacts
  <2>4. QED
    BY <1>1, <2>1, <2>3
<1>4. ASSUME NEW p \in 1..(NProducts + 1) PROVE Offsets(e)[p] = Len(f[p - 1])
  <2>1. p - 1 \in 0..Len(s)
    BY <1>1
  <2>2. SubSeq(s, 1, p - 1) = [q \in 1..(p - 1) |-> Blob(e, q)]
    <3>1. \A q \in 1..(p - 1) : q \in Products /\ q \in Nat
      BY <1>1 DEF Products
    <3>2. SubSeq(s, 1, p - 1) = [q \in 1..(p - 1) |-> s[q]]
      <4> HIDE DEF s
      <4> QED
        BY <1>1, <2>1
    <3>3. QED
      BY <1>1, <3>1, <3>2
  <2>3. FlattenSeq(SubSeq(s, 1, p - 1)) = f[p - 1]
    <3> HIDE DEF s
    <3> QED
      BY <1>1, <1>2, <2>1, JoinOfFirst
  <2>4. QED
    BY <2>2, <2>3 DEF Offsets
<1>5. ASSUME NEW p \in 1..(NProducts + 1) PROVE f[p - 1] \in Seq(Byte)
  <2> HIDE DEF s
  <2>1. p - 1 \in 0..Len(s)
    BY <1>1
  <2> QED
    BY <1>1, <1>2, <2>1, JoinFacts
<1>6. Offsets(e) \in [1..(NProducts + 1) -> Nat]
  <2>1. \A p \in 1..(NProducts + 1) : Len(f[p - 1]) \in Nat
    BY <1>5
  <2>2. Offsets(e) = [p \in 1..(NProducts + 1) |-> Offsets(e)[p]]
    BY DEF Offsets
  <2>3. QED
    BY <1>4, <2>1, <2>2
<1>7. Offsets(e)[NProducts + 1] = Len(Buffer(e))
  <2>1. NProducts + 1 \in 1..(NProducts + 1) /\ (NProducts + 1) - 1 = NProducts
    BY <1>1
  <2>2. QED
    BY <1>3, <1>4, <2>1
<1>8. ASSUME NEW p \in Products
      PROVE  /\ Offsets(e)[p + 1] = Offsets(e)[p] + sizeOf[e][p]
             /\ SubSeq(Buffer(e), Offsets(e)[p] + 1, Offsets(e)[p + 1]) = Blob(e, p)
  <2>1. /\ p \in 1..NProducts /\ p \in 1..(NProducts + 1) /\ p + 1 \in 1..(NProducts + 1)
        /\ p + 1 - 1 = p /\ p \in Nat /\ p \in 1..Len(s) /\ NProducts \in p..Len(s)
    BY <1>1 DEF Products
  <2>2. /\ Len(f[p - 1]) \in Nat /\ Len(f[p]) = Len(f[p - 1]) + Len(Blob(e, p))
        /\ Len(f[p]) <= Len(f[NProducts])
        /\ \A i \in 1..Len(Blob(e, p)) : f[NProducts][Len(f[p - 1]) + i] = Blob(e, p)[i]
    <3>1. StandsIn(f, s, p, NProducts)
      <4> HIDE DEF s
      <4> QED
        BY <1>1, <1>2, <2>1, JoinIsLonger
    <3>2. s[p] = Blob(e, p)
      BY <1>1
    <3> HIDE DEF s
    <3>3. QED
      BY <3>1, <3>2 DEF StandsIn
  <2>3. Offsets(e)[p] = Len(f[p - 1]) /\ Offsets(e)[p + 1] = Len(f[p])
    BY <1>4, <2>1
  <2>4. SubSeq(f[NProducts], Len(f[p - 1]) + 1, Len(f[p])) = Blob(e, p)
    <3>1. PICK part \in Seq(Byte), whole \in Seq(Byte), a \in Nat, z \in Nat :
            part = Blob(e, p) /\ whole = f[NProducts] /\ a = Len(f[p - 1]) /\ z = Len(f[p])
      <4>1. Len(f[p - 1]) + Len(Blob(e, p)) \in Nat
        BY <1>1, <2>2
      <4>2. QED
        BY <1>1, <1>3, <2>2, <4>1
    <3>2. z = a + Len(part) /\ z <= Len(whole) /\ \A i \in 1..Len(part) : whole[a + i] = part[i]
      BY <1>1, <2>2, <3>1
    <3>3. SubSeq(whole, a + 1, z) = part
      BY <3>2, CutOut
    <3>4. QED
      BY <3>1, <3>3
  <2>5. QED
    BY <1>1, <1>3, <2>2, <2>3, <2>4
<1>9. QED
  BY <1>3, <1>6, <1>7, <1>8

OfLength(s, n) == Len(s) = n

LEMMA JoinsOfOneLength ==
  ASSUME NEW V, NEW s \in Seq(Seq(V)), NEW f, Joins(f, s, V), NEW w \in Nat,
         \A i \in 1..Len(s) : Len(s[i]) = w, NEW k \in 0..Len(s)
  PROVE  OfLength(f[k], k * w)
<1> USE DEF OfLength
<1>1. Len(s) \in Nat /\ f[0] = <<>>
  BY JoinedAre, JoinFacts
<1> DEFINE T == {i \in 0..Len(s) : Len(f[i]) # i * w}
<1>2. SUFFICES ASSUME T # {} PROVE FALSE
  BY <1>1
<1>3. PICK n \in T : \A m \in T : n <= m
  <2>1. \A m \in 0..Len(s) : m \in Nat
    BY <1>1
  <2>2. T \subseteq Nat
    BY <2>1
  <2> HIDE DEF T
  <2>3. QED
    BY <1>2, <2>2, Smallest
<1>4. CASE n = 0
  BY <1>1, <1>3, <1>4
<1>5. CASE n # 0
  <2>1. n \in 1..Len(s) /\ n - 1 \in 0..Len(s) /\ n - 1 \notin T /\ n \in Nat
    <3>1. n \in 0..Len(s) /\ n - 1 \in 0..Len(s) /\ n \in 1..Len(s) /\ ~ (n <= n - 1)
      BY <1>1, <1>3, <1>5
    <3>2. QED
      BY <1>3, <3>1
  <2>2. Len(f[n - 1]) = (n - 1) * w /\ Len(s[n]) = w
    BY <2>1
  <2>3. Len(f[n]) = Len(f[n - 1]) + Len(s[n])
    <3>1. n \in n..Len(s)
      BY <1>1, <2>1
    <3>2. StandsIn(f, s, n, n)
      BY <2>1, <3>1, JoinIsLonger
    <3>3. QED
      BY <3>2 DEF StandsIn
  <2>4. (n - 1) * w + w = n * w
    BY <2>1
  <2>5. QED
    BY <1>3, <2>2, <2>3, <2>4
<1>6. QED
  BY <1>4, <1>5

\* The lengths of the first of the sequences add up to where the next one begins.
AddsUpTo(numbers, total) == FoldLeft(+, 0, numbers) = total

LEMMA LengthsAddUp ==
  ASSUME NEW V, NEW s \in Seq(Seq(V)), NEW f, Joins(f, s, V), NEW n \in 0..Len(s),
         NEW lengths, lengths = [i \in 1..n |-> Len(s[i])]
  PROVE  AddsUpTo(lengths, Len(f[n]))
<1> DEFINE F == [i \in 0..n |-> Len(f[i])]
<1>1. Len(s) \in Nat /\ n \in Nat
  BY JoinedAre
<1>2. ASSUME NEW i \in 1..n
      PROVE  /\ Len(s[i]) \in Nat /\ Len(f[i - 1]) \in Nat
             /\ Len(f[i]) = Len(f[i - 1]) + Len(s[i])
  <2>1. i \in 1..Len(s) /\ i \in i..Len(s)
    BY <1>1
  <2>2. StandsIn(f, s, i, i)
    BY <2>1, JoinIsLonger
  <2>3. QED
    BY <2>2 DEF StandsIn
<1>3. lengths \in [1..n -> Nat]
  BY <1>2
<1>4. F \in [0..n -> Nat]
  <2>1. \A i \in 0..n : f[i] \in Seq(V)
    <3>1. \A i \in 0..n : i \in 0..Len(s)
      BY <1>1
    <3>2. QED
      BY <3>1, JoinFacts
  <2>2. \A i \in 0..n : Len(f[i]) \in Nat
    BY <2>1
  <2>3. QED
    BY <2>2
<1>5. F[0] = 0
  <2>1. f[0] = <<>>
    BY JoinFacts
  <2>2. Len(f[0]) = 0 /\ 0 \in 0..n
    BY <1>1, <2>1
  <2>3. QED
    BY <2>2
<1>6. ASSUME NEW i \in 1..n PROVE F[i] = F[i - 1] + lengths[i]
  <2>1. i \in 0..n /\ i - 1 \in 0..n
    BY <1>1
  <2>2. QED
    BY <1>2, <2>1
<1> HIDE DEF F
<1>7. FoldLeft(+, 0, lengths) = F[n]
  BY <1>1, <1>3, <1>4, <1>5, <1>6, FoldSums
<1>8. F[n] = Len(f[n])
  <2>1. n \in 0..n
    BY <1>1
  <2>2. QED
    BY <2>1 DEF F
<1>9. QED
  BY <1>7, <1>8 DEF AddsUpTo
\* What a batch of events is written as: their tables and their buffers.
Tables(events) == [i \in DOMAIN events |-> Offsets(events[i])]
Buffers(events) == [i \in DOMAIN events |-> Buffer(events[i])]
Width == NProducts + 1

LEMMA BatchFacts ==
  ASSUME Sized, NEW events \in Seq(InFile)
  PROVE  /\ Len(events) \in Nat /\ Width \in Nat \ {0}
         /\ Tables(events) \in Seq(Seq(Nat)) /\ Len(Tables(events)) = Len(events)
         /\ Buffers(events) \in Seq(Seq(Byte)) /\ Len(Buffers(events)) = Len(events)
         /\ \A i \in 1..Len(events) :
              /\ Tables(events)[i] = Offsets(events[i]) /\ Offsets(events[i]) \in Seq(Nat)
              /\ Len(Tables(events)[i]) = Width
              /\ Buffers(events)[i] = Buffer(events[i]) /\ Buffer(events[i]) \in Seq(Byte)
              /\ Offsets(events[i])[Width] = Len(Buffer(events[i]))
<1>1. PICK n \in Nat : n = Len(events) /\ DOMAIN events = 1..n
  OBVIOUS
<1>2. Width \in Nat \ {0}
  BY SourceAssumption DEF SourceAssumption, Width
<1>3. ASSUME NEW i \in 1..n
      PROVE  /\ Offsets(events[i]) \in Seq(Nat) /\ Len(Offsets(events[i])) = Width
             /\ Buffer(events[i]) \in Seq(Byte)
             /\ Offsets(events[i])[Width] = Len(Buffer(events[i]))
  <2>1. events[i] \in InFile
    BY <1>1
  <2>2. /\ Offsets(events[i]) \in [1..Width -> Nat] /\ Buffer(events[i]) \in Seq(Byte)
        /\ Offsets(events[i])[Width] = Len(Buffer(events[i]))
    BY <2>1, EventIsCut DEF Width
  <2>3. QED
    BY <1>2, <2>2
<1>4. Tables(events) = [i \in 1..n |-> Offsets(events[i])]
  BY <1>1 DEF Tables
<1>5. Buffers(events) = [i \in 1..n |-> Buffer(events[i])]
  BY <1>1 DEF Buffers
<1>6. Tables(events) \in Seq(Seq(Nat)) /\ Len(Tables(events)) = n
  BY <1>3, <1>4
<1>7. Buffers(events) \in Seq(Seq(Byte)) /\ Len(Buffers(events)) = n
  BY <1>3, <1>5
<1>8. QED
  BY <1>1, <1>2, <1>3, <1>4, <1>5, <1>6, <1>7

\* The sum of the totals before an event is where its data begin, and what the source
\* cuts out for the event is its table and its buffer.
LEMMA EntryIsCut ==
  ASSUME Sized, NEW events \in Seq(InFile), NEW c, c = WriteBatch(events)
  PROVE  /\ BufferBegin(c, Len(events)) = Len(c.buffer) /\ c.buffer \in Seq(Byte)
         /\ \A i \in 0..(Len(events) - 1) :
              Slice(c, c.buffer, i) = [offsets |-> Offsets(events[i + 1]),
                                       buffer |-> Buffer(events[i + 1])]
<1> DEFINE ts == Tables(events)
           bs == Buffers(events)
<1>1. PICK n \in Nat : n = Len(events)
  OBVIOUS
<1>2. /\ Width \in Nat \ {0} /\ ts \in Seq(Seq(Nat)) /\ Len(ts) = n
      /\ bs \in Seq(Seq(Byte)) /\ Len(bs) = n
      /\ \A i \in 1..n :
           /\ ts[i] = Offsets(events[i]) /\ ts[i] \in Seq(Nat) /\ Len(ts[i]) = Width
           /\ bs[i] = Buffer(events[i]) /\ bs[i] \in Seq(Byte) /\ ts[i][Width] = Len(bs[i])
  BY SMTT(30), <1>1, BatchFacts
<1>3. c.offsets = FlattenSeq(ts) /\ c.buffer = FlattenSeq(bs)
  BY DEF WriteBatch, Tables, Buffers
<1> HIDE DEF ts, bs
<1>4. PICK g : Joins(g, ts, Nat)
  BY <1>2, JoinExists
<1>5. PICK h : Joins(h, bs, Byte)
  BY <1>2, JoinExists
<1>6. /\ c.offsets = g[n] /\ c.offsets \in Seq(Nat)
      /\ c.buffer = h[n] /\ c.buffer \in Seq(Byte)
  <2>1. n \in 0..Len(ts) /\ n \in 0..Len(bs)
    BY <1>2
  <2>2. FlattenSeq(ts) = g[Len(ts)] /\ g[n] \in Seq(Nat)
    BY <1>2, <1>4, <2>1, FlattenJoins, JoinFacts
  <2>3. FlattenSeq(bs) = h[Len(bs)] /\ h[n] \in Seq(Byte)
    BY <1>2, <1>5, <2>1, FlattenJoins, JoinFacts
  <2>4. QED
    BY <1>2, <1>3, <2>2, <2>3
<1>7. ASSUME NEW k \in 0..n PROVE Len(g[k]) = k * Width
  <2>1. Width \in Nat /\ k \in 0..Len(ts) /\ \A i \in 1..Len(ts) : Len(ts[i]) = Width
    BY <1>2
  <2>2. ts \in Seq(Seq(Nat))
    BY <1>2
  <2>3. OfLength(g[k], k * Width)
    BY <1>4, <2>1, <2>2, JoinsOfOneLength
  <2>4. QED
    BY <2>3 DEF OfLength
<1>8. ASSUME NEW k \in 1..n
      PROVE  /\ \A q \in 1..Width : c.offsets[(k - 1) * Width + q] = ts[k][q]
             /\ (k - 1) * Width \in Nat /\ (k - 1) * Width + Width = k * Width
             /\ k * Width <= Len(c.offsets) /\ k * Width \in Nat
  <2>1. k - 1 \in 0..n /\ k \in 0..n /\ n \in 0..n /\ n \in k..n /\ k \in Nat
    OBVIOUS
  <2>2. StandsIn(g, ts, k, n)
    BY <1>2, <1>4, <2>1, JoinIsLonger
  <2>3. Len(g[k - 1]) = (k - 1) * Width /\ Len(g[k]) = k * Width
    BY <1>7, <2>1
  <2>4. \A q \in 1..Width : c.offsets[(k - 1) * Width + q] = ts[k][q]
    BY <1>2, <1>6, <2>2, <2>3 DEF StandsIn
  <2>5. k * Width <= Len(c.offsets)
    BY <1>6, <2>2, <2>3 DEF StandsIn
  <2>6. /\ (k - 1) * Width \in Nat /\ (k - 1) * Width + Width = k * Width
        /\ k * Width \in Nat
    BY <1>2, <2>1
  <2>7. QED
    BY <2>4, <2>5, <2>6
<1>9. ASSUME NEW k \in 1..n PROVE c.offsets[k * Width] = Len(bs[k])
  <2>1. Width \in 1..Width
    BY <1>2
  <2>2. c.offsets[(k - 1) * Width + Width] = ts[k][Width]
    BY <1>8, <2>1
  <2>3. QED
    BY <1>2, <1>8, <2>2
<1>10. ASSUME NEW m \in 0..n PROVE BufferBegin(c, m) = Len(h[m])
  <2>1. [k \in 1..m |-> c.offsets[k * (NProducts + 1)]] = [k \in 1..m |-> Len(bs[k])]
    <3>1. \A k \in 1..m : k \in 1..n
      OBVIOUS
    <3>2. \A k \in 1..m : c.offsets[k * (NProducts + 1)] = Len(bs[k])
      BY <1>9, <3>1 DEF Width
    <3>3. QED
      BY <3>2
  <2>2. FoldLeft(+, 0, [k \in 1..m |-> Len(bs[k])]) = Len(h[m])
    <3>1. m \in 0..Len(bs)
      BY <1>2
    <3>2. PICK lengths : lengths = [k \in 1..m |-> Len(bs[k])]
      OBVIOUS
    <3>3. bs \in Seq(Seq(Byte))
      BY <1>2
    <3>4. AddsUpTo(lengths, Len(h[m]))
      BY <1>5, <3>1, <3>2, <3>3, LengthsAddUp
    <3>5. QED
      BY <3>2, <3>4 DEF AddsUpTo
  <2>3. BufferBegin(c, m) = FoldLeft(+, 0, [k \in 1..m |-> c.offsets[k * (NProducts + 1)]])
    BY DEF BufferBegin
  <2>4. QED
    BY <2>1, <2>2, <2>3
<1>11. ASSUME NEW i \in 0..(n - 1)
       PROVE  Slice(c, c.buffer, i) = [offsets |-> Offsets(events[i + 1]),
                                       buffer |-> Buffer(events[i + 1])]
  <2>1. i + 1 \in 1..n /\ i \in 0..n /\ (i + 1) - 1 = i /\ i \in Nat /\ n \in (i + 1)..n
    OBVIOUS
  <2>2. Table(c, i) = ts[i + 1]
    <3>1. PICK part \in Seq(Nat), whole \in Seq(Nat), a \in Nat, z \in Nat :
            part = ts[i + 1] /\ whole = c.offsets /\ a = i * Width /\ z = (i + 1) * Width
      BY <1>2, <1>6, <1>8, <2>1
    <3>2. Len(part) = Width
      BY <1>2, <2>1, <3>1
    <3>3. z = a + Len(part) /\ z <= Len(whole)
      BY <1>8, <2>1, <3>1, <3>2
    <3>4. \A q \in 1..Len(part) : whole[a + q] = part[q]
      BY ZenonT(30), <1>8, <2>1, <3>1, <3>2
    <3>5. SubSeq(whole, a + 1, z) = part
      BY <3>3, <3>4, CutOut
    <3>6. QED
      BY <3>1, <3>5 DEF Table, Width
  <2>3. Last(Table(c, i)) = Len(bs[i + 1])
    BY <1>2, <2>1, <2>2 DEF Last
  <2>4. StandsIn(h, bs, i + 1, n)
    BY <1>2, <1>5, <2>1, JoinIsLonger
  <2>5. SubSeq(c.buffer, Len(h[i]) + 1, Len(h[i]) + Len(bs[i + 1])) = bs[i + 1]
    <3>1. PICK part \in Seq(Byte), whole \in Seq(Byte), a \in Nat, z \in Nat :
            part = bs[i + 1] /\ whole = c.buffer /\ a = Len(h[i]) /\ z = a + Len(part)
      BY SMTT(30), <1>2, <1>6, <2>1, <2>4 DEF StandsIn
    <3>2. /\ z = a + Len(part) /\ z <= Len(whole)
          /\ \A q \in 1..Len(part) : whole[a + q] = part[q]
      BY <1>6, <2>1, <2>4, <3>1 DEF StandsIn
    <3>3. SubSeq(whole, a + 1, z) = part
      BY ZenonT(30), <3>1, <3>2, CutOut
    <3>4. QED
      BY <3>1, <3>3
  <2>6. BufferBegin(c, i) = Len(h[i])
    BY <1>10, <2>1
  <2>7. Slice(c, c.buffer, i) = [offsets |-> ts[i + 1], buffer |-> bs[i + 1]]
    BY <2>2, <2>3, <2>5, <2>6 DEF Slice
  <2>8. QED
    BY <1>2, <2>1, <2>7
<1>12. QED
  <2>1. n \in 0..n
    OBVIOUS
  <2>2. BufferBegin(c, n) = Len(c.buffer)
    BY <1>6, <1>10, <2>1
  <2>3. QED
    BY <1>1, <1>6, <1>11, <2>2

\* The source keeps the bytes of the entry it read, whole, and a lane that is to
\* deserialize has those of its own event.
Work(e) == [offsets |-> Offsets(e), buffer |-> Buffer(e)]

BytesKept(b) ==
  /\ Sized
  /\ \A k \in 1..Entries(b) : tree[k] = WriteBatch(Ids(b, k))
  /\ nextEntry > 0 => current = tree[nextEntry] /\ uncompressedBuffer = current.buffer
  /\ DOMAIN products = Lanes /\ DOMAIN decode = Lanes
  /\ \A l \in Lanes : pc[l] = "decode" => decode[l] = Work(eventID[l])
  /\ ProductsOfThisEvent

LEMMA IdsAreOfTheFile ==
  ASSUME NEW b \in BatchSizes, NEW k \in 1..Entries(b)
  PROVE  /\ Ids(b, k) \in Seq(InFile) /\ Len(Ids(b, k)) = Held(b, k)
         /\ Held(b, k) \in Nat \ {0}
<1>1. /\ (k - 1) * b \in Nat /\ Held(b, k) \in Nat \ {0} /\ NInFile \in Nat
      /\ (k - 1) * b + Held(b, k) <= NInFile /\ Len(Ids(b, k)) = Held(b, k)
  BY EntryFacts
<1>2. PICK f \in Nat, h \in Nat : f = (k - 1) * b /\ h = Held(b, k)
  BY <1>1
<1>3. \A i \in 1..h : f + i - 1 \in InFile
  BY <1>1, <1>2 DEF InFile
<1>4. Ids(b, k) = [i \in 1..h |-> f + i - 1]
  BY <1>2 DEF Ids
<1>5. QED
  BY <1>1, <1>3, <1>4

LEMMA FileHasBatches ==
  ASSUME NEW b \in BatchSizes, NEW k \in 1..Entries(b)
  PROVE  FileOf(b)[k] = WriteBatch(Ids(b, k))
BY DEF FileOf, Entries, Held, Ids

LEMMA BytesInit == ASSUME NEW b \in BatchSizes, Init, tree = FileOf(b) PROVE BytesKept(b)
<1>1. Sized
  <2>1. sizeOf \in [InFile -> [Products -> Sizes]] /\ Sizes \subseteq Nat
    BY SourceAssumption DEF Init, SourceAssumption
  <2>2. QED
    BY <2>1 DEF Sized
<1>2. QED
  BY <1>1, FileHasBatches DEF BytesKept, Init, ProductsOfThisEvent

\* The bytes of the file depend on the sizes only, which do not change.
LEMMA SameBytes ==
  ASSUME sizeOf' = sizeOf
  PROVE  /\ Sized' <=> Sized
         /\ \A e, p : Blob(e, p)' = Blob(e, p)
         /\ \A e : Work(e)' = Work(e)
         /\ \A events : WriteBatch(events)' = WriteBatch(events)
<1>1. \A e, p : Blob(e, p)' = Blob(e, p)
  BY DEF Blob
<1>2. \A e : Buffer(e)' = Buffer(e)
  BY <1>1 DEF Buffer
<1>3. \A e : Offsets(e)' = Offsets(e)
  BY <1>1 DEF Offsets
<1>4. \A e : Work(e)' = Work(e)
  BY <1>2, <1>3 DEF Work
<1>5. \A events : WriteBatch(events)' = WriteBatch(events)
  BY <1>2, <1>3 DEF WriteBatch
<1>6. QED
  BY <1>1, <1>4, <1>5 DEF Sized

LEMMA OthersKeepBytes ==
  ASSUME NEW b \in BatchSizes, BytesKept(b),
         UNCHANGED <<sizeOf, tree, nextEntry, current, uncompressedBuffer, decode, products,
                     eventID>>,
         \A l \in Lanes : pc'[l] \in {"decode", "process"} => pc'[l] = pc[l]
  PROVE  BytesKept(b)'
<1>1. /\ Sized' /\ \A k \in 1..Entries(b) : tree'[k] = WriteBatch(Ids(b, k))'
      /\ nextEntry' > 0 => current' = tree'[nextEntry'] /\ uncompressedBuffer' = current'.buffer
      /\ DOMAIN products' = Lanes /\ DOMAIN decode' = Lanes
  BY SameBytes DEF BytesKept
<1>2. \A l \in Lanes : pc'[l] = "decode" => decode'[l] = Work(eventID[l])'
  BY SameBytes DEF BytesKept
<1>3. ProductsOfThisEvent'
  <2>1. \A l \in Lanes, p \in Products :
          pc'[l] = "process" /\ sizeOf[eventID[l]][p] > 0 =>
            products[l][p] = Blob(eventID[l], p)
    BY DEF BytesKept, ProductsOfThisEvent
  <2>2. QED
    BY <2>1, SameBytes DEF ProductsOfThisEvent
<1>4. QED
  BY <1>1, <1>2, <1>3 DEF BytesKept

\* What the source gives a lane are the table and the bytes of the event it gives.
LEMMA GiveIsWork ==
  ASSUME NEW b \in BatchSizes, Sized, NEW k \in 1..Entries(b), NEW c,
         c = WriteBatch(Ids(b, k)), NEW i \in 0..(Len(c.ids) - 1)
  PROVE  Slice(c, c.buffer, i) = Work(c.ids[i + 1])
<1>1. Ids(b, k) \in Seq(InFile) /\ c.ids = Ids(b, k)
  BY IdsAreOfTheFile DEF WriteBatch
<1>2. QED
  BY <1>1, EntryIsCut DEF Work

LEMMA ReadKeepsBytes ==
  ASSUME NEW b \in BatchSizes, IInv(b), BytesKept(b), Read PROVE BytesKept(b)'
<1>1. Types /\ Cached(b)
  BY DEF IInv
<1>2. PICK t \in reading : ReadAhead(t.lane) \/ GiveCached(t.lane) \/ EndOfFile(t.lane)
  BY DEF Read
<1>3. PICK l \in Lanes : l = t.lane
  BY <1>1, <1>2 DEF Types, Asks
<1>4. /\ UNCHANGED <<sizeOf, tree, products>>
      /\ pc \in [Lanes -> {"next", "asking", "asked", "decode", "process", "done"}]
      /\ eventID \in [Lanes -> Int]
  BY <1>1 DEF Read, constants, Types
<1>5. CASE EndOfFile(l)
  <2>1. UNCHANGED <<nextEntry, current, uncompressedBuffer, decode, eventID>>
        /\ pc' = [pc EXCEPT ![l] = "done"]
    BY <1>5 DEF EndOfFile, Goto, cache
  <2>2. \A k \in Lanes : pc'[k] \in {"decode", "process"} => pc'[k] = pc[k]
    BY <1>4, <2>1
  <2>3. QED
    BY <1>4, <2>1, <2>2, OthersKeepBytes
<1>6. CASE ReadAhead(l) \/ GiveCached(l)
  <2>1. \E k \in 1..Entries(b) :
          /\ nextEntry' = k /\ current' = tree[k] /\ uncompressedBuffer' = current'.buffer
          /\ pc' = [pc EXCEPT ![l] = "decode"]
          /\ \E i \in 0..(Len(tree[k].ids) - 1) :
               /\ eventID' = [eventID EXCEPT ![l] = tree[k].ids[i + 1]]
               /\ decode' = [decode EXCEPT ![l] = Slice(tree[k], tree[k].buffer, i)]
    <3>1. CASE ReadAhead(l)
      <4>1. PICK k : k = nextEntry + 1
        OBVIOUS
      <4>2. /\ nextEntry < Len(tree) /\ nextEntry' = k /\ current' = tree[k]
            /\ uncompressedBuffer' =
                 SubSeq(tree[k].buffer, 1, BufferBegin(tree[k], Len(tree[k].ids)))
            /\ eventID' = [eventID EXCEPT ![l] = tree[k].ids[0 + 1]]
            /\ decode' = [decode EXCEPT ![l] = Slice(tree[k], uncompressedBuffer', 0)]
            /\ pc' = [pc EXCEPT ![l] = "decode"]
        BY <3>1, <4>1 DEF ReadAhead, GiveEvent, Goto
      <4>3. k \in 1..Entries(b)
        <5>1. nextEntry \in Nat /\ Entries(b) \in Nat /\ Len(tree) = Entries(b)
          BY <1>1, WhereTheCacheIs, EntryFacts DEF Cached
        <5>2. QED
          BY <4>1, <4>2, <5>1
      <4>4. PICK c : c = tree[k]
        OBVIOUS
      <4>5. c = WriteBatch(Ids(b, k)) /\ c.ids = Ids(b, k) /\ Sized
        BY <1>1, <4>3, <4>4 DEF BytesKept, Cached
      <4>6. Ids(b, k) \in Seq(InFile) /\ Len(c.ids) \in Nat \ {0}
        BY <4>3, <4>5, IdsAreOfTheFile
      <4>7. BufferBegin(c, Len(c.ids)) = Len(c.buffer) /\ c.buffer \in Seq(Byte)
        BY <4>5, <4>6, EntryIsCut
      <4>8. SubSeq(c.buffer, 1, Len(c.buffer)) = c.buffer
        BY <4>7
      <4>9. uncompressedBuffer' = c.buffer
        BY <4>2, <4>4, <4>7, <4>8
      <4>10. 0 \in 0..(Len(c.ids) - 1)
        BY <4>6
      <4>11. QED
        BY <4>2, <4>3, <4>4, <4>9, <4>10
    <3>2. CASE GiveCached(l)
      <4>1. PICK k, i : k = nextEntry /\ i = cachedEventIndex
        OBVIOUS
      <4>2. /\ i < Len(current.ids) /\ UNCHANGED <<nextEntry, current, uncompressedBuffer>>
            /\ eventID' = [eventID EXCEPT ![l] = current.ids[i + 1]]
            /\ decode' = [decode EXCEPT ![l] = Slice(current, uncompressedBuffer, i)]
            /\ pc' = [pc EXCEPT ![l] = "decode"]
        BY <3>2, <4>1 DEF GiveCached, GiveEvent, Goto
      <4>3. k > 0 /\ i \in Nat
        BY <1>1, <4>1, <4>2, WhereTheCacheIs
      <4>4. k \in 1..Entries(b) /\ Len(current.ids) \in Nat
        BY SMTT(30), <1>1, <4>1, <4>3, WhereTheCacheIs, EntryFacts
      <4>5. current = tree[k] /\ uncompressedBuffer = tree[k].buffer
        BY <4>1, <4>3 DEF BytesKept
      <4>6. i \in 0..(Len(tree[k].ids) - 1)
        BY <4>2, <4>3, <4>4, <4>5
      <4>7. QED
        BY <4>1, <4>2, <4>4, <4>5, <4>6
    <3>3. QED
      BY <1>6, <3>1, <3>2
  <2>2. PICK k \in 1..Entries(b) :
          /\ nextEntry' = k /\ current' = tree[k] /\ uncompressedBuffer' = current'.buffer
          /\ pc' = [pc EXCEPT ![l] = "decode"]
          /\ \E i \in 0..(Len(tree[k].ids) - 1) :
               /\ eventID' = [eventID EXCEPT ![l] = tree[k].ids[i + 1]]
               /\ decode' = [decode EXCEPT ![l] = Slice(tree[k], tree[k].buffer, i)]
    BY <2>1
  <2>3. PICK c : c = tree[k]
    OBVIOUS
  <2>4. PICK i \in 0..(Len(c.ids) - 1) :
               /\ eventID' = [eventID EXCEPT ![l] = c.ids[i + 1]]
               /\ decode' = [decode EXCEPT ![l] = Slice(c, c.buffer, i)]
    BY <2>2, <2>3
  <2>5. Slice(c, c.buffer, i) = Work(c.ids[i + 1])
    BY <2>2, <2>3, <2>4, GiveIsWork DEF BytesKept
  <2>6. DOMAIN decode' = Lanes /\ decode'[l] = Work(eventID'[l])
    BY <1>4, <2>4, <2>5 DEF BytesKept
  <2>7. \A m \in Lanes : m # l => pc'[m] = pc[m] /\ decode'[m] = decode[m] /\ eventID'[m] = eventID[m]
    BY <1>4, <2>2, <2>4 DEF BytesKept
  <2>8. \A m \in Lanes : pc'[m] = "decode" => decode'[m] = Work(eventID'[m])
    BY <2>6, <2>7 DEF BytesKept
  <2>9. \A m \in Lanes : Work(eventID'[m]) = Work(eventID[m])'
    BY <1>4, SameBytes
  <2>10. ProductsOfThisEvent'
    <3>1. SUFFICES ASSUME NEW m \in Lanes, pc'[m] = "process", NEW p \in Products,
                          (sizeOf[eventID[m]][p])' > 0
                   PROVE  products'[m][p] = Blob(eventID[m], p)'
      BY DEF ProductsOfThisEvent
    <3>2. m # l /\ pc[m] = "process" /\ eventID'[m] = eventID[m]
      BY <1>4, <2>2, <2>7, <3>1
    <3>3. products[m][p] = Blob(eventID[m], p)
      BY <1>4, <3>1, <3>2 DEF BytesKept, ProductsOfThisEvent
    <3>4. Blob(eventID[m], p)' = Blob(eventID[m], p)
      BY <1>4, <3>2, SameBytes DEF Blob
    <3>5. QED
      BY <1>4, <3>3, <3>4
  <2>11. Sized' /\ \A j \in 1..Entries(b) : tree'[j] = WriteBatch(Ids(b, j))'
    BY <1>4, SameBytes DEF BytesKept
  <2>12. QED
    BY <1>4, <2>2, <2>6, <2>8, <2>9, <2>10, <2>11 DEF BytesKept
<1>7. QED
  BY <1>2, <1>3, <1>5, <1>6

LEMMA DeserializeKeepsBytes ==
  ASSUME NEW b \in BatchSizes, IInv(b), BytesKept(b), NEW l \in Lanes, Deserialize(l)
  PROVE  BytesKept(b)'
<1>1. /\ pc[l] = "decode" /\ pc' = [pc EXCEPT ![l] = "process"]
      /\ pc \in [Lanes -> {"next", "asking", "asked", "decode", "process", "done"}]
      /\ UNCHANGED <<sizeOf, tree, nextEntry, current, uncompressedBuffer, eventID>>
      /\ decode' = [decode EXCEPT ![l] = NoWork]
  BY DEF Deserialize, Goto, constants, cache, IInv, Types
<1>2. PICK e \in InFile : e = eventID[l]
  <2>1. eventID[l] \in 0..(Given(b) - 1)
    BY <1>1 DEF IInv, NotTwice, Has
  <2>2. Given(b) \in Nat /\ Given(b) <= NInFile /\ NInFile \in Nat
    BY WhereTheCacheIs, EntryFacts DEF IInv, Counted
  <2>3. QED
    BY <2>1, <2>2 DEF InFile
<1>3. Sized /\ decode[l].offsets = Offsets(e) /\ decode[l].buffer = Buffer(e)
  BY <1>1, <1>2 DEF BytesKept, Work
<1>4. products' = [products EXCEPT ![l] = [p \in Products |->
        IF Offsets(e)[p + 1] = Offsets(e)[p]
        THEN products[l][p]
        ELSE SubSeq(Buffer(e), Offsets(e)[p] + 1, Offsets(e)[p + 1])]]
  BY <1>3 DEF Deserialize
<1>5. ASSUME NEW p \in Products, sizeOf[e][p] > 0 PROVE products'[l][p] = Blob(e, p)
  <2>1. /\ Offsets(e)[p] \in Nat /\ sizeOf[e][p] \in Nat
        /\ Offsets(e)[p + 1] = Offsets(e)[p] + sizeOf[e][p]
        /\ SubSeq(Buffer(e), Offsets(e)[p] + 1, Offsets(e)[p + 1]) = Blob(e, p)
    <3>1. p \in 1..(NProducts + 1)
      BY BlobFacts, <1>3 DEF Products
    <3>2. QED
      BY <1>3, <3>1, EventIsCut, BlobFacts
  <2>2. Offsets(e)[p + 1] # Offsets(e)[p]
    BY <1>5, <2>1
  <2>3. QED
    BY <1>4, <2>1, <2>2 DEF BytesKept
<1>6. ProductsOfThisEvent'
  <2>1. SUFFICES ASSUME NEW m \in Lanes, pc'[m] = "process", NEW p \in Products,
                        (sizeOf[eventID[m]][p])' > 0
                 PROVE  products'[m][p] = Blob(eventID[m], p)'
    BY DEF ProductsOfThisEvent
  <2>2. Blob(eventID[m], p)' = Blob(eventID[m], p)
    BY <1>1 DEF Blob
  <2>3. CASE m = l
    BY <1>1, <1>2, <1>5, <2>1, <2>2, <2>3
  <2>4. CASE m # l
    <3>1. pc[m] = "process" /\ products'[m] = products[m]
      BY <1>1, <1>4, <2>1, <2>4 DEF BytesKept
    <3>2. products[m][p] = Blob(eventID[m], p)
      BY <1>1, <2>1, <3>1 DEF BytesKept, ProductsOfThisEvent
    <3>3. QED
      BY <2>2, <3>1, <3>2
  <2>5. QED
    BY <2>3, <2>4
<1>7. \A m \in Lanes : pc'[m] = "decode" => decode'[m] = Work(eventID[m])'
  BY <1>1, SameBytes DEF BytesKept
<1>8. DOMAIN products' = Lanes /\ DOMAIN decode' = Lanes
  BY <1>1, <1>4 DEF BytesKept
<1>9. Sized' /\ \A j \in 1..Entries(b) : tree'[j] = WriteBatch(Ids(b, j))'
  BY <1>1, SameBytes DEF BytesKept
<1>10. QED
  BY <1>1, <1>6, <1>7, <1>8, <1>9 DEF BytesKept

LEMMA StepKeepsBytes ==
  ASSUME NEW b \in BatchSizes, IInv(b), BytesKept(b), [Next]_vars PROVE BytesKept(b)'
<1>1. pc \in [Lanes -> {"next", "asking", "asked", "decode", "process", "done"}]
  BY DEF IInv, Types
<1>2. CASE StartRead \/ UNCHANGED vars
  <2>1. UNCHANGED <<sizeOf, tree, nextEntry, current, uncompressedBuffer, decode, products,
                    eventID, pc>>
    BY <1>2 DEF StartRead, vars, constants, cache, laneInfos
  <2>2. QED
    BY <2>1, OthersKeepBytes
<1>3. ASSUME NEW l \in Lanes, NextIndex(l) \/ ReadEventAsync(l) \/ Process(l)
      PROVE  BytesKept(b)'
  <2>1. /\ UNCHANGED <<sizeOf, tree, nextEntry, current, uncompressedBuffer, decode, products,
                       eventID>>
        /\ \E to \in {"asking", "done", "asked", "next"} : pc' = [pc EXCEPT ![l] = to]
    BY <1>3 DEF NextIndex, ReadEventAsync, Process, Goto, constants, cache, laneInfos
  <2>2. \A k \in Lanes : pc'[k] \in {"decode", "process"} => pc'[k] = pc[k]
    BY <1>1, <2>1
  <2>3. QED
    BY <2>1, <2>2, OthersKeepBytes
<1>4. QED
  BY <1>2, <1>3, ReadKeepsBytes, DeserializeKeepsBytes DEF Next, Finished, LaneStep

\* For any number of lanes, events and data products, whatever the sizes of the products
\* and however the file was cut into batches, a lane processes every data product with
\* the bytes that were written for the event whose id it reports: the sum of the totals
\* of the events before it in the batch is where an event's bytes begin, the differences
\* of its own offsets are its products, and what a lane is to deserialize was cut out
\* before the cache could move on.
THEOREM BytesOfTheEvent == Spec => []ProductsOfThisEvent
<1>1. Init => \E b \in BatchSizes : IInv(b) /\ BytesKept(b)
  BY InitHolds, BytesInit
<1>2. (\E b \in BatchSizes : IInv(b) /\ BytesKept(b)) /\ [Next]_vars =>
        (\E b \in BatchSizes : IInv(b) /\ BytesKept(b))'
  BY StepKeeps, StepKeepsBytes
<1>3. (\E b \in BatchSizes : IInv(b) /\ BytesKept(b)) => ProductsOfThisEvent
  BY DEF BytesKept
<1>4. QED
  BY <1>1, <1>2, <1>3, PTL DEF Spec

----------------------------------------------------------------------------
\* The sources of EventSources

OneByOneP == INSTANCE EventSourcesProofs WITH
  NLanes <- 3, maxNEvents <- 4, NInFile <- 3, nUniqueEvents <- 2, NProducts <- 2,
  Kinds <- EventKinds, pc <- at, ievt <- counter, index <- indexOf,
  queued <- tasks, reading <- running, presentEventIndex <- presentEventIndex_

\* What the two instances of a module define is the same.
LEMMA SameInit == OneByOne!Init => OneByOneP!Init
  BY DEF OneByOne!Init, OneByOne!Lanes, OneByOne!Products, OneByOne!None,
         OneByOneP!Init, OneByOneP!Lanes, OneByOneP!Products, OneByOneP!None

LEMMA SameNext == OneByOne!Next => OneByOneP!Next
  BY DEF OneByOne!Next, OneByOne!StartClosure, OneByOne!RunRead, OneByOne!RunGet,
         OneByOne!LaneStep, OneByOne!Finished, OneByOne!NextIndex,
         OneByOne!ReadEventAsync, OneByOne!ReadSerial, OneByOne!EndOfSerial,
         OneByOne!ReadShared, OneByOne!PushRead, OneByOne!ReadIdentifier,
         OneByOne!ReadPrompt, OneByOne!ReadTree, OneByOne!ReadRootEvent,
         OneByOne!ReadPDS, OneByOne!Decode, OneByOne!ReadAtOnce, OneByOne!Repeat,
         OneByOne!SetEventIndex, OneByOne!ReadReplicatedRoot,
         OneByOne!ReadReplicatedPDS, OneByOne!GetAsync, OneByOne!AskDelayed,
         OneByOne!AskPrompt, OneByOne!Output, OneByOne!EventIdentifier,
         OneByOne!Goto, OneByOne!AllProducts, OneByOne!Queue!Begin,
         OneByOne!Queue!Submit, OneByOne!Queue!Complete, OneByOne!Lanes,
         OneByOne!Products, OneByOne!Delayed, OneByOne!TestsFirst, OneByOne!Decoding,
         OneByOne!AtOnce, OneByOne!None, OneByOne!vars, OneByOne!job, OneByOne!queue,
         OneByOne!lane, OneByOne!pds, OneByOneP!Next, OneByOneP!StartClosure,
         OneByOneP!RunRead, OneByOneP!RunGet, OneByOneP!LaneStep, OneByOneP!Finished,
         OneByOneP!NextIndex, OneByOneP!ReadEventAsync, OneByOneP!ReadSerial,
         OneByOneP!EndOfSerial, OneByOneP!ReadShared, OneByOneP!PushRead,
         OneByOneP!ReadIdentifier, OneByOneP!ReadPrompt, OneByOneP!ReadTree,
         OneByOneP!ReadRootEvent, OneByOneP!ReadPDS, OneByOneP!Decode,
         OneByOneP!ReadAtOnce, OneByOneP!Repeat, OneByOneP!SetEventIndex,
         OneByOneP!ReadReplicatedRoot, OneByOneP!ReadReplicatedPDS,
         OneByOneP!GetAsync, OneByOneP!AskDelayed, OneByOneP!AskPrompt,
         OneByOneP!Output, OneByOneP!EventIdentifier, OneByOneP!Goto,
         OneByOneP!AllProducts, OneByOneP!Queue!Begin, OneByOneP!Queue!Submit,
         OneByOneP!Queue!Complete, OneByOneP!Lanes, OneByOneP!Products,
         OneByOneP!Delayed, OneByOneP!TestsFirst, OneByOneP!Decoding,
         OneByOneP!AtOnce, OneByOneP!None, OneByOneP!vars, OneByOneP!job,
         OneByOneP!queue, OneByOneP!lane, OneByOneP!pds

LEMMA SameProperties ==
  /\ OneByOneP!ProductsOfOneEvent => OneByOne!ProductsOfOneEvent
  /\ OneByOneP!IdentifierUnlessAddressKept => OneByOne!IdentifierUnlessAddressKept
  /\ OneByOneP!EachEventOnce => OneByOne!EachEventOnce
<1>1. OneByOneP!ProductsOfOneEvent => OneByOne!ProductsOfOneEvent
  BY DEF OneByOne!ProductsOfOneEvent, OneByOne!Products, OneByOne!Events,
         OneByOneP!ProductsOfOneEvent, OneByOneP!Products, OneByOneP!Events
<1>2. OneByOneP!IdentifierUnlessAddressKept => OneByOne!IdentifierUnlessAddressKept
  BY DEF OneByOne!IdentifierUnlessAddressKept, OneByOne!IdentifierOfItsProducts,
         OneByOne!Products, OneByOneP!IdentifierUnlessAddressKept,
         OneByOneP!IdentifierOfItsProducts, OneByOneP!Products
<1>3. OneByOneP!EachEventOnce => OneByOne!EachEventOnce
  BY DEF OneByOne!EachEventOnce, OneByOne!Lanes, OneByOne!Cardinality,
         OneByOneP!EachEventOnce, OneByOneP!Lanes, OneByOneP!Cardinality
<1>4. QED
  BY <1>1, <1>2, <1>3

\* The invariant of EventSourcesProofs, of the jobs with a source of EventSources.
OneByOneIInv == kind \in EventKinds => OneByOneP!IInv

LEMMA OneByOneParameters == OneByOneP!Parameters
  BY DEF OneByOneP!Parameters

LEMMA WordsKindAtFirst == Words!Init => kind \in WordKinds
  BY DEF Words!Init, WordKinds

LEMMA OneByOneInit == EventsInit => OneByOneIInv
<1> SUFFICES ASSUME EventsInit, kind \in EventKinds PROVE OneByOneP!IInv
  BY DEF OneByOneIInv
<1>1. OneByOne!Init
  <2>1. kind \notin WordKinds
    BY DEF WordKinds, EventKinds
  <2>2. QED
    BY <2>1, WordsKindAtFirst DEF EventsInit, EventKinds
<1>2. QED
  BY <1>1, SameInit, OneByOneParameters, OneByOneP!InitHolds

LEMMA OneByOneKindStays == OneByOne!Next => kind' = kind
  BY DEF OneByOne!Next, OneByOne!StartClosure, OneByOne!RunRead,
         OneByOne!RunGet, OneByOne!LaneStep, OneByOne!Finished, OneByOne!NextIndex,
         OneByOne!ReadEventAsync, OneByOne!ReadAtOnce, OneByOne!Decode, OneByOne!GetAsync,
         OneByOne!Output, OneByOne!vars, OneByOne!job

LEMMA WordsKindStays == Words!Next => kind' = kind
  BY DEF Words!Next, Words!Output, Words!Close, Words!Die, Words!Open, Words!NextIndex,
         Words!Skip, Words!Read, Words!Finished, Words!vars, Words!parameters

LEMMA OneByOneKeeps == ASSUME OneByOneIInv, [EventsNext]_eventsVars PROVE OneByOneIInv'
<1> SUFFICES ASSUME (kind \in EventKinds)' PROVE OneByOneP!IInv'
  BY DEF OneByOneIInv
<1>1. CASE OneByOneNext
  <2>1. kind' = kind
    BY <1>1, OneByOneKindStays DEF OneByOneNext
  <2>2. OneByOneP!IInv
    BY <2>1 DEF OneByOneIInv
  <2>3. OneByOneP!Next
    BY <1>1, SameNext DEF OneByOneNext
  <2>4. QED
    BY <2>2, <2>3, OneByOneParameters, OneByOneP!NextKeeps
<1>2. CASE BatchesNext \/ UNCHANGED eventsVars
  <2>1. /\ UNCHANGED kind /\ UNCHANGED <<at, objects, presentEventIndex_, ofEvents>>
    BY <1>2 DEF BatchesNext, eventsVars
  <2>2. OneByOneP!IInv
    BY <2>1 DEF OneByOneIInv
  <2>3. UNCHANGED OneByOneP!vars
    BY <2>1 DEF ofEvents, OneByOneP!vars, OneByOneP!job, OneByOneP!queue, OneByOneP!lane,
                OneByOneP!pds
  <2>4. QED
    BY <2>2, <2>3, OneByOneParameters, OneByOneP!NextKeeps
<1>3. CASE WordsNext
  BY <1>3, WordsKindStays DEF WordsNext, WordKinds, EventKinds
<1>4. QED
  BY <1>1, <1>2, <1>3 DEF EventsNext

LEMMA OneByOneHolds == EventsSpec => []OneByOneIInv
BY OneByOneInit, OneByOneKeeps, PTL DEF EventsSpec

\* In the job too what the outputer is given is one event, the one the lane asked
\* for, in every source of EventSources.
THEOREM OneEventGiven == EventsSpec => []ProductsOfOneEvent
<1>1. OneByOneIInv => ProductsOfOneEvent
  <2> SUFFICES ASSUME OneByOneIInv, kind \in EventKinds PROVE OneByOne!ProductsOfOneEvent
    BY DEF ProductsOfOneEvent
  <2>1. OneByOneP!ProductsOfOneEvent
    BY OneByOneParameters, OneByOneP!OutputsImply DEF OneByOneIInv
  <2>2. QED
    BY <2>1, SameProperties
<1>2. QED
  BY <1>1, OneByOneHolds, PTL

\* In the job too the identifier is that of the event the data products are of, but
\* for SerialRootTreeGetEntrySource without EventAuxiliary.
THEOREM IdentifierKept == EventsSpec => []IdentifierUnlessAddressKept
<1>1. OneByOneIInv => IdentifierUnlessAddressKept
  <2> SUFFICES ASSUME OneByOneIInv, kind \in EventKinds PROVE OneByOne!IdentifierUnlessAddressKept
    BY DEF IdentifierUnlessAddressKept
  <2>1. OneByOneP!IdentifierUnlessAddressKept
    BY OneByOneParameters, OneByOneP!OutputsImply DEF OneByOneIInv
  <2>2. QED
    BY <2>1, SameProperties
<1>2. QED
  BY <1>1, OneByOneHolds, PTL

\* In the job too every event of the source below the limit was output once when
\* all lanes have ended.
THEOREM EachOnce == EventsSpec => []EachEventOnce
<1>1. OneByOneIInv => EachEventOnce
  <2> SUFFICES ASSUME OneByOneIInv, kind \in EventKinds PROVE OneByOne!EachEventOnce
    BY DEF EachEventOnce
  <2>1. OneByOneP!EachEventOnce
    BY OneByOneParameters, OneByOneP!OnceImplied DEF OneByOneIInv
  <2>2. QED
    BY <2>1, SameProperties
<1>2. QED
  BY <1>1, OneByOneHolds, PTL

----------------------------------------------------------------------------
\* PDSFormat: what is proved of it, from any numbers, sizes and any bound of a word.
\* A job without events leaves a file without a header, which no source opens.
PDSParameters ==
  /\ PDSEvents \in Nat \ {0} /\ PDSProducts \in Nat /\ PDSSizes \subseteq Nat
  /\ CompressedSizes \subseteq Nat \ {0} /\ Word \in Nat \ {0} /\ MaxIndex \in Nat

\* FlattenSeq and Cardinality as PDSFormat has them are those of the lemmas above.
LEMMA SameFlattenSeq == ASSUME NEW s PROVE Words!FlattenSeq(s) = FlattenSeq(s)
BY DEF Words!FlattenSeq, FlattenSeq

LEMMA SameCardinality == ASSUME NEW S PROVE Words!Cardinality(S) = Cardinality(S)
BY DEF Words!Cardinality, Cardinality

\* The sizes that ROOT and the compressor give.
SizesGiven == /\ size \in [Words!Events -> [Words!Products -> Nat]]
              /\ cBytes \in Nat /\ (compression # "None" => cBytes # 0)

LEMMA Concatenated ==
  ASSUME NEW V, NEW a \in Seq(V), NEW b \in Seq(V)
  PROVE  /\ a \o b \in Seq(V) /\ Len(a) \in Nat /\ Len(b) \in Nat
         /\ Len(a \o b) = Len(a) + Len(b)
         /\ \A i \in 1..Len(a) : (a \o b)[i] = a[i]
         /\ \A i \in 1..Len(b) : (a \o b)[Len(a) + i] = b[i]
<1>1. a \o b \in Seq(V) /\ Len(a) \in Nat /\ Len(b) \in Nat /\ Len(a \o b) = Len(a) + Len(b)
  OBVIOUS
<1>2. \A i \in 1..(Len(a) + Len(b)) : (a \o b)[i] = IF i <= Len(a) THEN a[i] ELSE b[i - Len(a)]
  BY ConcatProperties
<1>3. ASSUME NEW i \in 1..Len(a) PROVE (a \o b)[i] = a[i]
  <2>1. i \in 1..(Len(a) + Len(b)) /\ i <= Len(a)
    BY <1>1
  <2>2. QED
    BY <1>2, <2>1
<1>4. ASSUME NEW i \in 1..Len(b) PROVE (a \o b)[Len(a) + i] = b[i]
  <2>1. ASSUME NEW n \in Nat, NEW m \in Nat, NEW j \in 1..m
        PROVE  n + j \in 1..(n + m) /\ ~ (n + j <= n) /\ n + j - n = j
    BY <2>1
  <2>2. Len(a) + i \in 1..(Len(a) + Len(b)) /\ ~ (Len(a) + i <= Len(a)) /\
          Len(a) + i - Len(a) = i
    BY <1>1, <2>1
  <2>3. QED
    BY <1>2, <2>2
<1>5. QED
  BY <1>1, <1>3, <1>4

LEMMA WordsConcatenated ==
  ASSUME NEW a \in Seq(Int), NEW b \in Seq(Int)
  PROVE  /\ a \o b \in Seq(Int) /\ Len(a) \in Nat /\ Len(b) \in Nat
         /\ Len(a \o b) = Len(a) + Len(b)
         /\ \A i \in 1..Len(a) : (a \o b)[i] = a[i]
         /\ \A i \in 1..Len(b) : (a \o b)[Len(a) + i] = b[i]
BY Concatenated

LEMMA WordCount ==
  ASSUME NEW c \in Nat
  PROVE  /\ Words!BytesToWords(c) \in Nat /\ (c # 0 => Words!BytesToWords(c) # 0)
         /\ 4 * Words!BytesToWords(c) + (IF c % 4 = 0 THEN 0 ELSE (c % 4) - 4) = c
         /\ c % 4 \in 0..3 /\ Words!BytesToWords(4 * c) = c /\ (4 * c) % 4 = 0
<1>1. c = 4 * (c \div 4) + (c % 4) /\ c % 4 \in 0..3 /\ c \div 4 \in Nat
  OBVIOUS
<1>2. (4 * c) % 4 = 0 /\ (4 * c) \div 4 = c
  OBVIOUS
<1>3. QED
  BY <1>1, <1>2 DEF Words!BytesToWords

\* A sequence of sequences, put together, and the places of its parts.
LEMMA PartsPutTogether ==
  ASSUME NEW V, NEW s \in Seq(Seq(V))
  PROVE  \E f : /\ f[0] = <<>>
                /\ \A n \in 0..Len(s) : /\ f[n] \in Seq(V) /\ Len(f[n]) \in Nat
                                        /\ f[n] = Words!FlattenSeq(SubSeq(s, 1, n))
                /\ f[Len(s)] = Words!FlattenSeq(s)
                /\ \A n \in 1..Len(s) : f[n] = f[n - 1] \o s[n]
                /\ \A n \in 1..Len(s) : StandsIn(f, s, n, Len(s))
<1>1. PICK f : Joins(f, s, V)
  BY JoinExists
<1>2. Len(s) \in Nat
  OBVIOUS
<1>3. f[0] = <<>> /\ \A n \in 0..Len(s) : f[n] \in Seq(V) /\ Len(f[n]) \in Nat
  <2>1. f[0] = <<>> /\ \A n \in 0..Len(s) : f[n] \in Seq(V)
    BY <1>1, JoinFacts
  <2>2. QED
    BY <2>1
<1>4. \A n \in 1..Len(s) : f[n] = f[n - 1] \o s[n]
  BY <1>1, JoinFacts
<1>5. f[Len(s)] = Words!FlattenSeq(s)
  BY <1>1, FlattenJoins, SameFlattenSeq
<1>6. \A n \in 0..Len(s) : f[n] = Words!FlattenSeq(SubSeq(s, 1, n))
  BY <1>1, JoinOfFirst, SameFlattenSeq
<1>7. ASSUME NEW n \in 1..Len(s) PROVE StandsIn(f, s, n, Len(s))
  <2>1. Len(s) \in n..Len(s)
    BY <1>2
  <2>2. QED
    BY <1>1, <2>1, JoinIsLonger
<1>8. QED
  BY <1>3, <1>4, <1>5, <1>6, <1>7

LEMMA WordBlobFacts ==
  ASSUME SizesGiven, NEW e \in Words!Events, NEW p \in Words!Products
  PROVE  Words!Blob(e, p) \in Seq(Int) /\ Len(Words!Blob(e, p)) \in Nat
<1>1. size[e][p] \in Nat
  BY DEF SizesGiven
<1>2. PICK n \in Nat : n = Words!BytesToWords(size[e][p])
  BY <1>1, WordCount
<1>3. \A k \in 1..n : Words!BlobWord(e, p, k) \in Int
  BY DEF Words!BlobWord, Words!Events, Words!Products
<1>4. [k \in 1..n |-> Words!BlobWord(e, p, k)] \in Seq(Int)
  BY <1>3
<1>5. Words!Blob(e, p) = [k \in 1..n |-> Words!BlobWord(e, p, k)]
  BY <1>2 DEF Words!Blob
<1>6. QED
  BY <1>4, <1>5

\* The buffer of an event: product n - 1 stands behind the others, its number, its
\* size and its words.
Parts(e) ==
  [i \in 1..PDSProducts |-> <<i - 1, Len(Words!Blob(e, i - 1))>> \o Words!Blob(e, i - 1)]

ProductsStand(e, f) ==
  /\ Words!Uncompressed(e) \in Seq(Int) /\ f[0] = <<>> /\ f[PDSProducts] = Words!Uncompressed(e)
  /\ \A n \in 0..PDSProducts : Len(f[n]) \in Nat
  /\ \A n \in 1..PDSProducts :
       /\ Len(f[n]) = Len(f[n - 1]) + 2 + Len(Words!Blob(e, n - 1))
       /\ Len(f[n]) <= Len(Words!Uncompressed(e))
       /\ Words!Uncompressed(e)[Len(f[n - 1]) + 1] = n - 1
       /\ Words!Uncompressed(e)[Len(f[n - 1]) + 2] = Len(Words!Blob(e, n - 1))
       /\ \A k \in 1..Len(Words!Blob(e, n - 1)) :
            Words!Uncompressed(e)[Len(f[n - 1]) + 2 + k] = Words!Blob(e, n - 1)[k]

LEMMA PartFacts ==
  ASSUME PDSParameters, SizesGiven, NEW e \in Words!Events, NEW i \in 1..PDSProducts
  PROVE  /\ i - 1 \in Words!Products
         /\ Parts(e)[i] \in Seq(Int) /\ Len(Parts(e)[i]) = 2 + Len(Words!Blob(e, i - 1))
         /\ Parts(e)[i][1] = i - 1 /\ Parts(e)[i][2] = Len(Words!Blob(e, i - 1))
         /\ \A k \in 1..Len(Words!Blob(e, i - 1)) : Parts(e)[i][2 + k] = Words!Blob(e, i - 1)[k]
<1>1. i - 1 \in Words!Products /\ i - 1 \in Int
  BY DEF PDSParameters, Words!Products
<1>2. PICK b \in Seq(Int) : b = Words!Blob(e, i - 1) /\ Len(b) \in Nat
  BY <1>1, WordBlobFacts
<1> DEFINE h == <<i - 1, Len(b)>>
<1>3. h \in Seq(Int) /\ Len(h) = 2 /\ h[1] = i - 1 /\ h[2] = Len(b)
  BY <1>1, <1>2
<1>4. Parts(e)[i] = h \o b
  BY <1>2 DEF Parts
<1> HIDE DEF h
<1>5. /\ h \o b \in Seq(Int) /\ Len(h \o b) = 2 + Len(b)
      /\ (h \o b)[1] = h[1] /\ (h \o b)[2] = h[2]
      /\ \A k \in 1..Len(b) : (h \o b)[2 + k] = b[k]
  <2>1. 1 \in 1..Len(h) /\ 2 \in 1..Len(h)
    BY <1>3
  <2>2. /\ h \o b \in Seq(Int) /\ Len(h \o b) = Len(h) + Len(b)
        /\ \A j \in 1..Len(h) : (h \o b)[j] = h[j]
        /\ \A j \in 1..Len(b) : (h \o b)[Len(h) + j] = b[j]
    BY <1>3, WordsConcatenated
  <2>3. QED
    BY <1>3, <2>1, <2>2
<1>6. QED
  BY <1>1, <1>2, <1>3, <1>4, <1>5

LEMMA ProductsAreThere ==
  ASSUME PDSParameters, SizesGiven, NEW e \in Words!Events
  PROVE  \E f : ProductsStand(e, f)
<1> DEFINE s == Parts(e)
<1>1. PDSProducts \in Nat /\ Len(s) = PDSProducts /\ s \in Seq(Seq(Int))
  <2>1. \A i \in 1..PDSProducts : s[i] \in Seq(Int)
    BY PartFacts
  <2>2. PDSProducts \in Nat /\ DOMAIN s = 1..PDSProducts /\ s = [i \in 1..PDSProducts |-> s[i]]
    BY DEF PDSParameters, Parts
  <2> HIDE DEF s
  <2>3. QED
    BY <2>1, <2>2
<1>2. PICK f : /\ f[0] = <<>>
               /\ \A n \in 0..Len(s) : /\ f[n] \in Seq(Int) /\ Len(f[n]) \in Nat
                                       /\ f[n] = Words!FlattenSeq(SubSeq(s, 1, n))
               /\ f[Len(s)] = Words!FlattenSeq(s)
               /\ \A n \in 1..Len(s) : f[n] = f[n - 1] \o s[n]
               /\ \A n \in 1..Len(s) : StandsIn(f, s, n, Len(s))
  <2> HIDE DEF s
  <2> QED
    BY <1>1, PartsPutTogether
<1>3. f[PDSProducts] = Words!Uncompressed(e) /\ Words!Uncompressed(e) \in Seq(Int)
  <2>1. Words!FlattenSeq(s) = Words!Uncompressed(e)
    BY DEF Words!Uncompressed, Parts
  <2>2. PDSProducts \in 0..PDSProducts
    BY <1>1
  <2> HIDE DEF s
  <2>3. QED
    BY <1>1, <1>2, <2>1, <2>2
<1> DEFINE u == Words!Uncompressed(e)
<1>4. ASSUME NEW n \in 1..PDSProducts
      PROVE  /\ Len(f[n]) = Len(f[n - 1]) + 2 + Len(Words!Blob(e, n - 1))
             /\ Len(f[n]) <= Len(u)
             /\ u[Len(f[n - 1]) + 1] = n - 1 /\ u[Len(f[n - 1]) + 2] = Len(Words!Blob(e, n - 1))
             /\ \A k \in 1..Len(Words!Blob(e, n - 1)) : u[Len(f[n - 1]) + 2 + k] =
                  Words!Blob(e, n - 1)[k]
  <2>1. PICK b \in Seq(Int) : b = Words!Blob(e, n - 1) /\ Len(b) \in Nat
    BY PartFacts, WordBlobFacts
  <2>2. /\ Len(f[n - 1]) \in Nat /\ Len(f[n]) = Len(f[n - 1]) + Len(s[n])
        /\ Len(f[n]) <= Len(u) /\ \A i \in 1..Len(s[n]) : u[Len(f[n - 1]) + i] = s[n][i]
    <3> HIDE DEF s
    <3> QED
      BY <1>1, <1>2, <1>3 DEF StandsIn
  <2>3. /\ Len(s[n]) = 2 + Len(b) /\ s[n][1] = n - 1 /\ s[n][2] = Len(b)
        /\ \A k \in 1..Len(b) : s[n][2 + k] = b[k]
    BY <2>1, PartFacts
  <2> HIDE DEF s, u
  <2>4. 1 \in 1..Len(s[n]) /\ 2 \in 1..Len(s[n])
    BY <2>1, <2>3
  <2>5. ASSUME NEW k \in 1..Len(b) PROVE u[Len(f[n - 1]) + 2 + k] = b[k]
    <3>0. ASSUME NEW a \in Nat, NEW c \in Nat, NEW j \in 1..c
          PROVE  2 + j \in 1..(2 + c) /\ a + (2 + j) = a + 2 + j
      BY <3>0
    <3>1. 2 + k \in 1..Len(s[n]) /\ Len(f[n - 1]) + (2 + k) = Len(f[n - 1]) + 2 + k
      BY <2>1, <2>2, <2>3, <3>0
    <3>2. QED
      BY <2>2, <2>3, <3>1
  <2>6. Len(f[n]) = Len(f[n - 1]) + 2 + Len(b)
    <3>1. ASSUME NEW a \in Nat, NEW c \in Nat PROVE a + (2 + c) = a + 2 + c
      OBVIOUS
    <3>2. QED
      BY <2>1, <2>2, <2>3, <3>1
  <2>7. QED
    BY <2>1, <2>2, <2>3, <2>4, <2>5, <2>6
<1>5. \A n \in 0..PDSProducts : Len(f[n]) \in Nat
  <2> HIDE DEF s
  <2> QED
    BY <1>1, <1>2
<1>6. ProductsStand(e, f)
  BY <1>2, <1>3, <1>4, <1>5 DEF ProductsStand
<1>7. QED
  BY <1>6

\* The record of an event: its size on both sides, the size it has uncompressed, and
\* the compressed words.
LEMMA CompressedFacts ==
  ASSUME PDSParameters, SizesGiven, NEW e \in Words!Events
  PROVE  /\ Words!Compressed(e) \in Seq(Int) /\ Words!Uncompressed(e) \in Seq(Int)
         /\ Len(Words!Uncompressed(e)) \in Nat /\ Words!CompressedSize(e) \in Nat
         /\ Len(Words!Compressed(e)) \in Nat
         /\ Len(Words!Compressed(e)) = Words!BytesToWords(Words!CompressedSize(e))
<1>1. Words!Uncompressed(e) \in Seq(Int)
  BY ProductsAreThere DEF ProductsStand
<1>2. PICK n \in Nat : n = Len(Words!Uncompressed(e))
  BY <1>1
<1>3. CASE compression = "None"
  <2>1. Words!Compressed(e) = Words!Uncompressed(e) /\ Words!CompressedSize(e) = 4 * n
    BY <1>2, <1>3 DEF Words!Compressed, Words!CompressedSize
  <2>2. Words!BytesToWords(4 * n) = n /\ 4 * n \in Nat
    BY <1>2, WordCount
  <2>3. QED
    BY <1>1, <1>2, <2>1, <2>2
<1>4. CASE compression # "None"
  <2>1. Words!CompressedSize(e) = cBytes /\ cBytes \in Nat
    BY <1>4 DEF Words!CompressedSize, SizesGiven
  <2>2. PICK m \in Nat : m = Words!BytesToWords(cBytes)
    BY <2>1, WordCount
  <2>3. Words!Compressed(e) = [k \in 1..m |-> Words!CompressedWord(e, k)]
    BY <1>4, <2>2 DEF Words!Compressed
  <2>4. \A k \in 1..m : Words!CompressedWord(e, k) \in Int
    BY DEF Words!CompressedWord, Words!Events
  <2>5. [k \in 1..m |-> Words!CompressedWord(e, k)] \in Seq(Int)
    BY <2>4
  <2>6. QED
    BY <1>1, <1>2, <2>1, <2>2, <2>3, <2>5
<1>5. QED
  BY <1>3, <1>4

RecordOf(r, c, second, n) ==
  /\ r \in Seq(Int) /\ n \in Nat /\ n = Len(c) /\ Len(r) = n + 3
  /\ r[1] = n + 1 /\ r[2] = second /\ r[n + 3] = n + 1
  /\ \A k \in 1..n : r[2 + k] = c[k]

LEMMA RecordFacts ==
  ASSUME PDSParameters, SizesGiven, NEW e \in Words!Events
  PROVE  RecordOf(Words!Record(e), Words!Compressed(e),
                  4 * Len(Words!Uncompressed(e)) + (Words!CompressedSize(e) % 4),
                    Len(Words!Compressed(e)))
<1>1. PICK c \in Seq(Int), n \in Nat, second \in Int :
        /\ c = Words!Compressed(e) /\ n = Len(c)
        /\ n = Words!BytesToWords(Words!CompressedSize(e))
        /\ second = 4 * Len(Words!Uncompressed(e)) + (Words!CompressedSize(e) % 4)
  <2>1. Words!CompressedSize(e) % 4 \in Int
    BY CompressedFacts, WordCount
  <2>2. 4 * Len(Words!Uncompressed(e)) + (Words!CompressedSize(e) % 4) \in Int
    BY <2>1, CompressedFacts
  <2>3. QED
    BY <2>2, CompressedFacts
<1> DEFINE h == <<n + 1, second>>
           t == <<n + 1>>
<1>2. Words!Record(e) = h \o c \o t
  BY <1>1 DEF Words!Record
<1>3. h \in Seq(Int) /\ Len(h) = 2 /\ h[1] = n + 1 /\ h[2] = second
  OBVIOUS
<1>4. t \in Seq(Int) /\ Len(t) = 1 /\ t[1] = n + 1
  OBVIOUS
<1> HIDE DEF h, t
<1>5. PICK a \in Seq(Int) :
        /\ a = h \o c /\ Len(a) = 2 + n /\ a[1] = n + 1 /\ a[2] = second
        /\ \A k \in 1..n : a[2 + k] = c[k]
  <2>1. /\ h \o c \in Seq(Int) /\ Len(h \o c) = Len(h) + Len(c)
        /\ \A i \in 1..Len(h) : (h \o c)[i] = h[i]
        /\ \A i \in 1..Len(c) : (h \o c)[Len(h) + i] = c[i]
    BY <1>3, WordsConcatenated
  <2>2. 1 \in 1..Len(h) /\ 2 \in 1..Len(h)
    BY <1>3
  <2>3. /\ Len(h \o c) = 2 + n /\ (h \o c)[1] = n + 1 /\ (h \o c)[2] = second
        /\ \A k \in 1..n : (h \o c)[2 + k] = c[k]
    BY <1>1, <1>3, <2>1, <2>2
  <2>4. QED
    BY <2>1, <2>3
<1>6. /\ a \o t \in Seq(Int) /\ Len(a \o t) = Len(a) + Len(t)
      /\ \A i \in 1..Len(a) : (a \o t)[i] = a[i]
      /\ \A i \in 1..Len(t) : (a \o t)[Len(a) + i] = t[i]
  BY <1>4, WordsConcatenated
<1>7. /\ 1 \in 1..Len(a) /\ 2 \in 1..Len(a) /\ \A k \in 1..n : 2 + k \in 1..Len(a)
      /\ 1 \in 1..Len(t) /\ Len(a) + 1 = n + 3 /\ Len(a) + Len(t) = n + 3
  BY <1>4, <1>5
<1>8. RecordOf(a \o t, c, second, n)
  BY <1>1, <1>4, <1>5, <1>6, <1>7 DEF RecordOf
<1>9. Words!Record(e) = a \o t
  BY <1>2, <1>5
<1>10. QED
  BY <1>1, <1>8, <1>9

\* What stands in the file for an event.
LEMMA PieceFacts ==
  ASSUME PDSParameters, SizesGiven, NEW e \in Words!Events
  PROVE  /\ Words!EventHeader(e) \in Seq(Int) /\ Len(Words!EventHeader(e)) = 5
         /\ Words!Record(e) \in Seq(Int) /\ Len(Words!Record(e)) \in Nat
         /\ Len(Words!Record(e)) >= 3
         /\ Words!EventHeader(e) \o Words!Record(e) \in Seq(Int)
         /\ Len(Words!EventHeader(e) \o Words!Record(e)) = 5 + Len(Words!Record(e))
         /\ \A i \in 1..5 : (Words!EventHeader(e) \o Words!Record(e))[i] =
              Words!EventHeader(e)[i]
         /\ \A i \in 1..Len(Words!Record(e)) :
              (Words!EventHeader(e) \o Words!Record(e))[5 + i] = Words!Record(e)[i]
<1>1. Words!EventHeader(e) \in Seq(Int) /\ Len(Words!EventHeader(e)) = 5
  <2>1. e \in Int /\ Word \in Nat \ {0}
    BY DEF Words!Events, PDSParameters
  <2>2. PICK v \in Int : v = Word - 1 + e
    BY <2>1
  <2>3. v \div Word \in Int /\ v % Word \in Int
    BY <2>1, <2>2
  <2>4. Words!EventHeader(e) = <<0, 1, e + 1, v \div Word, v % Word>>
    BY <2>2 DEF Words!EventHeader, Words!EventID
  <2>5. QED
    BY <2>1, <2>3, <2>4
<1>2. Words!Record(e) \in Seq(Int) /\ Len(Words!Record(e)) \in Nat /\ Len(Words!Record(e)) >= 3
  BY RecordFacts DEF RecordOf
<1>3. PICK h \in Seq(Int), r \in Seq(Int) : h = Words!EventHeader(e) /\ r = Words!Record(e)
  BY <1>1, <1>2
<1>4. /\ h \o r \in Seq(Int) /\ Len(h \o r) = Len(h) + Len(r)
      /\ \A i \in 1..Len(h) : (h \o r)[i] = h[i]
      /\ \A i \in 1..Len(r) : (h \o r)[Len(h) + i] = r[i]
  BY WordsConcatenated
<1>5. QED
  BY <1>1, <1>2, <1>3, <1>4

StandsBehind(e, a, all) ==
  /\ Len(Words!Records(e + 1)) = a + 5 + Len(Words!Record(e))
  /\ Len(Words!Records(e + 1)) <= Len(all)
  /\ \A i \in 1..5 : all[a + i] = Words!EventHeader(e)[i]
  /\ \A i \in 1..Len(Words!Record(e)) : all[a + 5 + i] = Words!Record(e)[i]

LEMMA RecordsGrow ==
  ASSUME PDSParameters, SizesGiven
  PROVE  /\ Words!Records(0) = <<>>
         /\ \A n \in 0..PDSEvents : Words!Records(n) \in Seq(Int) /\
              Len(Words!Records(n)) \in Nat
         /\ \A e \in Words!Events :
              StandsBehind(e, Len(Words!Records(e)), Words!Records(PDSEvents))
<1> DEFINE s == [i \in 1..PDSEvents |-> Words!EventHeader(i - 1) \o Words!Record(i - 1)]
<1>1. PDSEvents \in Nat /\ \A i \in 1..PDSEvents : i - 1 \in Words!Events /\ s[i] \in Seq(Int)
  <2>1. PDSEvents \in Nat /\ \A i \in 1..PDSEvents : i - 1 \in Words!Events
    BY DEF PDSParameters, Words!Events
  <2>2. QED
    BY <2>1, PieceFacts
<1>2. s \in Seq(Seq(Int)) /\ Len(s) = PDSEvents
  <2>1. DOMAIN s = 1..PDSEvents /\ s = [i \in 1..PDSEvents |-> s[i]]
    OBVIOUS
  <2> HIDE DEF s
  <2>2. QED
    BY <1>1, <2>1
<1>3. PICK f : /\ f[0] = <<>>
               /\ \A n \in 0..Len(s) : /\ f[n] \in Seq(Int) /\ Len(f[n]) \in Nat
                                       /\ f[n] = Words!FlattenSeq(SubSeq(s, 1, n))
               /\ f[Len(s)] = Words!FlattenSeq(s)
               /\ \A n \in 1..Len(s) : f[n] = f[n - 1] \o s[n]
               /\ \A n \in 1..Len(s) : StandsIn(f, s, n, Len(s))
  <2> HIDE DEF s
  <2> QED
    BY <1>2, PartsPutTogether
<1>4. ASSUME NEW n \in 0..PDSEvents PROVE Words!Records(n) = f[n]
  <2>1. SubSeq(s, 1, n) = [i \in 1..n |-> s[i]]
    <3> HIDE DEF s
    <3> QED
      BY <1>1, <1>2
  <2>2. \A i \in 1..n : i \in 1..PDSEvents
    BY <1>1
  <2>3. [i \in 1..n |-> s[i]] = [i \in 1..n |-> Words!EventHeader(i - 1) \o Words!Record(i - 1)]
    BY <2>2
  <2>4. Words!Records(n) =
          Words!FlattenSeq([i \in 1..n |-> Words!EventHeader(i - 1) \o Words!Record(i - 1)])
    BY DEF Words!Records
  <2> HIDE DEF s
  <2>5. QED
    BY <1>2, <1>3, <2>1, <2>3, <2>4
<1>5. Words!Records(0) = <<>>
  BY <1>1, <1>3, <1>4
<1>6. ASSUME NEW n \in 0..PDSEvents PROVE Words!Records(n) \in Seq(Int) /\
               Len(Words!Records(n)) \in Nat
  <2> HIDE DEF s
  <2> QED
    BY <1>2, <1>3, <1>4
<1>7. ASSUME NEW e \in Words!Events, NEW a, a = Len(Words!Records(e)), NEW all, all =
               Words!Records(PDSEvents)
      PROVE  StandsBehind(e, a, all)
  <2>1. e + 1 \in 1..PDSEvents /\ e + 1 \in 0..PDSEvents /\ e \in 0..PDSEvents /\ e + 1 - 1 = e
        /\ PDSEvents \in 0..PDSEvents
    BY <1>1 DEF Words!Events
  <2>2. s[e + 1] = Words!EventHeader(e) \o Words!Record(e)
    BY <2>1
  <2> HIDE DEF s
  <2>3. StandsIn(f, s, e + 1, PDSEvents) /\ Len(s) = PDSEvents
    BY <1>2, <1>3, <2>1
  <2>4. Words!Records(e + 1) = f[e + 1] /\ Words!Records(e) = f[e] /\ all = f[PDSEvents]
    BY <1>4, <1>7, <2>1
  <2>5. /\ a \in Nat /\ Len(f[e + 1]) = a + Len(s[e + 1])
        /\ Len(f[e + 1]) <= Len(all)
        /\ \A i \in 1..Len(s[e + 1]) : all[a + i] = s[e + 1][i]
    <3>1. PICK n \in 1..PDSEvents : n = e + 1 /\ n - 1 = e
      BY <2>1
    <3>2. /\ Len(f[n - 1]) \in Nat /\ Len(f[n]) = Len(f[n - 1]) + Len(s[n])
          /\ Len(f[n]) <= Len(f[PDSEvents])
          /\ \A i \in 1..Len(s[n]) : f[PDSEvents][Len(f[n - 1]) + i] = s[n][i]
      BY <2>3, <3>1 DEF StandsIn
    <3>3. f[n - 1] = Words!Records(e) /\ f[PDSEvents] = all /\ Len(f[n - 1]) = a
      BY <1>7, <2>4, <3>1
    <3>4. QED
      BY <3>1, <3>2, <3>3
  <2>6. PICK m \in Nat : m = Len(Words!Record(e)) /\ Len(s[e + 1]) = 5 + m
    BY <2>2, PieceFacts
  <2>7. \A i \in 1..5 : i \in 1..(5 + m)
    BY <2>6
  <2>8. \A i \in 1..m : 5 + i \in 1..(5 + m) /\ a + (5 + i) = a + 5 + i
    BY <2>5, <2>6
  <2>9. \A i \in 1..5 : all[a + i] = Words!EventHeader(e)[i]
    <3>1. ASSUME NEW i \in 1..5 PROVE all[a + i] = s[e + 1][i]
      BY <2>5, <2>6, <2>7
    <3>2. ASSUME NEW i \in 1..5 PROVE s[e + 1][i] = Words!EventHeader(e)[i]
      BY <2>2, PieceFacts
    <3>3. QED
      BY <3>1, <3>2
  <2>10. ASSUME NEW i \in 1..m PROVE all[a + 5 + i] = Words!Record(e)[i]
    <3>1. all[a + (5 + i)] = s[e + 1][5 + i]
      BY <2>5, <2>6, <2>8
    <3>2. QED
      BY <2>2, <2>6, <2>8, <3>1, PieceFacts
  <2>11. a + (5 + m) = a + 5 + m
    BY <2>5
  <2>12. QED
    BY <2>4, <2>5, <2>6, <2>9, <2>10, <2>11 DEF StandsBehind
<1>8. QED
  BY <1>5, <1>6, <1>7

\* The header of the file: the numbers of words before the product infos are fixed by
\* the number of products, and each info stands behind the others.
TypeWords == Words!BytesToWords(Words!TypeNamesLength)
NameWordsOf(p) == Words!BytesToWords(Words!NameLength(p) + 1)
Infos == [i \in 1..PDSProducts |-> <<i - 1>> \o Words!NameWords(i - 1)]

InfosStand(f, all) ==
  /\ f[0] = <<>> /\ all \in Seq(Int) /\ f[PDSProducts] = all
  /\ \A n \in 0..PDSProducts : Len(f[n]) \in Nat
  /\ \A n \in 1..PDSProducts :
       /\ Len(f[n]) = Len(f[n - 1]) + 1 + NameWordsOf(n - 1)
       /\ Len(f[n]) <= Len(all) /\ NameWordsOf(n - 1) \in Nat \ {0}
       /\ all[Len(f[n - 1]) + 1] = n - 1
       /\ all[Len(f[n - 1]) + 2] = Words!NameWord(n - 1, 1)

LEMMA InfoFacts ==
  ASSUME PDSParameters, NEW i \in 1..PDSProducts
  PROVE  /\ NameWordsOf(i - 1) \in Nat \ {0}
         /\ Infos[i] \in Seq(Int) /\ Len(Infos[i]) = 1 + NameWordsOf(i - 1)
         /\ Infos[i][1] = i - 1 /\ Infos[i][2] = Words!NameWord(i - 1, 1)
<1>1. i - 1 \in Nat
  BY DEF PDSParameters
<1>2. PICK n \in Nat : n = NameWordsOf(i - 1) /\ n # 0
  <2>1. Words!NameLength(i - 1) + 1 \in Nat /\ Words!NameLength(i - 1) + 1 # 0
    BY <1>1 DEF Words!NameLength
  <2>2. QED
    BY <2>1, WordCount DEF NameWordsOf
<1> DEFINE h == <<i - 1>>
           w == [k \in 1..n |-> Words!NameWord(i - 1, k)]
<1>3. Infos[i] = h \o w
  <2>1. Words!NameWords(i - 1) = w
    BY <1>2 DEF Words!NameWords, NameWordsOf
  <2>2. QED
    BY <2>1 DEF Infos
<1>4. h \in Seq(Int) /\ Len(h) = 1 /\ h[1] = i - 1
  BY <1>1
<1>5. w \in Seq(Int) /\ Len(w) = n /\ w[1] = Words!NameWord(i - 1, 1)
  <2>1. \A k \in 1..n : Words!NameWord(i - 1, k) \in Int
    BY <1>1 DEF Words!NameWord
  <2>2. 1 \in 1..n
    BY <1>2
  <2>3. QED
    BY <2>1, <2>2
<1> HIDE DEF h, w
<1>6. /\ h \o w \in Seq(Int) /\ Len(h \o w) = Len(h) + Len(w)
      /\ \A j \in 1..Len(h) : (h \o w)[j] = h[j]
      /\ \A j \in 1..Len(w) : (h \o w)[Len(h) + j] = w[j]
  BY <1>4, <1>5, WordsConcatenated
<1>7. 1 \in 1..Len(h) /\ 1 \in 1..Len(w) /\ Len(h) + 1 = 2
  BY <1>2, <1>4, <1>5
<1>8. /\ Len(h \o w) = 1 + n /\ (h \o w)[1] = i - 1 /\ (h \o w)[2] = Words!NameWord(i - 1, 1)
  BY <1>4, <1>5, <1>6, <1>7
<1>9. QED
  BY <1>2, <1>3, <1>6, <1>8

LEMMA InfosAreThere ==
  ASSUME PDSParameters
  PROVE  \E f : InfosStand(f, Words!FlattenSeq(Infos))
<1> DEFINE all == Words!FlattenSeq(Infos)
<1>1. PDSProducts \in Nat /\ Len(Infos) = PDSProducts /\ Infos \in Seq(Seq(Int))
  <2>1. \A i \in 1..PDSProducts : Infos[i] \in Seq(Int)
    BY InfoFacts
  <2>2. /\ PDSProducts \in Nat /\ DOMAIN Infos = 1..PDSProducts
        /\ Infos = [i \in 1..PDSProducts |-> Infos[i]]
    BY DEF PDSParameters, Infos
  <2>3. QED
    BY <2>1, <2>2
<1>2. PICK f : /\ f[0] = <<>>
               /\ \A n \in 0..Len(Infos) : /\ f[n] \in Seq(Int) /\ Len(f[n]) \in Nat
                                           /\ f[n] = Words!FlattenSeq(SubSeq(Infos, 1, n))
               /\ f[Len(Infos)] = Words!FlattenSeq(Infos)
               /\ \A n \in 1..Len(Infos) : f[n] = f[n - 1] \o Infos[n]
               /\ \A n \in 1..Len(Infos) : StandsIn(f, Infos, n, Len(Infos))
  BY <1>1, PartsPutTogether
<1>3. f[PDSProducts] = all /\ all \in Seq(Int)
  <2>1. PDSProducts \in 0..PDSProducts
    BY <1>1
  <2>2. QED
    BY <1>1, <1>2, <2>1
<1> HIDE DEF all
<1>4. ASSUME NEW n \in 1..PDSProducts
      PROVE  /\ Len(f[n]) = Len(f[n - 1]) + 1 + NameWordsOf(n - 1)
             /\ Len(f[n]) <= Len(all) /\ NameWordsOf(n - 1) \in Nat \ {0}
             /\ all[Len(f[n - 1]) + 1] = n - 1
             /\ all[Len(f[n - 1]) + 2] = Words!NameWord(n - 1, 1)
  <2>1. PICK m \in Nat : m = NameWordsOf(n - 1) /\ m # 0
    BY InfoFacts
  <2>2. /\ Len(f[n - 1]) \in Nat /\ Len(f[n]) = Len(f[n - 1]) + Len(Infos[n])
        /\ Len(f[n]) <= Len(all)
        /\ \A i \in 1..Len(Infos[n]) : all[Len(f[n - 1]) + i] = Infos[n][i]
    BY <1>1, <1>2, <1>3 DEF StandsIn
  <2>3. /\ Len(Infos[n]) = 1 + m /\ Infos[n][1] = n - 1
        /\ Infos[n][2] = Words!NameWord(n - 1, 1)
    BY <2>1, InfoFacts
  <2>4. 1 \in 1..Len(Infos[n]) /\ 2 \in 1..Len(Infos[n])
    BY <2>1, <2>3
  <2>5. Len(f[n]) = Len(f[n - 1]) + 1 + m
    <3>1. ASSUME NEW a \in Nat, NEW c \in Nat PROVE a + (1 + c) = a + 1 + c
      OBVIOUS
    <3>2. QED
      BY <2>1, <2>2, <2>3, <3>1
  <2>6. QED
    BY <2>1, <2>2, <2>3, <2>4, <2>5
<1>5. \A n \in 0..PDSProducts : Len(f[n]) \in Nat
  BY <1>1, <1>2
<1>6. InfosStand(f, all)
  BY <1>2, <1>3, <1>4, <1>5 DEF InfosStand
<1>7. QED
  BY <1>6 DEF all

HeaderStands(b, infos) ==
  /\ b \in Seq(Int) /\ Len(infos) \in Nat /\ Len(b) = 6 + TypeWords + Len(infos)
  /\ b[1] = 2 /\ b[4] = TypeWords /\ b[5 + TypeWords] = 0 /\ b[6 + TypeWords] = PDSProducts
  /\ \A i \in 1..Len(infos) : b[6 + TypeWords + i] = infos[i]

LEMMA HeaderFacts ==
  ASSUME PDSParameters
  PROVE  TypeWords \in Nat /\ HeaderStands(Words!HeaderBuffer, Words!FlattenSeq(Infos))
<1>1. PICK t \in Nat : t = TypeWords
  <2>1. Words!TypeNamesLength \in Nat
    BY DEF PDSParameters, Words!TypeNamesLength
  <2>2. QED
    BY <2>1, WordCount DEF TypeWords
<1>2. PICK j \in Seq(Int) : j = Words!FlattenSeq(Infos) /\ Len(j) \in Nat
  BY InfosAreThere DEF InfosStand
<1> DEFINE a == <<2, 5000, 5001, t>>
           w == [k \in 1..t |-> Words!TypeWord(k)]
           n == <<0, PDSProducts>>
<1>3. Words!HeaderBuffer = a \o w \o n \o j
  BY <1>1, <1>2 DEF Words!HeaderBuffer, TypeWords, Infos
<1>4. a \in Seq(Int) /\ Len(a) = 4 /\ a[1] = 2 /\ a[4] = t
  OBVIOUS
<1>5. w \in Seq(Int) /\ Len(w) = t
  BY DEF Words!TypeWord
<1>6. n \in Seq(Int) /\ Len(n) = 2 /\ n[1] = 0 /\ n[2] = PDSProducts
  BY DEF PDSParameters
<1> HIDE DEF a, w, n
<1>7. PICK x \in Seq(Int) : x = a \o w /\ Len(x) = 4 + t /\ x[1] = 2 /\ x[4] = t
  <2>1. /\ a \o w \in Seq(Int) /\ Len(a \o w) = Len(a) + Len(w)
        /\ \A i \in 1..Len(a) : (a \o w)[i] = a[i]
    BY <1>4, <1>5, WordsConcatenated
  <2>2. 1 \in 1..Len(a) /\ 4 \in 1..Len(a)
    BY <1>4
  <2>3. (a \o w)[1] = 2 /\ (a \o w)[4] = t
    BY <1>4, <2>1, <2>2
  <2>4. Len(a \o w) = 4 + t
    BY <1>4, <1>5, <2>1
  <2>5. QED
    BY <2>1, <2>3, <2>4
<1>8. PICK y \in Seq(Int) : /\ y = x \o n /\ Len(y) = 6 + t /\ y[1] = 2 /\ y[4] = t
                            /\ y[5 + t] = 0 /\ y[6 + t] = PDSProducts
  <2>1. /\ x \o n \in Seq(Int) /\ Len(x \o n) = Len(x) + Len(n)
        /\ \A i \in 1..Len(x) : (x \o n)[i] = x[i]
        /\ \A i \in 1..Len(n) : (x \o n)[Len(x) + i] = n[i]
    BY <1>6, WordsConcatenated
  <2>2. /\ 1 \in 1..Len(x) /\ 4 \in 1..Len(x) /\ 1 \in 1..Len(n) /\ 2 \in 1..Len(n)
        /\ Len(x) + 1 = 5 + t /\ Len(x) + 2 = 6 + t /\ Len(x) + Len(n) = 6 + t
    BY <1>6, <1>7
  <2>3. /\ Len(x \o n) = 6 + t /\ (x \o n)[1] = 2 /\ (x \o n)[4] = t
        /\ (x \o n)[5 + t] = 0 /\ (x \o n)[6 + t] = PDSProducts
    BY <1>6, <1>7, <2>1, <2>2
  <2>4. QED
    BY <2>1, <2>3
<1>9. /\ y \o j \in Seq(Int) /\ Len(y \o j) = Len(y) + Len(j)
      /\ \A i \in 1..Len(y) : (y \o j)[i] = y[i]
      /\ \A i \in 1..Len(j) : (y \o j)[Len(y) + i] = j[i]
  BY WordsConcatenated
<1>10. /\ 1 \in 1..Len(y) /\ 4 \in 1..Len(y) /\ 5 + t \in 1..Len(y) /\ 6 + t \in 1..Len(y)
  BY <1>8
<1>11. HeaderStands(y \o j, j)
  <2>1. /\ (y \o j)[1] = 2 /\ (y \o j)[4] = t
        /\ (y \o j)[5 + t] = 0 /\ (y \o j)[6 + t] = PDSProducts
    BY <1>8, <1>9, <1>10
  <2>2. /\ Len(y \o j) = 6 + t + Len(j)
        /\ \A i \in 1..Len(j) : (y \o j)[6 + t + i] = j[i]
    BY <1>8, <1>9
  <2>3. QED
    BY <1>1, <1>2, <1>9, <2>1, <2>2 DEF HeaderStands
<1>12. Words!HeaderBuffer = y \o j
  BY <1>3, <1>7, <1>8
<1>13. QED
  BY <1>1, <1>2, <1>11, <1>12

LEMMA FileHeaderFacts ==
  ASSUME PDSParameters
  PROVE  LET n == Len(Words!HeaderBuffer) IN
         /\ Words!FileHeader \in Seq(Int) /\ n \in Nat /\ Words!HeaderBuffer \in Seq(Int)
         /\ Len(Words!FileHeader) = 4 + n + 1
         /\ Words!FileHeader[4] = n /\ Words!FileHeader[4 + n + 1] = n
         /\ \A i \in 1..n : Words!FileHeader[4 + i] = Words!HeaderBuffer[i]
<1>1. PICK b \in Seq(Int), n \in Nat : b = Words!HeaderBuffer /\ n = Len(b)
  BY HeaderFacts DEF HeaderStands
<1> DEFINE h == <<6001, 0, 6100, n>>
           t == <<n>>
<1>2. Words!FileHeader = h \o b \o t
  BY <1>1 DEF Words!FileHeader
<1>3. h \in Seq(Int) /\ Len(h) = 4 /\ h[4] = n
  OBVIOUS
<1>4. t \in Seq(Int) /\ Len(t) = 1 /\ t[1] = n
  OBVIOUS
<1> HIDE DEF h, t
<1>5. PICK x \in Seq(Int) : /\ x = h \o b /\ Len(x) = 4 + n /\ x[4] = n
                            /\ \A i \in 1..n : x[4 + i] = b[i]
  <2>1. /\ h \o b \in Seq(Int) /\ Len(h \o b) = Len(h) + Len(b)
        /\ \A i \in 1..Len(h) : (h \o b)[i] = h[i]
        /\ \A i \in 1..Len(b) : (h \o b)[Len(h) + i] = b[i]
    BY <1>3, WordsConcatenated
  <2>2. 4 \in 1..Len(h)
    BY <1>3
  <2>3. Len(h \o b) = 4 + n /\ (h \o b)[4] = n /\ \A i \in 1..n : (h \o b)[4 + i] = b[i]
    BY <1>1, <1>3, <2>1, <2>2
  <2>4. QED
    BY <2>1, <2>3
<1>6. /\ x \o t \in Seq(Int) /\ Len(x \o t) = Len(x) + Len(t)
      /\ \A i \in 1..Len(x) : (x \o t)[i] = x[i]
      /\ \A i \in 1..Len(t) : (x \o t)[Len(x) + i] = t[i]
  BY <1>4, WordsConcatenated
<1>7. 4 \in 1..Len(x) /\ 1 \in 1..Len(t) /\ \A i \in 1..n : 4 + i \in 1..Len(x)
  BY <1>4, <1>5
<1>8. /\ Len(x \o t) = 4 + n + 1 /\ (x \o t)[4] = n /\ (x \o t)[4 + n + 1] = n
      /\ \A i \in 1..n : (x \o t)[4 + i] = b[i]
  BY <1>4, <1>5, <1>6, <1>7
<1>9. Words!FileHeader = x \o t
  BY <1>2, <1>5
<1>10. QED
  BY <1>1, <1>6, <1>8, <1>9

\* The whole file: the header, and every event behind the others.
All == Words!FileHeader \o Words!Records(PDSEvents)
EndOf(n) == Len(Words!FileHeader) + Len(Words!Records(n))

EventStands(e) ==
  /\ EndOf(e) \in Nat /\ EndOf(e + 1) \in Nat
  /\ EndOf(e + 1) = EndOf(e) + 5 + Len(Words!Record(e)) /\ EndOf(e + 1) <= Len(All)
  /\ \A i \in 1..5 : All[EndOf(e) + i] = Words!EventHeader(e)[i]
  /\ \A i \in 1..Len(Words!Record(e)) : All[EndOf(e) + 5 + i] = Words!Record(e)[i]

LEMMA Layout ==
  ASSUME PDSParameters, SizesGiven
  PROVE  /\ All \in Seq(Int) /\ Len(All) \in Nat /\ Len(Words!FileHeader) \in Nat
         /\ EndOf(0) = Len(Words!FileHeader) /\ EndOf(PDSEvents) = Len(All)
         /\ \A n \in 0..PDSEvents : EndOf(n) \in Nat
         /\ \A i \in 1..Len(Words!FileHeader) : All[i] = Words!FileHeader[i]
         /\ \A e \in Words!Events : EventStands(e)
<1>0. PDSEvents \in Nat
  BY DEF PDSParameters
<1>1. PICK h \in Seq(Int) : h = Words!FileHeader /\ Len(h) \in Nat
  BY FileHeaderFacts
<1>2. PICK r \in Seq(Int) : r = Words!Records(PDSEvents) /\ Len(r) \in Nat
  <2>1. PDSEvents \in 0..PDSEvents
    BY <1>0
  <2>2. QED
    BY <2>1, RecordsGrow
<1>3. /\ h \o r \in Seq(Int) /\ Len(h \o r) = Len(h) + Len(r)
      /\ \A i \in 1..Len(h) : (h \o r)[i] = h[i]
      /\ \A i \in 1..Len(r) : (h \o r)[Len(h) + i] = r[i]
  BY WordsConcatenated
<1>4. PICK all \in Seq(Int) : all = h \o r /\ all = All
  BY <1>1, <1>2, <1>3 DEF All
<1>5. EndOf(0) = Len(h) /\ EndOf(PDSEvents) = Len(all)
  <2>1. Words!Records(0) = <<>>
    BY RecordsGrow
  <2>2. EndOf(0) = Len(h) + 0
    BY <1>1, <2>1 DEF EndOf
  <2>3. EndOf(PDSEvents) = Len(all)
    BY <1>1, <1>2, <1>3, <1>4 DEF EndOf
  <2>4. QED
    BY <1>1, <2>2, <2>3
<1>6. ASSUME NEW n \in 0..PDSEvents PROVE EndOf(n) \in Nat /\
               EndOf(n) = Len(h) + Len(Words!Records(n))
  <2>1. Len(Words!Records(n)) \in Nat
    BY RecordsGrow
  <2>2. EndOf(n) = Len(h) + Len(Words!Records(n))
    BY <1>1 DEF EndOf
  <2>3. QED
    BY <1>1, <2>1, <2>2
<1>7. ASSUME NEW e \in Words!Events PROVE EventStands(e)
  <2>1. e \in 0..PDSEvents /\ e + 1 \in 0..PDSEvents
    BY <1>0 DEF Words!Events
  <2>2. StandsBehind(e, Len(Words!Records(e)), r)
    BY <1>2, RecordsGrow
  <2>3. PICK a \in Nat, b \in Nat, m \in Nat, k \in Nat :
          /\ a = Len(Words!Records(e)) /\ b = Len(Words!Records(e + 1))
          /\ m = Len(Words!Record(e)) /\ k = Len(h)
          /\ EndOf(e) = k + a /\ EndOf(e + 1) = k + b
    <3>1. Len(Words!Records(e)) \in Nat /\ Len(Words!Records(e + 1)) \in Nat
      BY <2>1, RecordsGrow
    <3>2. EndOf(e) = Len(h) + Len(Words!Records(e)) /\
            EndOf(e + 1) = Len(h) + Len(Words!Records(e + 1))
      BY <1>6, <2>1
    <3>3. QED
      BY <1>1, <3>1, <3>2, PieceFacts
  <2>4. /\ b = a + 5 + m /\ b <= Len(r)
        /\ \A i \in 1..5 : r[a + i] = Words!EventHeader(e)[i]
        /\ \A i \in 1..m : r[a + 5 + i] = Words!Record(e)[i]
    BY <2>2, <2>3 DEF StandsBehind
  <2>5. ASSUME NEW i \in 1..5
        PROVE  all[k + a + i] = Words!EventHeader(e)[i]
    <3>1. a + i \in 1..Len(r) /\ k + (a + i) = k + a + i
      <4>1. ASSUME NEW l \in Nat, a + 5 + m <= l PROVE a + i \in 1..l /\ k + (a + i) = k + a + i
        BY <4>1
      <4>2. Len(r) \in Nat /\ a + 5 + m <= Len(r)
        BY <1>2, <2>4
      <4>3. QED
        BY <4>1, <4>2
    <3>2. QED
      BY <1>3, <1>4, <2>3, <2>4, <3>1
  <2>6. ASSUME NEW i \in 1..m
        PROVE  all[k + a + 5 + i] = Words!Record(e)[i]
    <3>1. a + 5 + i \in 1..Len(r) /\ k + (a + 5 + i) = k + a + 5 + i
      <4>1. ASSUME NEW l \in Nat, a + 5 + m <= l
            PROVE  a + 5 + i \in 1..l /\ k + (a + 5 + i) = k + a + 5 + i
        BY <4>1
      <4>2. Len(r) \in Nat /\ a + 5 + m <= Len(r)
        BY <1>2, <2>4
      <4>3. QED
        BY <4>1, <4>2
    <3>2. QED
      BY <1>3, <1>4, <2>3, <2>4, <3>1
  <2>7. k + b \in Nat /\ k + a \in Nat /\ k + b = k + a + 5 + m /\ k + b <= Len(all)
    <3>1. ASSUME NEW l \in Nat, b <= l, b = a + 5 + m
          PROVE  /\ k + b \in Nat /\ k + a \in Nat /\ k + b = k + a + 5 + m /\ k + b <= k + l
      BY <3>1
    <3>2. Len(r) \in Nat /\ b <= Len(r) /\ b = a + 5 + m
      BY <1>2, <2>4
    <3>3. Len(all) = k + Len(r)
      BY <1>3, <1>4, <2>3
    <3>4. QED
      BY <3>1, <3>2, <3>3
  <2>8. QED
    BY <1>4, <2>3, <2>5, <2>6, <2>7 DEF EventStands
<1>8. QED
  BY <1>1, <1>3, <1>4, <1>5, <1>6, <1>7

\* The words the reader finds of an event that begins in the file: they are those of
\* its header and of its record.
LEMMA EventWords ==
  ASSUME PDSParameters, SizesGiven, NEW e \in Words!Events
  PROVE  \E n \in Nat, second \in Int :
           /\ n = Len(Words!Compressed(e)) /\ Words!Compressed(e) \in Seq(Int)
           /\ second = 4 * Len(Words!Uncompressed(e)) + (Words!CompressedSize(e) % 4)
           /\ EndOf(e) \in Nat /\ EndOf(e + 1) = EndOf(e) + n + 8 /\ EndOf(e + 1) <= Len(All)
           /\ \A i \in 1..5 : All[EndOf(e) + i] = Words!EventHeader(e)[i]
           /\ All[EndOf(e) + 6] = n + 1 /\ All[EndOf(e) + 7] = second
           /\ \A k \in 1..n : All[EndOf(e) + 7 + k] = Words!Compressed(e)[k]
           /\ All[EndOf(e) + n + 8] = n + 1
<1>1. PICK n \in Nat, second \in Int, r \in Seq(Int) :
        /\ n = Len(Words!Compressed(e))
        /\ second = 4 * Len(Words!Uncompressed(e)) + (Words!CompressedSize(e) % 4)
        /\ r = Words!Record(e) /\ RecordOf(r, Words!Compressed(e), second, n)
  <2>1. Words!CompressedSize(e) % 4 \in Int
    BY CompressedFacts, WordCount
  <2>2. 4 * Len(Words!Uncompressed(e)) + (Words!CompressedSize(e) % 4) \in Int
    BY <2>1, CompressedFacts
  <2>3. QED
    BY <2>2, CompressedFacts, RecordFacts, PieceFacts
<1>2. PICK a \in Nat : a = EndOf(e)
  BY Layout DEF EventStands
<1>3. /\ EndOf(e + 1) = a + 5 + Len(r) /\ EndOf(e + 1) <= Len(All)
      /\ \A i \in 1..5 : All[a + i] = Words!EventHeader(e)[i]
      /\ \A i \in 1..Len(r) : All[a + 5 + i] = r[i]
  BY <1>1, <1>2, Layout DEF EventStands
<1>4. /\ Len(r) = n + 3 /\ r[1] = n + 1 /\ r[2] = second /\ r[n + 3] = n + 1
      /\ \A k \in 1..n : r[2 + k] = Words!Compressed(e)[k]
  BY <1>1 DEF RecordOf
<1>5. EndOf(e + 1) = a + n + 8
  BY <1>3, <1>4
<1>6. All[a + 6] = n + 1 /\ All[a + 7] = second /\ All[a + n + 8] = n + 1
  <2>1. 1 \in 1..Len(r) /\ 2 \in 1..Len(r) /\ n + 3 \in 1..Len(r)
    BY <1>4
  <2>2. a + 5 + 1 = a + 6 /\ a + 5 + 2 = a + 7 /\ a + 5 + (n + 3) = a + n + 8
    OBVIOUS
  <2>3. QED
    BY <1>3, <1>4, <2>1, <2>2
<1>7. ASSUME NEW k \in 1..n PROVE All[a + 7 + k] = Words!Compressed(e)[k]
  <2>1. 2 + k \in 1..Len(r) /\ a + 5 + (2 + k) = a + 7 + k
    BY <1>4
  <2>2. QED
    BY <1>3, <1>4, <2>1
<1>8. QED
  BY <1>1, <1>2, <1>3, <1>5, <1>6, <1>7, CompressedFacts

LEMMA EndsGrow ==
  ASSUME PDSParameters, SizesGiven, NEW m \in 0..PDSEvents, NEW n \in m..PDSEvents
  PROVE  EndOf(m) <= EndOf(n)
<1> DEFINE T == {j \in m..PDSEvents : ~ (EndOf(m) <= EndOf(j))}
<1>1. PDSEvents \in Nat /\ \A j \in 0..PDSEvents : EndOf(j) \in Nat
  BY Layout DEF PDSParameters
<1>2. SUFFICES ASSUME T # {} PROVE FALSE
  OBVIOUS
<1>3. PICK j \in T : \A i \in T : j <= i
  <2>1. T \subseteq Nat
    BY <1>1
  <2> HIDE DEF T
  <2>2. QED
    BY <1>2, <2>1, Smallest
<1>4. j # m /\ j - 1 \in m..PDSEvents /\ j - 1 \in Words!Events /\ j - 1 \notin T /\
        j - 1 + 1 = j
  <2>1. j # m
    BY <1>1
  <2>2. j \in m..PDSEvents
    OBVIOUS
  <2>3. j - 1 \in m..PDSEvents /\ j - 1 \in Words!Events /\ j - 1 + 1 = j /\ ~ (j <= j - 1)
    BY <1>1, <2>1, <2>2 DEF Words!Events
  <2>4. QED
    BY <1>3, <2>1, <2>3
<1>5. EndOf(m) <= EndOf(j - 1)
  BY <1>4
<1>6. PICK e \in Words!Events : e = j - 1 /\ e + 1 = j
  BY <1>4
<1>7. PICK k \in Nat : EndOf(e) \in Nat /\ EndOf(e + 1) = EndOf(e) + k + 8
  BY EventWords
<1>8. EndOf(m) <= EndOf(j)
  BY <1>1, <1>5, <1>6, <1>7
<1>9. QED
  BY <1>8

\* The events that are whole are the first ones, as many as end in the file.
LEMMA WholeFacts ==
  ASSUME PDSParameters, SizesGiven, Len(file) \in Nat, Len(Words!FileHeader) <= Len(file)
  PROVE  /\ Words!Whole \in 0..PDSEvents
         /\ EndOf(Words!Whole) <= Len(file)
         /\ \A e \in Words!Events : e < Words!Whole => EndOf(e + 1) <= Len(file)
         /\ \A e \in Words!Events : e >= Words!Whole => EndOf(e + 1) > Len(file)
<1>1. /\ PDSEvents \in Nat /\ EndOf(0) = Len(Words!FileHeader) /\
           \A j \in 0..PDSEvents : EndOf(j) \in Nat
      /\ Words!Events = 0..(PDSEvents - 1)
  BY Layout DEF PDSParameters, Words!Events
<1> DEFINE T == {m \in 0..PDSEvents : m = PDSEvents \/ EndOf(m + 1) > Len(file)}
<1>2. PICK n \in T : \A m \in T : n <= m
  <2>1. PDSEvents \in T /\ T \subseteq Nat
    BY <1>1
  <2> HIDE DEF T
  <2>2. QED
    BY <2>1, Smallest
<1>3. n \in 0..PDSEvents
  OBVIOUS
<1>4. ASSUME NEW e \in Words!Events, e < n PROVE EndOf(e + 1) <= Len(file)
  <2>1. e \in 0..PDSEvents /\ e # PDSEvents /\ e + 1 \in 0..PDSEvents /\ ~ (n <= e)
    BY <1>1, <1>3, <1>4
  <2>2. e \notin T
    BY <1>2, <2>1
  <2>3. ~ (EndOf(e + 1) > Len(file))
    BY <2>1, <2>2
  <2>4. QED
    BY <1>1, <2>1, <2>3
<1>5. ASSUME NEW e \in Words!Events, e >= n PROVE EndOf(e + 1) > Len(file)
  <2>1. n # PDSEvents /\ n + 1 \in 0..PDSEvents /\ e + 1 \in (n + 1)..PDSEvents /\
          e + 1 \in 0..PDSEvents
    BY <1>1, <1>3, <1>5
  <2>2. EndOf(n + 1) > Len(file)
    BY <1>2, <2>1
  <2>3. EndOf(n + 1) <= EndOf(e + 1)
    BY <2>1, EndsGrow
  <2>4. QED
    BY <1>1, <2>1, <2>2, <2>3
<1>6. EndOf(n) <= Len(file)
  <2>1. CASE n = 0
    BY <1>1, <2>1
  <2>2. CASE n # 0
    <3>1. PICK e \in Words!Events : e < n /\ e + 1 = n
      <4>1. n - 1 \in Words!Events /\ n - 1 < n /\ n - 1 + 1 = n
        BY <1>1, <1>3, <2>2
      <4>2. QED
        BY <4>1
    <3>2. QED
      BY <1>4, <3>1
  <2>3. QED
    BY <2>1, <2>2
<1>7. Words!Whole = n
  <2>1. {e \in Words!Events : Words!EndOfRecord(e) <= Len(file)} = 0..(n - 1)
    <3>1. \A e \in Words!Events : Words!EndOfRecord(e) = EndOf(e + 1)
      BY DEF Words!EndOfRecord, EndOf
    <3>2. \A e \in Words!Events : e + 1 \in 0..PDSEvents /\ EndOf(e + 1) \in Nat
      BY <1>1
    <3>3. ASSUME NEW e \in Words!Events PROVE Words!EndOfRecord(e) <= Len(file) <=> e < n
      <4>1. e < n \/ e >= n
        BY <1>1, <1>3
      <4>2. QED
        BY <1>1, <1>3, <1>4, <1>5, <3>1, <3>2, <4>1
    <3>4. \A e \in Words!Events : e < n <=> e \in 0..(n - 1)
      BY <1>1, <1>3
    <3>5. 0..(n - 1) \subseteq Words!Events
      BY <1>1, <1>3
    <3>6. QED
      BY <3>3, <3>4, <3>5
  <2>2. Cardinality(0..(n - 1)) = n
    <3>1. Cardinality(0..(n - 1)) = IF 0 > n - 1 THEN 0 ELSE n - 1 - 0 + 1
      BY <1>1, <1>3, FS_Interval
    <3>2. QED
      BY <1>1, <1>3, <3>1
  <2>3. QED
    BY <2>1, <2>2, SameCardinality DEF Words!Whole
<1>8. QED
  BY <1>3, <1>4, <1>5, <1>6, <1>7

\* Words that are taken out of a sequence.
LEMMA WordsTaken ==
  ASSUME NEW words \in Seq(Int), NEW a \in Nat, NEW b \in Seq(Int), a + Len(b) <= Len(words),
         \A k \in 1..Len(b) : words[a + k] = b[k]
  PROVE  SubSeq(words, a + 1, a + Len(b)) = b
<1>1. PICK c \in Nat, l \in Nat : c = Len(b) /\ l = Len(words)
  OBVIOUS
<1>2. a + c <= l /\ \A k \in 1..c : words[a + k] = b[k]
  BY <1>1
<1>3. a + 1 \in Int /\ a + c \in Int
  OBVIOUS
<1>4. \A i \in (a + 1)..(a + c) : words[i] \in Int
  <2>1. \A i \in (a + 1)..(a + c) : i \in 1..l
    BY <1>2
  <2>2. QED
    BY <1>1, <2>1
<1>5. PICK t : t = SubSeq(words, a + 1, a + c)
  OBVIOUS
<1>6. /\ t \in Seq(Int) /\ Len(t) = IF a + 1 <= a + c THEN a + c - (a + 1) + 1 ELSE 0
      /\ \A i \in 1..(a + c - (a + 1) + 1) : t[i] = words[a + 1 + i - 1]
  BY SMTT(30), <1>3, <1>4, <1>5, SubSeqProperties
<1>7. Len(t) = c
  BY <1>6
<1>8. \A k \in 1..c : t[k] = b[k]
  <2>1. a + c - (a + 1) + 1 = c /\ \A k \in 1..c : a + 1 + k - 1 = a + k
    OBVIOUS
  <2>2. QED
    BY <1>2, <1>6, <2>1
<1>9. t = b
  BY <1>1, <1>6, <1>7, <1>8, SeqEqual
<1>10. QED
  BY <1>1, <1>5, <1>9

\* The turns of deserializeDataProducts: the recursion has one solution.
TurnAfterTurn(h, words, o) ==
  /\ h = [n \in 0..Len(words) |-> h[n]] /\ h[0] = [at |-> 1, objects |-> o]
  /\ \A n \in 1..Len(words) : h[n] = Words!Turn(words, h[n - 1])

LEMMA TurnsAre ==
  ASSUME NEW words, Len(words) \in Nat, NEW o, NEW h, TurnAfterTurn(h, words, o)
  PROVE  Words!Turns(words, o) = h
<1>0. /\ h = [n \in 0..Len(words) |-> h[n]] /\ h[0] = [at |-> 1, objects |-> o]
      /\ \A n \in 1..Len(words) : h[n] = Words!Turn(words, h[n - 1])
  BY Zenon DEF TurnAfterTurn
<1> DEFINE Step(g) == [n \in 0..Len(words) |->
                         IF n = 0 THEN [at |-> 1, objects |-> o]
                                     ELSE Words!Turn(words, g[n - 1])]
           after == CHOOSE g : g = Step(g)
<1>1. Words!Turns(words, o) = after
  BY DEF Words!Turns
<1>2. h = Step(h)
  <2>1. ASSUME NEW n \in 0..Len(words)
        PROVE  h[n] = IF n = 0 THEN [at |-> 1, objects |-> o] ELSE Words!Turn(words, h[n - 1])
    <3>1. n = 0 \/ n \in 1..Len(words)
      OBVIOUS
    <3>2. n \in 1..Len(words) => n # 0
      OBVIOUS
    <3>3. QED
      BY Zenon, <1>0, <3>1, <3>2
  <2>2. [n \in 0..Len(words) |-> h[n]] = Step(h)
    BY Zenon, <2>1
  <2>3. QED
    BY Zenon, <1>0, <2>2
<1>3. after = Step(after)
  <2> HIDE DEF Step
  <2> QED
    BY Zenon, <1>2
<1> HIDE DEF after
<1> DEFINE T == {n \in 0..Len(words) : after[n] # h[n]}
<1>4. SUFFICES ASSUME T # {} PROVE FALSE
  <2>1. \A n \in 0..Len(words) : after[n] = h[n]
    OBVIOUS
  <2>2. after = [n \in 0..Len(words) |-> after[n]]
    <3>1. DOMAIN Step(after) = 0..Len(words)
      OBVIOUS
    <3> HIDE DEF Step
    <3>2. DOMAIN after = 0..Len(words)
      BY Zenon, <1>3, <3>1
    <3>3. \E g : after = [n \in 0..Len(words) |-> g[n]]
      <4>1. after = [n \in 0..Len(words) |-> IF n = 0 THEN [at |-> 1, objects |-> o]
                                                  ELSE Words!Turn(words, after[n - 1])]
        BY Zenon, <1>3 DEF Step
      <4> DEFINE g == [n \in 0..Len(words) |-> IF n = 0 THEN [at |-> 1, objects |-> o]
                                               ELSE Words!Turn(words, after[n - 1])]
      <4>2. g = [n \in 0..Len(words) |-> g[n]]
        BY Zenon
      <4> HIDE DEF g
      <4>3. after = g
        BY Zenon, <4>1 DEF g
      <4>4. QED
        BY Zenon, <4>2, <4>3
    <3>4. QED
      BY Zenon, <3>3
  <2>3. [n \in 0..Len(words) |-> after[n]] = [n \in 0..Len(words) |-> h[n]]
    BY Zenon, <2>1
  <2>4. QED
    BY Zenon, <1>0, <1>1, <2>2, <2>3
<1>5. PICK n \in T : \A m \in T : n <= m
  <2>1. T \subseteq Nat
    OBVIOUS
  <2> HIDE DEF T
  <2>2. QED
    BY <1>4, <2>1, Smallest
<1>6. n \in 0..Len(words) /\ after[n] # h[n]
  OBVIOUS
<1>7. after[n] = IF n = 0 THEN [at |-> 1, objects |-> o] ELSE Words!Turn(words, after[n - 1])
  <2>1. Step(after)[n] = IF n =
          0 THEN [at |-> 1, objects |-> o] ELSE Words!Turn(words, after[n - 1])
    BY Zenon, <1>6
  <2> HIDE DEF Step
  <2>2. QED
    BY Zenon, <1>3, <2>1
<1>8. n # 0
  BY Zenon, <1>0, <1>6, <1>7
<1>9. n \in 1..Len(words) /\ n - 1 \in 0..Len(words) /\ ~ (n <= n - 1)
  BY <1>6, <1>8
<1>10. after[n - 1] = h[n - 1]
  BY Zenon, <1>5, <1>9
<1>11. QED
  BY Zenon, <1>0, <1>6, <1>7, <1>8, <1>9, <1>10

\* The buffer of an event holds more words than the event has products.
LEMMA WordsOfProducts ==
  ASSUME PDSParameters, SizesGiven, NEW e \in Words!Events, NEW f, ProductsStand(e, f),
         NEW n \in 0..PDSProducts
  PROVE  n <= Len(f[n])
<1> DEFINE T == {m \in 0..PDSProducts : ~ (m <= Len(f[m]))}
<1>1. /\ PDSProducts \in Nat /\ f[0] = <<>> /\ \A m \in 0..PDSProducts : Len(f[m]) \in Nat
      /\ \A m \in 1..PDSProducts : Len(f[m]) = Len(f[m - 1]) + 2 + Len(Words!Blob(e, m - 1))
  BY DEF PDSParameters, ProductsStand
<1>2. SUFFICES ASSUME T # {} PROVE FALSE
  OBVIOUS
<1>3. PICK m \in T : \A k \in T : m <= k
  <2>1. T \subseteq Nat
    BY <1>1
  <2> HIDE DEF T
  <2>2. QED
    BY <1>2, <2>1, Smallest
<1>4. m \in 0..PDSProducts /\ ~ (m <= Len(f[m]))
  OBVIOUS
<1>5. m # 0
  <2>1. Len(f[0]) = 0
    BY <1>1
  <2>2. QED
    BY <1>4, <2>1
<1>6. m \in 1..PDSProducts /\ m - 1 \in 0..PDSProducts /\ ~ (m <= m - 1)
  BY <1>1, <1>4, <1>5
<1>7. m - 1 <= Len(f[m - 1])
  BY <1>3, <1>6
<1>8. PICK b \in Nat : b = Len(Words!Blob(e, m - 1))
  <2>1. m - 1 \in Words!Products
    BY <1>1, <1>6 DEF Words!Products
  <2>2. QED
    BY <2>1, WordBlobFacts
<1>9. Len(f[m]) = Len(f[m - 1]) + 2 + b /\ Len(f[m - 1]) \in Nat
  BY <1>1, <1>6, <1>8
<1>10. QED
  BY <1>4, <1>6, <1>7, <1>9

\* What the turns leave of the objects: each turn takes the next product.
LEMMA TurnTakesProduct ==
  ASSUME PDSParameters, SizesGiven, NEW e \in Words!Events, NEW f, ProductsStand(e, f),
         NEW n \in 1..PDSProducts, NEW o \in [Words!Products -> Seq(Int)]
  PROVE  Words!Turn(Words!Uncompressed(e),
                    [at |-> Len(f[n - 1]) + 1,
                     objects |-> [p \in Words!Products |->
                                   IF p < n - 1 THEN Words!Blob(e, p) ELSE o[p]]])
           = [at |-> Len(f[n]) + 1,
              objects |-> [p \in Words!Products |-> IF p < n THEN Words!Blob(e, p) ELSE o[p]]]
<1>1. n - 1 \in Words!Products /\ \A p \in Words!Products : p \in Nat
  BY DEF PDSParameters, Words!Products
<1>2. PICK words \in Seq(Int), a \in Nat, c \in Nat, b \in Seq(Int) :
        /\ words = Words!Uncompressed(e) /\ a = Len(f[n - 1]) /\ b = Words!Blob(e, n - 1)
        /\ c = Len(b)
  <2>1. n - 1 \in 0..PDSProducts
    BY DEF PDSParameters
  <2>2. Words!Uncompressed(e) \in Seq(Int) /\ Len(f[n - 1]) \in Nat
    BY <2>1 DEF ProductsStand
  <2>3. QED
    BY <1>1, <2>2, WordBlobFacts
<1>3. /\ Len(f[n]) = a + 2 + c /\ a + 2 + c <= Len(words)
      /\ words[a + 1] = n - 1 /\ words[a + 2] = c
      /\ \A k \in 1..c : words[a + 2 + k] = b[k]
  BY <1>2 DEF ProductsStand
<1>4. Len(words) \in Nat
  OBVIOUS
<1> DEFINE s == [at |-> a + 1,
                 objects |-> [p \in Words!Products |->
                               IF p < n - 1 THEN Words!Blob(e, p) ELSE o[p]]]
<1>5. ~ (s.at >= Len(words)) /\ words[s.at] = n - 1 /\ words[s.at + 1] = c
  <2>1. s.at = a + 1
    OBVIOUS
  <2>2. a + 1 + 1 = a + 2 /\ ~ (a + 1 >= Len(words))
    <3>1. ASSUME NEW l \in Nat, a + 2 + c <= l PROVE a + 1 + 1 = a + 2 /\ ~ (a + 1 >= l)
      BY <3>1
    <3>2. QED
      BY <1>3, <1>4, <3>1
  <2>3. QED
    BY <1>3, <2>1, <2>2
<1>6. s.at + 2 + c = Len(f[n]) + 1
  BY <1>3
<1>7. SubSeq(words, s.at + 2, s.at + 1 + c) = b
  <2>1. s.at + 2 = a + 3 /\ s.at + 1 + c = a + 2 + c
    OBVIOUS
  <2>2. SubSeq(words, a + 3, a + 2 + c) = b
    <3>1. PICK d \in Nat : d = a + 2 /\ d + c <= Len(words)
      <4>1. a + 2 \in Nat
        OBVIOUS
      <4>2. QED
        BY <1>3, <4>1
    <3>2. \A k \in 1..c : words[d + k] = b[k]
      BY <1>3, <3>1
    <3>3. SubSeq(words, d + 1, d + c) = b
      BY <1>2, <3>1, <3>2, WordsTaken
    <3>4. d + 1 = a + 3 /\ d + c = a + 2 + c
      BY <3>1
    <3>5. QED
      BY <3>3, <3>4
  <2>3. QED
    BY <2>1, <2>2
<1> DEFINE after == [p \in Words!Products |-> IF p < n THEN Words!Blob(e, p) ELSE o[p]]
<1>8. [s.objects EXCEPT ![n - 1] = b] = after
  <2>1. ASSUME NEW p \in Words!Products
        PROVE  (IF p = n - 1 THEN b ELSE IF p < n - 1 THEN Words!Blob(e, p) ELSE o[p])
                 = IF p < n THEN Words!Blob(e, p) ELSE o[p]
    <3>1. p \in Nat /\ n \in Nat
      BY <1>1
    <3>2. CASE p = n - 1
      <4>1. p < n
        BY <3>1, <3>2
      <4>2. QED
        BY <1>2, <3>2, <4>1
    <3>3. CASE p # n - 1
      <4>1. p < n <=> p < n - 1
        BY <3>1, <3>3
      <4>2. QED
        BY <3>3, <4>1
    <3>4. QED
      BY <3>2, <3>3
  <2>2. [s.objects EXCEPT ![n - 1] = b]
          = [p \in Words!Products |->
              IF p = n - 1 THEN b ELSE IF p < n - 1 THEN Words!Blob(e, p) ELSE o[p]]
    OBVIOUS
  <2>3. QED
    BY Zenon, <2>1, <2>2
<1> HIDE DEF after
<1>9. Words!Turn(words, s) = [at |-> Len(f[n]) + 1, objects |-> after]
  <2> HIDE DEF s
  <2>1. Words!Turn(words, s) = [at |-> s.at + 2 + c, objects |-> [s.objects EXCEPT ![n - 1] =
                                  SubSeq(words, s.at + 2, s.at + 1 + c)]]
    BY Zenon, <1>5 DEF Words!Turn
  <2>2. QED
    BY Zenon, <1>6, <1>7, <1>8, <2>1
<1>10. QED
  BY Zenon, <1>2, <1>9 DEF after

LEMMA EventDeserialized ==
  ASSUME PDSParameters, SizesGiven, NEW e \in Words!Events,
         NEW o \in [Words!Products -> Seq(Int)]
  PROVE  Words!Deserialize(Words!Uncompressed(e), o) =
         [p \in Words!Products |-> Words!Blob(e, p)]
<1>1. PICK f : ProductsStand(e, f)
  BY ProductsAreThere
<1>2. PICK words \in Seq(Int), l \in Nat : words = Words!Uncompressed(e) /\ l = Len(words)
  BY <1>1 DEF ProductsStand
<1>3. PDSProducts \in 0..l /\ PDSProducts \in Nat
  <2>1. PDSProducts \in Nat /\ PDSProducts \in 0..PDSProducts
    BY DEF PDSParameters
  <2>2. PDSProducts <= Len(f[PDSProducts])
    BY <1>1, <2>1, WordsOfProducts
  <2>3. f[PDSProducts] = words
    BY <1>1, <1>2 DEF ProductsStand
  <2>4. QED
    BY <1>2, <2>1, <2>2, <2>3
<1> DEFINE S(n) == [at |-> Len(f[n]) + 1,
                    objects |-> [p \in Words!Products |->
                                  IF p < n THEN Words!Blob(e, p) ELSE o[p]]]
           h == [n \in 0..l |-> IF n <= PDSProducts THEN S(n) ELSE S(PDSProducts)]
<1>4. h[0] = [at |-> 1, objects |-> o]
  <2>1. Len(f[0]) = 0
    BY <1>1 DEF ProductsStand
  <2>2. [p \in Words!Products |-> IF p < 0 THEN Words!Blob(e, p) ELSE o[p]] = o
    <3>1. \A p \in Words!Products : ~ (p < 0)
      BY DEF Words!Products
    <3>2. [p \in Words!Products |-> IF p < 0 THEN Words!Blob(e, p) ELSE o[p]] =
            [p \in Words!Products |-> o[p]]
      BY Zenon, <3>1
    <3>3. QED
      BY Zenon, <3>2
  <2>3. 0 \in 0..l /\ 0 <= PDSProducts
    BY <1>3
  <2>4. h[0] = S(0)
    <3> HIDE DEF S
    <3> QED
      BY <2>3
  <2>5. S(0) = [at |-> Len(f[0]) + 1, objects |-> o]
    BY Zenon, <2>2
  <2>6. Len(f[0]) + 1 = 1
    BY <2>1
  <2> HIDE DEF S, h
  <2>7. QED
    BY Zenon, <2>4, <2>5, <2>6
<1>5. ASSUME NEW n \in 1..l PROVE h[n] = Words!Turn(words, h[n - 1])
  <2>1. n \in 0..l /\ n - 1 \in 0..l
    BY <1>3
  <2>2. CASE n <= PDSProducts
    <3>1. n \in 1..PDSProducts /\ n - 1 <= PDSProducts
      BY <1>3, <2>2
    <3>2. h[n] = S(n) /\ h[n - 1] = S(n - 1)
      <4> HIDE DEF S
      <4> QED
        BY <2>1, <2>2, <3>1
    <3>3. Words!Turn(words, S(n - 1)) = S(n)
      <4>1. PICK m \in 1..PDSProducts : m = n
        BY <3>1
      <4>2. Words!Turn(Words!Uncompressed(e),
                       [at |-> Len(f[m - 1]) + 1,
                        objects |-> [p \in Words!Products |->
                                      IF p < m - 1 THEN Words!Blob(e, p) ELSE o[p]]])
              = [at |-> Len(f[m]) + 1,
                 objects |-> [p \in Words!Products |->
                               IF p < m THEN Words!Blob(e, p) ELSE o[p]]]
        <5> HIDE DEF S, h
        <5> QED
          BY <1>1, <4>1, TurnTakesProduct
      <4>3. Words!Turn(Words!Uncompressed(e), S(m - 1)) = S(m)
        BY Zenon, <4>2
      <4> HIDE DEF S
      <4>4. QED
        BY <1>2, <4>1, <4>3
    <3> HIDE DEF S, h
    <3>4. QED
      BY Zenon, <3>2, <3>3
  <2>3. CASE ~ (n <= PDSProducts)
    <3>1. h[n] = S(PDSProducts) /\ h[n - 1] = S(PDSProducts)
      <4> HIDE DEF S
      <4>1. n - 1 <= PDSProducts => n - 1 = PDSProducts
        BY <1>3, <2>3
      <4>2. QED
        BY <2>1, <2>3, <4>1
    <3>2. S(PDSProducts).at >= Len(words)
      <4>1. f[PDSProducts] = words
        BY <1>1, <1>2 DEF ProductsStand
      <4>2. S(PDSProducts).at = Len(words) + 1
        BY <4>1
      <4> HIDE DEF S
      <4>3. QED
        BY <1>2, <4>2
    <3> HIDE DEF S, h
    <3>3. Words!Turn(words, S(PDSProducts)) = S(PDSProducts)
      BY Zenon, <3>2 DEF Words!Turn
    <3>4. QED
      BY Zenon, <3>1, <3>3
  <2>4. QED
    BY <2>2, <2>3
<1>6. h = [n \in 0..l |-> h[n]]
  OBVIOUS
<1>7. h[l].objects = [p \in Words!Products |-> Words!Blob(e, p)]
  <2>1. h[l] = S(PDSProducts)
    <3>1. l \in 0..l /\ (l <= PDSProducts => l = PDSProducts)
      BY <1>3
    <3> HIDE DEF S
    <3>2. QED
      BY <3>1
  <2>2. \A p \in Words!Products : p < PDSProducts
    BY <1>3 DEF Words!Products
  <2>3. [p \in Words!Products |-> IF p < PDSProducts THEN Words!Blob(e, p) ELSE o[p]] =
          [p \in Words!Products |-> Words!Blob(e, p)]
    BY Zenon, <2>2
  <2>4. S(PDSProducts).objects =
          [p \in Words!Products |-> IF p < PDSProducts THEN Words!Blob(e, p) ELSE o[p]]
    OBVIOUS
  <2> HIDE DEF S, h
  <2>5. QED
    BY Zenon, <2>1, <2>3, <2>4
<1> HIDE DEF h
<1>8. Words!Turns(words, o) = h
  <2>1. Len(words) \in Nat /\ h = [n \in 0..Len(words) |-> h[n]]
    BY <1>2, <1>6
  <2>2. \A n \in 1..Len(words) : h[n] = Words!Turn(words, h[n - 1])
    BY Zenon, <1>2, <1>5
  <2>3. QED
    <3>1. TurnAfterTurn(h, words, o)
      BY Zenon, <1>4, <2>1, <2>2 DEF TurnAfterTurn
    <3>2. QED
      BY <2>1, <3>1, TurnsAre
<1>9. QED
  BY Zenon, <1>2, <1>7, <1>8 DEF Words!Deserialize

\* The places of readProductInfo, each behind the name of the last.
NextPlace(buffer, i) ==
  i + 1 + Words!BytesToWords(Words!NameLength(Words!NameAt(buffer, i)) + 1)

PlaceAfterPlace(h, buffer, first, n) ==
  /\ h = [k \in 0..n |-> h[k]] /\ h[0] = first
  /\ \A k \in 1..n : h[k] = NextPlace(buffer, h[k - 1])

LEMMA PlacesAre ==
  ASSUME NEW n \in Nat, NEW buffer, NEW first, NEW h, PlaceAfterPlace(h, buffer, first, n)
  PROVE  Words!ProductPlaces(buffer, first, n) = h
<1>0. /\ h = [k \in 0..n |-> h[k]] /\ h[0] = first
      /\ \A k \in 1..n : h[k] = NextPlace(buffer, h[k - 1])
  BY Zenon DEF PlaceAfterPlace
<1> DEFINE Step(g) == [k \in 0..n |-> IF k = 0 THEN first ELSE NextPlace(buffer, g[k - 1])]
           place == CHOOSE g : g = Step(g)
<1>1. Words!ProductPlaces(buffer, first, n) = place
  BY DEF Words!ProductPlaces, NextPlace
<1>2. h = Step(h)
  <2>1. ASSUME NEW k \in 0..n
        PROVE  h[k] = IF k = 0 THEN first ELSE NextPlace(buffer, h[k - 1])
    <3>1. k = 0 \/ k \in 1..n
      OBVIOUS
    <3>2. k \in 1..n => k # 0
      OBVIOUS
    <3>3. QED
      BY Zenon, <1>0, <3>1, <3>2
  <2>2. [k \in 0..n |-> h[k]] = Step(h)
    BY Zenon, <2>1
  <2>3. QED
    BY Zenon, <1>0, <2>2
<1>3. place = Step(place)
  <2> HIDE DEF Step
  <2> QED
    BY Zenon, <1>2
<1> HIDE DEF place
<1> DEFINE T == {k \in 0..n : place[k] # h[k]}
<1>4. SUFFICES ASSUME T # {} PROVE FALSE
  <2>1. \A k \in 0..n : place[k] = h[k]
    OBVIOUS
  <2>2. place = [k \in 0..n |-> place[k]]
    <3> DEFINE g == [k \in 0..n |-> IF k = 0 THEN first ELSE NextPlace(buffer, place[k - 1])]
    <3>1. g = [k \in 0..n |-> g[k]]
      BY Zenon
    <3>2. place = g
      BY Zenon, <1>3
    <3> HIDE DEF g
    <3>3. QED
      BY Zenon, <3>1, <3>2
  <2>3. [k \in 0..n |-> place[k]] = [k \in 0..n |-> h[k]]
    BY Zenon, <2>1
  <2>4. QED
    BY Zenon, <1>0, <1>1, <2>2, <2>3
<1>5. PICK k \in T : \A m \in T : k <= m
  <2>1. T \subseteq Nat
    OBVIOUS
  <2> HIDE DEF T
  <2>2. QED
    BY <1>4, <2>1, Smallest
<1>6. k \in 0..n /\ place[k] # h[k]
  OBVIOUS
<1>7. place[k] = IF k = 0 THEN first ELSE NextPlace(buffer, place[k - 1])
  <2>1. Step(place)[k] = IF k = 0 THEN first ELSE NextPlace(buffer, place[k - 1])
    BY Zenon, <1>6
  <2> HIDE DEF Step
  <2>2. QED
    BY Zenon, <1>3, <2>1
<1>8. k # 0
  BY Zenon, <1>0, <1>6, <1>7
<1>9. k \in 1..n /\ k - 1 \in 0..n /\ ~ (k <= k - 1)
  BY <1>6, <1>8
<1>10. place[k - 1] = h[k - 1]
  BY Zenon, <1>5, <1>9
<1>11. QED
  BY Zenon, <1>0, <1>6, <1>7, <1>8, <1>9, <1>10

LEMMA NameFound == ASSUME NEW p \in Nat PROVE (Words!NameWord(p, 1) - 3001) \div 10 = p
BY DEF Words!NameWord

\* The header names every product, and nothing is left of it.
ProductsNamed ==
  [i \in 1..PDSProducts |-> [name |-> i - 1, class |-> i - 1]] \o <<[rest |-> 1]>>

LEMMA InfosRead ==
  ASSUME PDSParameters, NEW buffer, Len(buffer) = Len(Words!HeaderBuffer) + 1,
         \A i \in 1..Len(Words!HeaderBuffer) : buffer[i] = Words!HeaderBuffer[i]
  PROVE  Words!ProductInfo(buffer, 7 + TypeWords, PDSProducts) = ProductsNamed
<1>1. PICK f : InfosStand(f, Words!FlattenSeq(Infos))
  BY InfosAreThere
<1>2. PICK t \in Nat, n \in Nat, j \in Seq(Int), l \in Nat :
        t = TypeWords /\ n = PDSProducts /\ j = Words!FlattenSeq(Infos) /\ l = Len(j)
  <2>1. TypeWords \in Nat /\ PDSProducts \in Nat
    BY HeaderFacts DEF PDSParameters
  <2>2. Words!FlattenSeq(Infos) \in Seq(Int) /\ Len(Words!FlattenSeq(Infos)) \in Nat
    BY <1>1 DEF InfosStand
  <2>3. QED
    BY <2>1, <2>2
<1>3. Len(Words!HeaderBuffer) = 6 + t + l /\
         \A i \in 1..l : Words!HeaderBuffer[6 + t + i] = j[i]
  <2>1. HeaderStands(Words!HeaderBuffer, j)
    BY <1>2, HeaderFacts
  <2>2. QED
    BY <1>2, <2>1 DEF HeaderStands
<1>4. ASSUME NEW i \in 1..l PROVE buffer[6 + t + i] = j[i]
  <2>1. 6 + t + i \in 1..(6 + t + l)
    OBVIOUS
  <2>2. QED
    BY <1>2, <1>3, <2>1
<1>5. /\ Len(f[0]) = 0 /\ Len(f[n]) = l
      /\ \A k \in 0..n : Len(f[k]) \in Nat
      /\ \A k \in 1..n :
           /\ Len(f[k]) = Len(f[k - 1]) + 1 + NameWordsOf(k - 1)
           /\ Len(f[k]) <= l /\ NameWordsOf(k - 1) \in Nat \ {0}
           /\ j[Len(f[k - 1]) + 1] = k - 1
           /\ j[Len(f[k - 1]) + 2] = Words!NameWord(k - 1, 1)
  BY <1>1, <1>2 DEF InfosStand
<1> DEFINE h == [k \in 0..n |-> 7 + t + Len(f[k])]
<1>6. ASSUME NEW k \in 1..n
      PROVE  /\ buffer[h[k - 1]] = k - 1 /\ Words!NameAt(buffer, h[k - 1]) = k - 1
             /\ h[k] = NextPlace(buffer, h[k - 1])
  <2>1. k - 1 \in 0..n /\ k \in 0..n /\ k - 1 \in Nat
    OBVIOUS
  <2>2. PICK a \in Nat, w \in Nat \ {0} :
          a = Len(f[k - 1]) /\ w = NameWordsOf(k - 1) /\ Len(f[k]) = a + 1 + w /\ a + 1 + w <= l
    BY <1>5, <2>1
  <2>3. h[k - 1] = 7 + t + a /\ h[k] = 7 + t + (a + 1 + w)
    BY <2>1, <2>2
  <2> HIDE DEF h
  <2>4. a + 1 \in 1..l /\ a + 2 \in 1..l /\ 6 + t + (a + 1) = 7 + t + a /\
          6 + t + (a + 2) = 7 + t + a + 1
    <3>1. ASSUME NEW x \in Nat, NEW y \in Nat \ {0}, x + 1 + y <= l
          PROVE  x + 1 \in 1..l /\ x + 2 \in 1..l
      BY <3>1
    <3>2. 6 + t + (a + 1) = 7 + t + a /\ 6 + t + (a + 2) = 7 + t + a + 1
      OBVIOUS
    <3>3. QED
      BY <2>2, <3>1, <3>2
  <2>5. buffer[7 + t + a] = k - 1 /\ buffer[7 + t + a + 1] = Words!NameWord(k - 1, 1)
    <3>1. buffer[6 + t + (a + 1)] = j[a + 1] /\ buffer[6 + t + (a + 2)] = j[a + 2]
      BY Zenon, <1>4, <2>4
    <3>2. j[a + 1] = k - 1 /\ j[a + 2] = Words!NameWord(k - 1, 1)
      BY Zenon, <1>5, <2>2
    <3>3. QED
      BY Zenon, <2>4, <3>1, <3>2
  <2>6. Words!NameAt(buffer, h[k - 1]) = k - 1
    <3>1. PICK i \in Nat : i = h[k - 1] /\ i = 7 + t + a
      BY <2>3
    <3>2. buffer[i + 1] = Words!NameWord(k - 1, 1)
      BY Zenon, <2>5, <3>1
    <3>3. Words!NameAt(buffer, i) = (Words!NameWord(k - 1, 1) - 3001) \div 10
      BY <3>2 DEF Words!NameAt
    <3>4. (Words!NameWord(k - 1, 1) - 3001) \div 10 = k - 1
      BY <2>1, NameFound
    <3>5. QED
      BY <3>1, <3>3, <3>4
  <2>7. h[k] = NextPlace(buffer, h[k - 1])
    <3>1. NextPlace(buffer, h[k - 1]) = 7 + t + a + 1 + w
      BY Zenon, <2>2, <2>3, <2>6 DEF NextPlace, NameWordsOf
    <3>2. 7 + t + a + 1 + w = 7 + t + (a + 1 + w)
      OBVIOUS
    <3>3. QED
      BY Zenon, <2>3, <3>1, <3>2
  <2>8. QED
    BY <2>3, <2>5, <2>6, <2>7
<1>7. h = [k \in 0..n |-> h[k]] /\ h[0] = 7 + t /\ h[n] = 7 + t + l
  <2>1. 0 \in 0..n /\ n \in 0..n /\ 7 + t + 0 = 7 + t
    OBVIOUS
  <2>2. h = [k \in 0..n |-> h[k]]
    BY Zenon
  <2>3. QED
    BY <1>5, <2>1, <2>2
<1> HIDE DEF h
<1>8. Words!ProductPlaces(buffer, 7 + t, n) = h
  <2>1. PlaceAfterPlace(h, buffer, 7 + t, n)
    BY Zenon, <1>6, <1>7 DEF PlaceAfterPlace
  <2>2. QED
    BY <2>1, PlacesAre
<1>9. Len(buffer) + 1 - h[n] = 1
  <2>1. Len(buffer) = 6 + t + l + 1
    BY <1>2, <1>3
  <2>2. 6 + t + l + 1 + 1 - (7 + t + l) = 1
    OBVIOUS
  <2>3. QED
    BY Zenon, <1>7, <2>1, <2>2
<1>10. Words!ProductInfo(buffer, 7 + t, n)
        = [k \in 1..n |-> [name |-> Words!NameAt(buffer, h[k - 1]), class |-> buffer[h[k - 1]]]]
            \o <<[rest |-> Len(buffer) + 1 - h[n]]>>
  BY Zenon, <1>8 DEF Words!ProductInfo
<1>11. [k \in 1..n |-> [name |-> Words!NameAt(buffer, h[k - 1]), class |-> buffer[h[k - 1]]]]
         = [k \in 1..n |-> [name |-> k - 1, class |-> k - 1]]
  BY Zenon, <1>6
<1>12. QED
  BY Zenon, <1>2, <1>9, <1>10, <1>11 DEF ProductsNamed

\* What the outputer has written so far is the beginning of the whole file.
FileIsBegun ==
  /\ file \in Seq(Int) /\ Len(file) <= Len(All)
  /\ \A i \in 1..Len(file) : file[i] = All[i]

LEMMA HeaderRead ==
  ASSUME PDSParameters, SizesGiven, FileIsBegun, Len(Words!FileHeader) <= Len(file)
  PROVE  file[4] + 5 = Len(Words!FileHeader) /\ Words!ReadFileHeader(file) = ProductsNamed
<1>1. PICK n \in Nat, m \in Nat, words \in Seq(Int) :
        /\ n = Len(Words!HeaderBuffer) /\ words = file /\ m = Len(words)
        /\ Len(Words!FileHeader) = n + 5
        /\ n + 5 <= m
        /\ Words!FileHeader[4] = n /\ Words!FileHeader[4 + n + 1] = n
        /\ \A i \in 1..n : Words!FileHeader[4 + i] = Words!HeaderBuffer[i]
  <2>1. PICK n \in Nat : n = Len(Words!HeaderBuffer)
    BY FileHeaderFacts
  <2>2. Len(Words!FileHeader) = 4 + n + 1 /\ 4 + n + 1 = n + 5
    BY <2>1, FileHeaderFacts
  <2>3. file \in Seq(Int) /\ Len(file) \in Nat
    BY DEF FileIsBegun
  <2>4. QED
    BY ZenonT(30), <2>1, <2>2, <2>3, FileHeaderFacts
<1>2. ASSUME NEW i \in 1..(n + 5) PROVE words[i] = Words!FileHeader[i]
  <2>1. i \in 1..m
    BY <1>1
  <2>2. QED
    BY <1>1, <2>1, Layout DEF FileIsBegun
<1>3. words[4] = n
  <2>1. 4 \in 1..(n + 5)
    OBVIOUS
  <2>2. QED
    BY <1>1, <1>2, <2>1
<1> DEFINE buffer == SubSeq(words, 5, 4 + n + 1)
<1>4. Len(buffer) = n + 1 /\ \A i \in 1..n : buffer[i] = Words!HeaderBuffer[i]
  <2>1. \A i \in 5..(4 + n + 1) : words[i] \in Int
    <3>1. \A i \in 5..(4 + n + 1) : i \in 1..m
      BY <1>1
    <3>2. QED
      BY <1>1, <3>1
  <2>2. 5 \in Int /\ 4 + n + 1 \in Int
    OBVIOUS
  <2>3. /\ Len(buffer) = IF 5 <= 4 + n + 1 THEN 4 + n + 1 - 5 + 1 ELSE 0
        /\ \A i \in 1..(4 + n + 1 - 5 + 1) : buffer[i] = words[5 + i - 1]
    BY <2>1, <2>2, SubSeqProperties
  <2> HIDE DEF buffer
  <2>4. ASSUME NEW i \in 1..n PROVE buffer[i] = Words!HeaderBuffer[i]
    <3>1. i \in 1..(4 + n + 1 - 5 + 1) /\ 5 + i - 1 = 4 + i /\ 4 + i \in 1..(n + 5)
      OBVIOUS
    <3>2. buffer[i] = words[4 + i]
      BY Zenon, <2>3, <3>1
    <3>3. QED
      BY Zenon, <1>1, <1>2, <3>1, <3>2
  <2>5. Len(buffer) = n + 1
    BY <2>3
  <2>6. QED
    BY <2>4, <2>5
<1> HIDE DEF buffer
<1>5. PICK t \in Nat : /\ t = TypeWords /\ buffer[1] = 2 /\ buffer[4] = t
                       /\ buffer[5 + t] = 0 /\ buffer[6 + t] = PDSProducts
  <2>1. PICK t \in Nat, l \in Nat :
          /\ t = TypeWords /\ n = 6 + t + l /\ Words!HeaderBuffer[1] = 2
          /\ Words!HeaderBuffer[4] = t
          /\ Words!HeaderBuffer[5 + t] = 0 /\ Words!HeaderBuffer[6 + t] = PDSProducts
    BY <1>1, HeaderFacts DEF HeaderStands
  <2>2. 1 \in 1..n /\ 4 \in 1..n /\ 5 + t \in 1..n /\ 6 + t \in 1..n
    BY <2>1
  <2>3. QED
    BY Zenon, <1>4, <2>1, <2>2
<1>6. /\ 2 + buffer[1] = 4 /\ 4 + 1 + buffer[4] = 5 + t
      /\ 5 + t + 1 + buffer[5 + t] = 6 + t /\ 6 + t + 1 = 7 + t
  BY <1>5
<1>7. Words!ReadFileHeader(words) = Words!ProductInfo(buffer, 6 + t + 1, buffer[6 + t])
  BY Zenon, <1>3, <1>6 DEF Words!ReadFileHeader, buffer
<1>8. Words!ProductInfo(buffer, 7 + t, PDSProducts) = ProductsNamed
  <2>1. Len(buffer) = Len(Words!HeaderBuffer) + 1 /\
          \A i \in 1..Len(Words!HeaderBuffer) : buffer[i] = Words!HeaderBuffer[i]
    BY <1>1, <1>4
  <2>2. Words!ProductInfo(buffer, 7 + TypeWords, PDSProducts) = ProductsNamed
    BY <2>1, InfosRead
  <2>3. QED
    BY Zenon, <1>5, <2>2
<1>9. QED
  <2>1. Words!ReadFileHeader(words) = ProductsNamed
    BY Zenon, <1>5, <1>6, <1>7, <1>8
  <2>2. file[4] + 5 = Len(Words!FileHeader)
    BY <1>1, <1>3
  <2>3. QED
    BY Zenon, <1>1, <2>1, <2>2

\* No two events are compressed to the same words.
LEMMA CompressedTellsApart ==
  ASSUME PDSParameters, SizesGiven, NEW d \in Words!Events, NEW e \in Words!Events,
         compression # "None",
         Words!Compressed(d) = Words!Compressed(e)
  PROVE  d = e
<1>1. PICK m \in Nat : m = Words!BytesToWords(cBytes) /\ m # 0
  BY WordCount DEF SizesGiven
<1>2. /\ Words!Compressed(d) = [k \in 1..m |-> Words!CompressedWord(d, k)]
      /\ Words!Compressed(e) = [k \in 1..m |-> Words!CompressedWord(e, k)]
  BY <1>1 DEF Words!Compressed
<1>3. 1 \in 1..m
  BY <1>1
<1>4. Words!CompressedWord(d, 1) = Words!CompressedWord(e, 1)
  <2>1. Words!Compressed(d)[1] = Words!CompressedWord(d, 1) /\
          Words!Compressed(e)[1] = Words!CompressedWord(e, 1)
    BY <1>2, <1>3
  <2>2. QED
    BY <2>1
<1>5. d \in Int /\ e \in Int
  BY DEF Words!Events
<1>6. QED
  BY <1>4, <1>5 DEF Words!CompressedWord

\* A record that is read whole gives the words of its event back.
LEMMA UncompressedAgain ==
  ASSUME PDSParameters, SizesGiven, NEW e \in Words!Events, NEW n \in Nat,
         NEW record \in Seq(Int),
         n = Len(Words!Compressed(e)), Len(record) = n + 1,
         record[1] = 4 * Len(Words!Uncompressed(e)) + (Words!CompressedSize(e) % 4),
         \A k \in 1..n : record[1 + k] = Words!Compressed(e)[k]
  PROVE  Words!UncompressEventBuffer(record) = Words!Uncompressed(e) /\ ~ Words!Overrun(record)
<1>1. PICK u \in Nat, c \in Nat, z \in Seq(Int) :
        /\ u = Len(Words!Uncompressed(e)) /\ c = Words!CompressedSize(e)
        /\ z = Words!Compressed(e)
        /\ n = Words!BytesToWords(c) /\ n = Len(z)
  BY CompressedFacts
<1>2. PICK r \in 0..3 : r = c % 4
  BY WordCount
<1>3. record[1] = 4 * u + r /\ record[1] % 4 = r /\ record[1] \div 4 = u
  <2>1. ASSUME NEW x \in Nat, NEW y \in 0..3 PROVE (4 * x + y) % 4 = y /\ (4 * x + y) \div 4 = x
    <3>1. PICK m \in Nat : m = 4 * x + y
      OBVIOUS
    <3>2. m = 4 * (m \div 4) + (m % 4) /\ m % 4 \in 0..3 /\ m \div 4 \in Nat
      OBVIOUS
    <3>3. QED
      BY SMTT(30), <3>1, <3>2
  <2>2. record[1] = 4 * u + r
    BY <1>1, <1>2
  <2>3. (4 * u + r) % 4 = r /\ (4 * u + r) \div 4 = u
    BY <1>1, <1>2, <2>1
  <2>4. QED
    BY <2>2, <2>3
<1>4. Tail(record) = z
  <2>1. record # <<>>
    BY <1>1
  <2>2. PICK t : t = Tail(record)
    OBVIOUS
  <2>3. t \in Seq(Int) /\ Len(t) = n + 1 - 1 /\ \A i \in 1..Len(t) : t[i] = record[i + 1]
    BY <2>1, <2>2, HeadTailProperties
  <2>4. Len(t) = n
    BY <2>3
  <2>5. ASSUME NEW k \in 1..n PROVE t[k] = z[k]
    <3>1. k + 1 = 1 + k
      OBVIOUS
    <3>2. QED
      BY <1>1, <2>3, <2>4, <3>1
  <2>6. QED
    BY <1>1, <2>2, <2>3, <2>4, <2>5, SeqEqual
<1>5. CASE compression = "None"
  <2>1. z = Words!Uncompressed(e)
    BY <1>1, <1>5 DEF Words!Compressed
  <2>2. Words!UncompressEventBuffer(record) = Tail(record)
    BY <1>5 DEF Words!UncompressEventBuffer
  <2>3. n + 1 - 1 = u
    BY <1>1, <2>1
  <2>4. ~ Words!Overrun(record)
    <3>1. Len(record) - 1 = u
      BY <2>3
    <3>2. record[1] \div 4 = u
      BY <1>3
    <3>3. QED
      BY <1>1, <3>1, <3>2 DEF Words!Overrun
  <2>5. QED
    BY <1>4, <2>1, <2>2, <2>4
<1>6. CASE compression # "None"
  <2>1. (Len(record) - 1) * 4 + (IF r = 0 THEN 0 ELSE r - 4) = c
    <3>1. 4 * Words!BytesToWords(c) + (IF c % 4 = 0 THEN 0 ELSE (c % 4) - 4) = c
      BY WordCount
    <3>2. (Len(record) - 1) * 4 = 4 * n
      OBVIOUS
    <3>3. QED
      BY <1>1, <1>2, <3>1, <3>2
  <2>2. Words!UncompressEventBuffer(record) = Words!Decompressed(z, c, u)
    <3>1. record[1] % 4 = r /\ record[1] \div 4 = u
      BY <1>3
    <3>2. Words!UncompressEventBuffer(record)
            = Words!Decompressed(Tail(record),
                                 (Len(record) - 1) * 4 + (IF r = 0 THEN 0 ELSE r - 4), u)
      BY <1>6, <3>1 DEF Words!UncompressEventBuffer
    <3>3. QED
      BY <1>4, <2>1, <3>2
  <2>3. Words!Decompressed(z, c, u) =
          Words!Uncompressed(CHOOSE d \in Words!Events : z = Words!Compressed(d))
    BY <1>1 DEF Words!Decompressed
  <2>4. (CHOOSE d \in Words!Events : z = Words!Compressed(d)) = e
    <3>1. PICK d : d = CHOOSE x \in Words!Events : z = Words!Compressed(x)
      OBVIOUS
    <3>2. d \in Words!Events /\ z = Words!Compressed(d)
      BY <1>1, <3>1
    <3>3. d = e
      BY <1>1, <1>6, <3>2, CompressedTellsApart
    <3>4. QED
      BY <3>1, <3>3
  <2>5. ~ Words!Overrun(record)
    BY <1>6 DEF Words!Overrun
  <2>6. QED
    BY <2>2, <2>3, <2>4, <2>5
<1>7. QED
  BY <1>5, <1>6

\* The identifier is put together again from the words of the header.
LEMMA IdentifierRead ==
  ASSUME PDSParameters, NEW e \in Words!Events
  PROVE  [run |-> Words!EventHeader(e)[2], lumi |-> Words!EventHeader(e)[3],
          event |-> Words!EventHeader(e)[4] * Word + Words!EventHeader(e)[5]] = Words!EventID(e)
<1>1. PICK w \in Nat \ {0} : w = Word
  BY DEF PDSParameters
<1>2. PICK v \in Nat : v = w - 1 + e
  BY <1>1 DEF Words!Events
<1>3. (v \div w) * w + (v % w) = v
  OBVIOUS
<1>4. Words!EventID(e) = [run |-> 1, lumi |-> e + 1, event |-> v]
  BY <1>1, <1>2 DEF Words!EventID
<1>5. Words!EventHeader(e) = <<0, 1, e + 1, v \div w, v % w>>
  BY <1>1, <1>4 DEF Words!EventHeader
<1>6. QED
  BY <1>1, <1>3, <1>4, <1>5

\* Words that the stream finds in the file.
LEMMA WordsFound ==
  ASSUME PDSParameters, SizesGiven, FileIsBegun, NEW i \in Nat, NEW n \in Nat
  PROVE  /\ Words!Words(i, n) \in Seq(Int) /\ Len(Words!Words(i, n)) = n
         /\ \A k \in 1..n : i + k <= Len(file) => Words!Words(i, n)[k] = All[i + k]
<1>1. PICK l \in Nat, f \in Seq(Int) : f = file /\ l = Len(f)
  BY DEF FileIsBegun
<1>2. Words!Words(i, n) = [k \in 1..n |-> IF i + k <= l THEN f[i + k] ELSE 0]
  BY <1>1 DEF Words!Words
<1>3. ASSUME NEW k \in 1..n, i + k <= l PROVE i + k \in 1..l /\ f[i + k] \in Int
  <2>1. i + k \in 1..l
    BY <1>3
  <2>2. QED
    BY <1>1, <2>1
<1>4. \A k \in 1..n : (IF i + k <= l THEN f[i + k] ELSE 0) \in Int
  <2>1. ASSUME NEW k \in 1..n PROVE (IF i + k <= l THEN f[i + k] ELSE 0) \in Int
    <3>1. CASE i + k <= l
      BY <1>3, <3>1
    <3>2. CASE ~ (i + k <= l)
      BY <3>2
    <3>3. QED
      BY <3>1, <3>2
  <2>2. QED
    BY <2>1
<1>5. ASSUME NEW k \in 1..n, i + k <= l PROVE f[i + k] = All[i + k]
  <2>1. i + k \in 1..l
    BY <1>5
  <2>2. QED
    BY <1>1, <2>1 DEF FileIsBegun
<1>6. ASSUME NEW k \in 1..n, i + k <= Len(file) PROVE Words!Words(i, n)[k] = All[i + k]
  BY <1>1, <1>2, <1>5, <1>6
<1>7. QED
  BY <1>2, <1>4, <1>6

\* The reader at the beginning of an event that is whole.
EventIsRead(e, header, buffer) ==
  /\ header[6] \in Nat /\ EndOf(e) + 6 + header[6] + 1 = EndOf(e + 1)
  /\ Len(buffer) = header[6] + 1 /\ Words!Last(buffer) = header[6]
  /\ [run |-> header[2], lumi |-> header[3], event |-> header[4] * Word + header[5]] =
       Words!EventID(e)
  /\ Words!UncompressEventBuffer(Words!Front(buffer)) = Words!Uncompressed(e)
  /\ ~ Words!Overrun(Words!Front(buffer))

LEMMA EventFound ==
  ASSUME PDSParameters, SizesGiven, FileIsBegun, NEW e \in Words!Events, pos = EndOf(e),
         pos + 6 <= Len(file)
  PROVE  /\ Words!Words(pos, 6)[6] \in Nat /\ file[pos + 6] = Words!Words(pos, 6)[6]
         /\ pos \in Nat /\ pos + 6 + Words!Words(pos, 6)[6] + 1 = EndOf(e + 1)
<1>1. PICK n \in Nat, second \in Int :
        /\ EndOf(e) \in Nat /\ EndOf(e + 1) = EndOf(e) + n + 8 /\ All[EndOf(e) + 6] = n + 1
  BY EventWords
<1>2. PICK a \in Nat : a = pos /\ EndOf(e + 1) = a + n + 8 /\ All[a + 6] = n + 1
  BY <1>1
<1>3. Words!Words(a, 6)[6] = n + 1
  <2>1. 6 \in 1..6 /\ 6 \in Nat /\ a + 6 <= Len(file)
    BY <1>2
  <2>2. Words!Words(a, 6)[6] = All[a + 6]
    BY <1>2, <2>1, WordsFound
  <2>3. QED
    BY <1>2, <2>2
<1>4. file[a + 6] = n + 1
  <2>1. PICK l \in Nat : l = Len(file)
    BY DEF FileIsBegun
  <2>2. a + 6 \in 1..l
    BY <1>2, <2>1
  <2>3. QED
    BY <1>2, <2>1, <2>2 DEF FileIsBegun
<1>5. n + 1 \in Nat /\ a + 6 + (n + 1) + 1 = a + n + 8
  BY <1>1, <1>2
<1>6. QED
  BY <1>2, <1>3, <1>4, <1>5

LEMMA EventRead ==
  ASSUME PDSParameters, SizesGiven, FileIsBegun, NEW e \in Words!Events, pos = EndOf(e),
         EndOf(e + 1) <= Len(file)
  PROVE  pos + 8 <= Len(file) /\
         EventIsRead(e, Words!Words(pos, 6), Words!Words(pos + 6, Words!Words(pos, 6)[6] + 1))
<1>1. PICK n \in Nat, second \in Int, z \in Seq(Int) :
        /\ z = Words!Compressed(e) /\ n = Len(z)
        /\ second = 4 * Len(Words!Uncompressed(e)) + (Words!CompressedSize(e) % 4)
        /\ EndOf(e) \in Nat /\ EndOf(e + 1) = EndOf(e) + n + 8
        /\ \A i \in 1..5 : All[EndOf(e) + i] = Words!EventHeader(e)[i]
        /\ All[EndOf(e) + 6] = n + 1 /\ All[EndOf(e) + 7] = second
        /\ \A k \in 1..n : All[EndOf(e) + 7 + k] = z[k]
        /\ All[EndOf(e) + n + 8] = n + 1
  BY EventWords
<1>2. PICK a \in Nat, l \in Nat, header \in Seq(Int), buffer \in Seq(Int) :
        /\ a = pos /\ l = Len(file) /\ a = EndOf(e)
        /\ header = Words!Words(a, 6) /\ buffer = Words!Words(a + 6, n + 2)
  <2>1. pos \in Nat /\ Len(file) \in Nat /\ pos + 6 \in Nat /\ n + 2 \in Nat /\ 6 \in Nat
    <3>1. pos \in Nat /\ Len(file) \in Nat
      BY <1>1 DEF FileIsBegun
    <3>2. n \in Nat
      BY <1>1
    <3>3. QED
      BY <3>1, <3>2
  <2>2. Words!Words(pos, 6) \in Seq(Int) /\ Words!Words(pos + 6, n + 2) \in Seq(Int)
    BY <2>1, WordsFound
  <2>3. QED
    BY <2>1, <2>2
<1>3. n \in Nat /\ a + n + 8 <= l
  BY <1>1, <1>2
<1>4. header \in Seq(Int) /\ Len(header) = 6 /\ \A k \in 1..6 : header[k] = All[a + k]
  <2>1. ASSUME NEW k \in 1..6 PROVE a + k <= l
    <3>1. ASSUME NEW x \in Nat, a + x + 8 <= l PROVE a + k <= l
      BY <3>1
    <3>2. QED
      BY <1>3, <3>1
  <2>2. QED
    BY <1>2, <2>1, WordsFound
<1>5. buffer \in Seq(Int) /\ Len(buffer) = n + 2 /\
        \A k \in 1..(n + 2) : buffer[k] = All[a + 6 + k]
  <2>1. ASSUME NEW k \in 1..(n + 2) PROVE a + 6 + k <= l
    <3>1. ASSUME NEW x \in Nat, NEW i \in 1..(x + 2), a + x + 8 <= l PROVE a + 6 + i <= l
      BY <3>1
    <3>2. QED
      BY <1>3, <3>1
  <2>2. a + 6 \in Nat /\ n + 2 \in Nat
    OBVIOUS
  <2>3. QED
    BY <1>2, <2>1, <2>2, WordsFound
<1>6. \A i \in 1..5 : header[i] = Words!EventHeader(e)[i]
  <2>1. \A i \in 1..5 : i \in 1..6
    OBVIOUS
  <2>2. QED
    BY ZenonT(30), <1>1, <1>2, <1>4, <2>1
<1>7. header[6] = n + 1
  <2>1. 6 \in 1..6
    OBVIOUS
  <2>2. QED
    BY <1>1, <1>2, <1>4, <2>1
<1>8. buffer[1] = second /\ buffer[n + 2] = n + 1 /\ \A k \in 1..n : buffer[1 + k] = z[k]
  <2>1. 1 \in 1..(n + 2) /\ n + 2 \in 1..(n + 2) /\ a + 6 + 1 = a + 7 /\
          a + 6 + (n + 2) = a + n + 8
    OBVIOUS
  <2>2. ASSUME NEW k \in 1..n PROVE buffer[1 + k] = z[k]
    <3>1. 1 + k \in 1..(n + 2) /\ a + 6 + (1 + k) = a + 7 + k
      OBVIOUS
    <3>2. buffer[1 + k] = All[a + 7 + k]
      BY <1>5, <3>1
    <3>3. QED
      BY <1>1, <1>2, <3>2
  <2>3. buffer[1] = All[a + 7] /\ buffer[n + 2] = All[a + n + 8]
    BY <1>5, <2>1
  <2>4. QED
    BY <1>1, <1>2, <2>2, <2>3
<1>9. PICK record : /\ record = Words!Front(buffer)
                    /\ record \in Seq(Int) /\ Len(record) = n + 1
                    /\ record[1] = second /\ \A k \in 1..n : record[1 + k] = z[k]
  <2>1. Words!Front(buffer) = SubSeq(buffer, 1, n + 1)
    <3>1. Len(buffer) - 1 = n + 1
      BY <1>5
    <3>2. QED
      BY <3>1 DEF Words!Front
  <2>2. PICK record : record = SubSeq(buffer, 1, n + 1)
    OBVIOUS
  <2>3. \A i \in 1..(n + 1) : buffer[i] \in Int
    <3>1. \A i \in 1..(n + 1) : i \in 1..Len(buffer)
      BY <1>5
    <3>2. QED
      BY <1>5, <3>1
  <2>4. 1 \in Int /\ n + 1 \in Int /\ 1 <= n + 1 /\ n + 1 - 1 + 1 = n + 1
    OBVIOUS
  <2>5. /\ record \in Seq(Int) /\ Len(record) = n + 1
        /\ \A i \in 1..(n + 1) : record[i] = buffer[1 + i - 1]
    BY <2>2, <2>3, <2>4, SubSeqProperties
  <2>6. ASSUME NEW i \in 1..(n + 1) PROVE record[i] = buffer[i]
    <3>1. 1 + i - 1 = i
      OBVIOUS
    <3>2. QED
      BY <2>5, <3>1
  <2>7. 1 \in 1..(n + 1) /\ \A k \in 1..n : 1 + k \in 1..(n + 1)
    OBVIOUS
  <2>8. QED
    BY ZenonT(30), <1>8, <2>1, <2>2, <2>5, <2>6, <2>7
<1>10. Words!UncompressEventBuffer(record) = Words!Uncompressed(e) /\ ~ Words!Overrun(record)
  BY ZenonT(30), <1>1, <1>9, UncompressedAgain
<1>11. [run |-> header[2], lumi |-> header[3], event |-> header[4] * Word + header[5]] =
         Words!EventID(e)
  <2>1. /\ header[2] = Words!EventHeader(e)[2] /\ header[3] = Words!EventHeader(e)[3]
        /\ header[4] = Words!EventHeader(e)[4] /\ header[5] = Words!EventHeader(e)[5]
    BY <1>6
  <2>2. QED
    BY <2>1, IdentifierRead
<1>12. /\ header[6] \in Nat /\ EndOf(e) + 6 + header[6] + 1 = EndOf(e + 1)
       /\ header[6] + 1 = n + 2
  <2>1. n + 1 \in Nat /\ a + 6 + (n + 1) + 1 = a + n + 8 /\ n + 1 + 1 = n + 2
    BY <1>3
  <2>2. QED
    BY <1>1, <1>2, <1>7, <2>1
<1>13. Words!Last(buffer) = header[6]
  BY <1>5, <1>7, <1>8 DEF Words!Last
<1>14. EventIsRead(e, header, buffer)
  BY <1>5, <1>9, <1>10, <1>11, <1>12, <1>13 DEF EventIsRead
<1>15. header = Words!Words(pos, 6) /\ buffer = Words!Words(pos + 6, header[6] + 1)
  BY <1>2, <1>12
<1>16. pos + 8 <= Len(file)
  BY SMTT(30), <1>2, <1>3
<1>17. QED
  BY <1>14, <1>15, <1>16

\* The file grows by one event after the other, or is cut where the outputer died.
Writing ==
  /\ written \in 0..PDSEvents /\ firstTime_ = (written = 0) /\ FileIsBegun
  /\ writer = "writing" => Len(file) = IF written = 0 THEN 0 ELSE EndOf(written)
  /\ writer # "writing" => Len(Words!FileHeader) <= Len(file)

\* The reader's place in the file is that of its event index as long as its stream is
\* good; it fails only behind the last whole event, in a file that breaks off there.
Reading ==
  /\ presentEventIndex_ \in Nat
  /\ at = "open" => rdstate = "good" /\ presentEventIndex_ = 0 /\ given = Words!None
                    /\ objects \in [Words!Products -> Seq(Int)]
  /\ at # "open" => writer # "writing" /\ productInfo = ProductsNamed
  /\ at \in {"next", "read"} /\ rdstate = "good" =>
       presentEventIndex_ <= Words!Whole /\ pos = EndOf(presentEventIndex_)
       /\ objects \in [Words!Products -> Seq(Int)]
  /\ at \in {"next", "read"} /\ rdstate # "good" =>
       presentEventIndex_ >= Words!Whole /\ ~ asserts /\ Words!CutInRecord
  /\ at = "read" => wanted \in Nat /\ wanted >= presentEventIndex_
  /\ given # Words!None => given \in Nat

PDSInv == SizesGiven /\ Writing /\ Reading /\ Words!EventsAsWritten /\ Words!EndsWithTheFile

LEMMA SameFile ==
  ASSUME Words!parameters' = Words!parameters
  PROVE  /\ All' = All /\ (SizesGiven' <=> SizesGiven) /\ \A n : EndOf(n)' = EndOf(n)
         /\ \A e, p : Words!Blob(e, p)' = Words!Blob(e, p)
         /\ file' = file => Words!Whole' = Words!Whole /\
              (Words!CutInRecord' <=> Words!CutInRecord)
                            /\ (FileIsBegun' <=> FileIsBegun)
<1>1. /\ asserts' = asserts /\ compression' = compression /\ size' = size /\ cBytes' = cBytes
  BY DEF Words!parameters
<1>2. (SizesGiven' <=> SizesGiven) /\ \A e, p : Words!Blob(e, p)' = Words!Blob(e, p)
  BY <1>1 DEF SizesGiven, Words!Blob
<1>3. \A e : Words!Record(e)' = Words!Record(e)
  <2>1. \A e : Words!Uncompressed(e)' = Words!Uncompressed(e)
    BY <1>2 DEF Words!Uncompressed
  <2>2. \A e : Words!Compressed(e)' = Words!Compressed(e) /\
          Words!CompressedSize(e)' = Words!CompressedSize(e)
    BY <1>1, <2>1 DEF Words!Compressed, Words!CompressedSize
  <2>3. QED
    BY <2>1, <2>2 DEF Words!Record
<1>4. \A n : Words!Records(n)' = Words!Records(n)
  BY <1>3 DEF Words!Records
<1>5. All' = All /\ \A n : EndOf(n)' = EndOf(n)
  BY <1>4 DEF All, EndOf
<1>6. \A e : Words!EndOfRecord(e)' = Words!EndOfRecord(e)
  BY <1>4 DEF Words!EndOfRecord
<1>7. ASSUME file' = file
      PROVE  /\ Words!Whole' = Words!Whole /\ (Words!CutInRecord' <=> Words!CutInRecord) /\
                  (FileIsBegun' <=> FileIsBegun)
  <2>1. Words!Whole' = Words!Whole
    BY <1>6, <1>7 DEF Words!Whole
  <2>2. Words!CutInRecord' <=> Words!CutInRecord
    BY <1>6, <1>7, <2>1 DEF Words!CutInRecord
  <2>3. FileIsBegun' <=> FileIsBegun
    BY <1>5, <1>7 DEF FileIsBegun
  <2>4. QED
    BY <2>1, <2>2, <2>3
<1>8. QED
  BY <1>2, <1>5, <1>7

LEMMA PDSInitially == ASSUME PDSParameters, Words!Init PROVE PDSInv
<1>1. SizesGiven
  <2>1. size \in [Words!Events -> [Words!Products -> Nat]]
    <3>1. [Words!Products -> PDSSizes] \subseteq [Words!Products -> Nat]
      BY DEF PDSParameters
    <3>2. size \in [Words!Events -> [Words!Products -> PDSSizes]]
      BY DEF Words!Init
    <3>3. QED
      BY <3>1, <3>2
  <2>2. cBytes \in Nat /\ (compression # "None" => cBytes # 0)
    BY DEF Words!Init, PDSParameters
  <2>3. QED
    BY <2>1, <2>2 DEF SizesGiven
<1>2. Writing
  <2>1. file = <<>> /\ Len(All) \in Nat /\ PDSEvents \in Nat
    BY <1>1, Layout DEF Words!Init, PDSParameters
  <2>2. FileIsBegun
    BY <2>1 DEF FileIsBegun
  <2>3. writer = "writing" /\ written = 0 /\ firstTime_ = TRUE
    BY DEF Words!Init
  <2>4. Len(file) = 0 /\ written \in 0..PDSEvents
    BY <2>1, <2>3
  <2>5. QED
    BY <2>2, <2>3, <2>4 DEF Writing
<1>3. Reading
  <2>1. \A p \in Words!Products : <<>> \in Seq(Int)
    OBVIOUS
  <2>2. objects \in [Words!Products -> Seq(Int)]
    BY <2>1 DEF Words!Init
  <2>3. QED
    BY <2>2 DEF Words!Init, Reading
<1>4. Words!EventsAsWritten /\ Words!EndsWithTheFile
  BY DEF Words!Init, Words!EventsAsWritten, Words!EndsWithTheFile
<1>5. QED
  BY <1>1, <1>2, <1>3, <1>4 DEF PDSInv

\* The reader has not begun while the outputer writes.
LEMMA WriterAlone ==
  ASSUME PDSInv, writer = "writing", UNCHANGED <<Words!parameters, Words!reader>>, Writing'
  PROVE  PDSInv'
<1>1. at = "open" /\ SizesGiven'
  BY SameFile DEF PDSInv, Reading
<1>2. /\ at' = at /\ rdstate' = rdstate /\ presentEventIndex_' = presentEventIndex_
      /\ given' = given /\ objects' = objects
  BY DEF Words!reader, Words!stream, Words!lane
<1>3. Reading'
  BY <1>1, <1>2 DEF PDSInv, Reading
<1>4. Words!EventsAsWritten' /\ Words!EndsWithTheFile'
  BY <1>1, <1>2 DEF PDSInv, Reading, Words!EventsAsWritten, Words!EndsWithTheFile
<1>5. QED
  BY <1>1, <1>3, <1>4 DEF PDSInv

\* What goes on as another sequence does.
LEMMA InOrBehind ==
  ASSUME NEW a \in Nat, NEW b \in Nat, NEW i \in 1..(a + b)
  PROVE  i \in 1..a \/ \E j \in 1..b : i = a + j
<1>1. CASE i <= a
  BY <1>1
<1>2. CASE ~ (i <= a)
  <2>1. i - a \in 1..b /\ i = a + (i - a)
    BY <1>2
  <2>2. QED
    BY <2>1
<1>3. QED
  BY <1>1, <1>2

Begins(x, whole) == \A i \in 1..Len(x) : x[i] = whole[i]
GoesOnWith(x, y, whole) == \A i \in 1..Len(y) : whole[Len(x) + i] = y[i]

LEMMA GoesOn ==
  ASSUME NEW x \in Seq(Int), NEW y \in Seq(Int), NEW whole, Begins(x, whole),
         GoesOnWith(x, y, whole)
  PROVE  x \o y \in Seq(Int) /\ Len(x \o y) = Len(x) + Len(y) /\ Begins(x \o y, whole)
<1>1. /\ x \o y \in Seq(Int) /\ Len(x) \in Nat /\ Len(y) \in Nat
      /\ Len(x \o y) = Len(x) + Len(y)
      /\ \A i \in 1..Len(x) : (x \o y)[i] = x[i]
      /\ \A i \in 1..Len(y) : (x \o y)[Len(x) + i] = y[i]
  BY WordsConcatenated
<1>2. ASSUME NEW i \in 1..(Len(x) + Len(y)) PROVE (x \o y)[i] = whole[i]
  <2>1. CASE i \in 1..Len(x)
    BY <1>1, <2>1 DEF Begins
  <2>2. CASE \E j \in 1..Len(y) : i = Len(x) + j
    BY <1>1, <2>2 DEF GoesOnWith
  <2>3. QED
    BY <1>1, <2>1, <2>2, InOrBehind
<1>3. QED
  BY <1>1, <1>2 DEF Begins

\* The record of one event more.
LEMMA OneMore ==
  ASSUME PDSParameters, SizesGiven, NEW e \in Words!Events, NEW before \in Seq(Int),
         Len(before) = EndOf(e), \A i \in 1..Len(before) : before[i] = All[i]
  PROVE  LET after == before \o Words!EventHeader(e) \o Words!Record(e) IN
         /\ after \in Seq(Int) /\ Len(after) = EndOf(e + 1) /\ Len(after) <= Len(All)
         /\ \A i \in 1..Len(after) : after[i] = All[i]
<1>1. PICK h \in Seq(Int), r \in Seq(Int), a \in Nat, m \in Nat :
        /\ h = Words!EventHeader(e) /\ r = Words!Record(e) /\ a = Len(before) /\ m = Len(r)
        /\ Len(h) = 5
  BY PieceFacts
<1>2. /\ EndOf(e + 1) = a + 5 + m /\ EndOf(e + 1) <= Len(All)
      /\ \A i \in 1..5 : All[a + i] = h[i]
      /\ \A i \in 1..m : All[a + 5 + i] = r[i]
  <2>1. EventStands(e) /\ EndOf(e) = a
    BY <1>1, Layout
  <2>2. QED
    BY <1>1, <2>1 DEF EventStands
<1>3. PICK x \in Seq(Int) : x = before \o h /\ Len(x) = a + 5 /\ Begins(x, All)
  <2>1. Begins(before, All) /\ GoesOnWith(before, h, All)
    BY <1>1, <1>2 DEF Begins, GoesOnWith
  <2>2. /\ before \o h \in Seq(Int) /\ Len(before \o h) = Len(before) + Len(h)
        /\ Begins(before \o h, All)
    BY <1>1, <2>1, GoesOn
  <2>3. QED
    BY <1>1, <2>2
<1>4. x \o r \in Seq(Int) /\ Len(x \o r) = a + 5 + m /\ Begins(x \o r, All)
  <2>1. GoesOnWith(x, r, All)
    BY <1>1, <1>2, <1>3 DEF GoesOnWith
  <2>2. /\ x \o r \in Seq(Int) /\ Len(x \o r) = Len(x) + Len(r) /\ Begins(x \o r, All)
    BY <1>1, <1>3, <2>1, GoesOn
  <2>3. QED
    BY <1>1, <1>3, <2>2
<1>5. before \o Words!EventHeader(e) \o Words!Record(e) = x \o r
  BY <1>1, <1>3
<1>6. QED
  BY <1>2, <1>4, <1>5 DEF Begins

LEMMA OutputKeeps == ASSUME PDSParameters, PDSInv, Words!Output PROVE PDSInv'
<1>1. /\ writer = "writing" /\ writer' = writer /\ UNCHANGED <<Words!parameters, Words!reader>>
      /\ firstTime_' = FALSE /\ written' = written + 1 /\ SizesGiven /\ Writing
      /\ file' = (IF firstTime_ THEN Words!FileHeader ELSE file)
                    \o Words!EventHeader(written) \o Words!Record(written)
  BY DEF Words!Output, PDSInv
<1>2. PICK e \in Words!Events : e = written /\ e \in Nat /\ e + 1 \in 0..PDSEvents
  <2>1. written \in 0..PDSEvents /\ written < PDSEvents /\ PDSEvents \in Nat
    BY <1>1 DEF Words!Output, Writing, PDSParameters
  <2>2. QED
    BY <2>1 DEF Words!Events
<1>3. PICK before \in Seq(Int) :
        /\ before = IF firstTime_ THEN Words!FileHeader ELSE file
        /\ Len(before) = EndOf(e) /\ \A i \in 1..Len(before) : before[i] = All[i]
  <2>1. CASE e = 0
    <3>1. firstTime_ = TRUE
      BY <1>1, <1>2, <2>1 DEF Writing
    <3>2. EndOf(0) = Len(Words!FileHeader) /\ Words!FileHeader \in Seq(Int)
          /\ \A i \in 1..Len(Words!FileHeader) : Words!FileHeader[i] = All[i]
      BY <1>1, Layout, FileHeaderFacts
    <3>3. QED
      BY <2>1, <3>1, <3>2
  <2>2. CASE e # 0
    <3>1. firstTime_ = FALSE /\ Len(file) = EndOf(e) /\ FileIsBegun
      BY <1>1, <1>2, <2>2 DEF Writing
    <3>2. QED
      BY <3>1 DEF FileIsBegun
  <2>3. QED
    BY <2>1, <2>2
<1>4. /\ file' \in Seq(Int) /\ Len(file') = EndOf(e + 1) /\ Len(file') <= Len(All)
      /\ \A i \in 1..Len(file') : file'[i] = All[i]
  <2>1. file' = before \o Words!EventHeader(e) \o Words!Record(e)
    BY <1>1, <1>2, <1>3
  <2>2. PICK after : after = before \o Words!EventHeader(e) \o Words!Record(e)
    OBVIOUS
  <2>3. /\ after \in Seq(Int) /\ Len(after) = EndOf(e + 1) /\ Len(after) <= Len(All)
        /\ \A i \in 1..Len(after) : after[i] = All[i]
    BY <1>1, <1>2, <1>3, <2>2, OneMore
  <2>4. QED
    BY <2>1, <2>2, <2>3
<1>5. Writing'
  <2>1. All' = All /\ \A n : EndOf(n)' = EndOf(n)
    BY <1>1, SameFile
  <2>2. FileIsBegun'
    BY <1>4, <2>1 DEF FileIsBegun
  <2>3. Len(file') = EndOf(written)'
    <3>1. EndOf(e + 1)' = EndOf(e + 1)
      BY <2>1
    <3>2. EndOf(written)' = EndOf(e + 1)'
      BY <1>1, <1>2 DEF EndOf
    <3>3. QED
      BY <1>4, <3>1, <3>2
  <2>4. written' \in 0..PDSEvents /\ written' # 0
    BY <1>1, <1>2
  <2>5. QED
    BY <1>1, <2>2, <2>3, <2>4 DEF Writing
<1>6. QED
  BY <1>1, <1>5, WriterAlone DEF PDSInv

LEMMA CloseKeeps == ASSUME PDSParameters, PDSInv, Words!Close PROVE PDSInv'
<1>1. /\ writer = "writing" /\ writer' = "done" /\ UNCHANGED <<Words!parameters, Words!reader>>
      /\ file' = file /\ firstTime_' = firstTime_ /\ written' = written /\ written = PDSEvents
      /\ SizesGiven /\ Writing
  BY DEF Words!Close, PDSInv
<1>2. Len(Words!FileHeader) <= Len(file)
  <2>1. PDSEvents \in Nat /\ PDSEvents # 0 /\ PDSEvents \in 0..PDSEvents /\ 0 \in 0..PDSEvents
    BY DEF PDSParameters
  <2>2. Len(file) = EndOf(PDSEvents)
    BY <1>1, <2>1 DEF Writing
  <2>3. EndOf(0) <= EndOf(PDSEvents)
    BY <1>1, <2>1, EndsGrow
  <2>4. QED
    BY <1>1, <2>2, <2>3, Layout
<1>3. Writing'
  <2>1. FileIsBegun'
    BY <1>1, SameFile DEF Writing
  <2>2. QED
    BY <1>1, <1>2, <2>1 DEF Writing
<1>4. QED
  BY <1>1, <1>3, WriterAlone DEF PDSInv

LEMMA DieKeeps == ASSUME PDSParameters, PDSInv, Words!Die PROVE PDSInv'
<1>1. /\ writer = "writing" /\ writer' = "dead" /\ UNCHANGED <<Words!parameters, Words!reader>>
      /\ firstTime_' = firstTime_ /\ written' = written /\ SizesGiven /\ Writing
  BY DEF Words!Die, PDSInv
<1>2. PICK n \in Len(Words!FileHeader)..Len(file) : file' = SubSeq(file, 1, n)
  BY DEF Words!Die
<1>3. PICK l \in Nat, m \in Nat, h \in Nat :
        l = Len(file) /\ m = Len(All) /\ h = Len(Words!FileHeader) /\ file \in Seq(Int) /\
          l <= m
        /\ \A i \in 1..l : file[i] = All[i]
  BY <1>1, Layout DEF Writing, FileIsBegun
<1>4. n \in Nat /\ h <= n /\ n <= l
  BY <1>2, <1>3
<1>5. file' \in Seq(Int) /\ Len(file') = n /\ \A i \in 1..n : file'[i] = All[i]
  <2>1. \A i \in 1..n : i \in 1..l /\ file[i] \in Int
    BY <1>3, <1>4
  <2>2. 1 \in Int /\ n \in Int /\ n - 1 + 1 = n
    BY <1>4
  <2>3. PICK f : f = SubSeq(file, 1, n)
    OBVIOUS
  <2>4. /\ f \in Seq(Int) /\ Len(f) = IF 1 <= n THEN n - 1 + 1 ELSE 0
        /\ \A i \in 1..(n - 1 + 1) : f[i] = file[1 + i - 1]
    BY <2>1, <2>2, <2>3, SubSeqProperties
  <2>5. Len(f) = n
    BY <1>4, <2>4
  <2>6. ASSUME NEW i \in 1..n PROVE f[i] = All[i]
    <3>1. 1 + i - 1 = i /\ i \in 1..(n - 1 + 1)
      BY <1>4
    <3>2. QED
      BY <1>3, <2>1, <2>4, <3>1
  <2>7. QED
    BY <1>2, <2>3, <2>4, <2>5, <2>6
<1>6. Writing'
  <2>1. All' = All
    BY <1>1, SameFile
  <2>2. FileIsBegun'
    BY <1>3, <1>4, <1>5, <2>1 DEF FileIsBegun
  <2>3. QED
    BY <1>1, <1>3, <1>4, <1>5, <2>2 DEF Writing
<1>7. QED
  BY <1>1, <1>6, WriterAlone DEF PDSInv

\* What the lane was given last, and how the reader stopped.
GivenRight ==
  given # Words!None => /\ given \in Nat
                        /\ given < Words!Whole => /\ eventID_ = Words!EventID(given)
                                                  /\ objects = [p \in Words!Products |->
                                                                 Words!Blob(given, p)]
                        /\ given >= Words!Whole => ~ asserts /\ Words!CutInRecord

LEMMA ReaderFacts ==
  ASSUME PDSParameters, PDSInv, at # "open"
  PROVE  /\ SizesGiven /\ FileIsBegun /\ Len(file) \in Nat /\ Len(Words!FileHeader) <= Len(file)
         /\ Words!Whole \in 0..PDSEvents /\ Words!Whole \in Nat /\ presentEventIndex_ \in Nat
         /\ writer # "writing" /\ productInfo = ProductsNamed /\ GivenRight
<1>1. /\ SizesGiven /\ FileIsBegun /\ writer # "writing" /\ Len(Words!FileHeader) <= Len(file)
      /\ productInfo = ProductsNamed /\ presentEventIndex_ \in Nat
  BY DEF PDSInv, Reading, Writing
<1>2. Len(file) \in Nat
  BY <1>1 DEF FileIsBegun
<1>3. Words!Whole \in 0..PDSEvents
  BY <1>1, <1>2, WholeFacts
<1>4. GivenRight
  BY DEF PDSInv, Reading, Words!EventsAsWritten, GivenRight
<1>5. QED
  BY <1>1, <1>2, <1>3, <1>4

\* A step of the reader leaves the file as it is.
LEMMA ReaderSteps ==
  ASSUME PDSInv, UNCHANGED <<Words!parameters, Words!outputer>>,
         Reading', GivenRight', Words!EndsWithTheFile', at' # "open"
  PROVE  PDSInv'
<1>1. /\ SizesGiven /\ Writing /\ Words!parameters' = Words!parameters /\ file' = file
      /\ firstTime_' = firstTime_
      /\ written' = written /\ writer' = writer
  BY DEF PDSInv, Words!outputer
<1>2. SizesGiven' /\ (FileIsBegun' <=> FileIsBegun)
  BY <1>1, SameFile
<1>3. EndOf(written)' = EndOf(written)
  <2>1. \A n : EndOf(n)' = EndOf(n)
    BY <1>1, SameFile
  <2>2. EndOf(written)' = Len(Words!FileHeader)' + Len(Words!Records(written))'
    BY DEF EndOf
  <2>3. PICK n : n = written
    OBVIOUS
  <2>4. EndOf(n)' = EndOf(n)
    BY <2>1
  <2>5. EndOf(written)' = EndOf(n)'
    BY <1>1, <2>3 DEF EndOf
  <2>6. QED
    BY <2>3, <2>4, <2>5
<1>4. Writing'
  BY <1>1, <1>2, <1>3 DEF Writing
<1>5. Words!EventsAsWritten'
  BY DEF GivenRight, Words!EventsAsWritten, Reading, ProductsNamed
<1>6. QED
  BY <1>2, <1>4, <1>5 DEF PDSInv

LEMMA LaneAsBefore ==
  ASSUME GivenRight, UNCHANGED <<Words!parameters, Words!outputer,
         Words!lane>> PROVE GivenRight'
<1>1. /\ Words!Whole' = Words!Whole /\ (Words!CutInRecord' <=> Words!CutInRecord) /\
           asserts' = asserts
      /\ \A e, p : Words!Blob(e, p)' = Words!Blob(e, p)
  BY SameFile DEF Words!parameters, Words!outputer
<1>2. given' = given /\ eventID_' = eventID_ /\ objects' = objects
  BY DEF Words!lane
<1>3. \A p : Words!Blob(given, p)' = Words!Blob(given, p)
  <2>1. PICK n : n = given
    OBVIOUS
  <2>2. \A p : Words!Blob(n, p)' = Words!Blob(n, p)
    BY <1>1
  <2>3. \A p : Words!Blob(given, p)' = Words!Blob(n, p)'
    BY <1>2, <2>1 DEF Words!Blob
  <2>4. QED
    BY <2>1, <2>2, <2>3
<1>4. QED
  BY <1>1, <1>2, <1>3 DEF GivenRight

\* Where the reader is as long as its stream is good: before an event that is whole, or
\* behind the last of these.
LEMMA AtItsPlace ==
  ASSUME PDSParameters, PDSInv, at \in {"next", "read"}, rdstate = "good"
  PROVE  /\ pos \in Nat /\ pos = EndOf(presentEventIndex_)
         /\ presentEventIndex_ <= Words!Whole
         /\ presentEventIndex_ < Words!Whole =>
              /\ presentEventIndex_ \in Words!Events
              /\ EndOf(presentEventIndex_ + 1) <= Len(file)
              /\ presentEventIndex_ + 1 <= Words!Whole
         /\ presentEventIndex_ = Words!Whole /\ Words!Left >= 6 =>
              /\ Words!CutInRecord
              /\ pos + 6 + file[pos + 6] + 1 > Len(file)
              /\ pos + 6 + Words!Words(pos, 6)[6] + 1 > Len(file)
<1>1. /\ SizesGiven /\ FileIsBegun /\ Len(file) \in Nat /\ Len(Words!FileHeader) <= Len(file)
      /\ Words!Whole \in 0..PDSEvents /\ presentEventIndex_ \in Nat /\ PDSEvents \in Nat
  BY ReaderFacts DEF PDSParameters
<1>2. presentEventIndex_ <= Words!Whole /\ pos = EndOf(presentEventIndex_)
  BY DEF PDSInv, Reading
<1>3. pos \in Nat
  BY <1>1, <1>2, Layout
<1>4. PICK w \in Nat, n \in Nat : w = Words!Whole /\ n = presentEventIndex_ /\ n <= w /\
             w \in 0..PDSEvents
  BY <1>1, <1>2
<1>5. ASSUME n < w
      PROVE  n \in Words!Events /\ EndOf(n + 1) <= Len(file) /\ n + 1 <= w
  <2>1. n \in Words!Events /\ n + 1 <= w
    BY <1>1, <1>4, <1>5 DEF Words!Events
  <2>2. QED
    BY <1>1, <1>4, <1>5, <2>1, WholeFacts
<1>6. ASSUME n = w, Words!Left >= 6
      PROVE  /\ Words!CutInRecord
             /\ pos + 6 + file[pos + 6] + 1 > Len(file)
             /\ pos + 6 + Words!Words(pos, 6)[6] + 1 > Len(file)
  <2>1. pos + 6 <= Len(file)
    BY <1>1, <1>3, <1>6 DEF Words!Left
  <2>2. n \in Words!Events
    <3>1. n # PDSEvents
      <4>1. SUFFICES ASSUME n = PDSEvents PROVE FALSE
        OBVIOUS
      <4>2. pos = Len(All) /\ Len(file) <= Len(All)
        BY <1>1, <1>2, <1>4, <4>1, Layout DEF FileIsBegun
      <4>3. QED
        BY <1>1, <1>3, <2>1, <4>2
    <3>2. QED
      BY <1>1, <1>4, <1>6, <3>1 DEF Words!Events
  <2>3. EndOf(n + 1) > Len(file)
    BY <1>1, <1>4, <1>6, <2>2, WholeFacts
  <2>4. /\ file[pos + 6] = Words!Words(pos, 6)[6]
        /\ pos + 6 + Words!Words(pos, 6)[6] + 1 = EndOf(n + 1)
    BY <1>1, <1>2, <1>4, <2>1, <2>2, EventFound
  <2>5. Words!CutInRecord
    <3>1. Words!EndOfRecord(w - 1) = EndOf(w)
      <4>1. w - 1 + 1 = w
        OBVIOUS
      <4>2. QED
        BY <4>1 DEF Words!EndOfRecord, EndOf
    <3>2. Words!EndOfRecord(Words!Whole - 1) = pos
      BY <1>2, <1>4, <1>6, <3>1
    <3>3. QED
      BY <1>1, <1>3, <2>1, <3>2 DEF Words!CutInRecord
  <2>6. QED
    BY <2>3, <2>4, <2>5
<1>7. QED
  BY <1>2, <1>3, <1>4, <1>5, <1>6

LEMMA OpenKeeps == ASSUME PDSParameters, PDSInv, Words!Open PROVE PDSInv'
<1>1. /\ at = "open" /\ at' = "next" /\ writer # "writing"
      /\ UNCHANGED <<Words!parameters, Words!outputer, Words!lane>>
      /\ productInfo' = Words!ReadFileHeader(file) /\ pos' = 4 + file[4] + 1
      /\ rdstate' = rdstate /\ presentEventIndex_' = presentEventIndex_
      /\ writer' = writer /\ file' = file /\ Words!parameters' = Words!parameters
      /\ given' = given /\ objects' = objects
  BY DEF Words!Open, Words!outputer, Words!lane
<1>2. /\ rdstate = "good" /\ presentEventIndex_ = 0 /\ given = Words!None
      /\ objects \in [Words!Products -> Seq(Int)] /\ SizesGiven /\ FileIsBegun
      /\ Len(Words!FileHeader) <= Len(file)
  BY <1>1 DEF PDSInv, Reading, Writing
<1>3. file[4] + 5 = Len(Words!FileHeader) /\ Words!ReadFileHeader(file) = ProductsNamed
  BY <1>2, HeaderRead
<1>4. pos' = EndOf(0) /\ Words!Whole \in Nat
  <2>1. Len(Words!FileHeader) \in Nat /\ EndOf(0) = Len(Words!FileHeader) /\ Len(file) \in Nat
    BY <1>2, Layout DEF FileIsBegun
  <2>2. Words!Whole \in 0..PDSEvents
    BY <1>2, <2>1, WholeFacts
  <2>3. file[4] \in Int
    <3>1. file \in Seq(Int)
      BY <1>2 DEF FileIsBegun
    <3>2. 4 \in 1..Len(file)
      <4>1. PICK n \in Nat : n = Len(Words!HeaderBuffer) /\ Len(Words!FileHeader) = 4 + n + 1
        BY FileHeaderFacts
      <4>2. QED
        BY <1>2, <2>1, <4>1
    <3>3. QED
      BY <3>1, <3>2
  <2>4. QED
    BY <1>1, <1>3, <2>1, <2>2, <2>3 DEF PDSParameters
<1>5. Words!Whole' = Words!Whole /\ EndOf(0)' = EndOf(0)
  BY <1>1, SameFile
<1>6. Reading'
  BY <1>1, <1>2, <1>3, <1>4, <1>5 DEF Reading
<1>7. GivenRight' /\ Words!EndsWithTheFile'
  BY <1>1, <1>2 DEF GivenRight, Words!EndsWithTheFile
<1>8. QED
  BY <1>1, <1>6, <1>7, ReaderSteps

LEMMA WordsNextIndexKeeps == ASSUME PDSParameters, PDSInv, Words!NextIndex PROVE PDSInv'
<1>1. /\ at = "next" /\ at' = "read"
      /\ UNCHANGED <<Words!parameters, Words!outputer, Words!stream, Words!lane>>
      /\ presentEventIndex_' = presentEventIndex_ /\ productInfo' = productInfo
      /\ rdstate' = rdstate /\ pos' = pos /\ writer' = writer /\ file' = file
      /\ asserts' = asserts
      /\ given' = given /\ objects' = objects
      /\ Words!parameters' = Words!parameters
      /\ wanted' \in {presentEventIndex_} \cup presentEventIndex_..MaxIndex
  BY DEF Words!NextIndex, Words!outputer, Words!lane, Words!stream, Words!parameters
<1>2. presentEventIndex_ \in Nat /\ GivenRight /\ MaxIndex \in Nat
  BY <1>1, ReaderFacts DEF PDSParameters
<1>3. wanted' \in Nat /\ wanted' >= presentEventIndex_
  BY <1>1, <1>2
<1>4. /\ Words!Whole' = Words!Whole /\ (Words!CutInRecord' <=> Words!CutInRecord)
      /\ EndOf(presentEventIndex_)' = EndOf(presentEventIndex_)
  <2>1. Words!Whole' = Words!Whole /\ (Words!CutInRecord' <=> Words!CutInRecord) /\
          \A n : EndOf(n)' = EndOf(n)
    BY <1>1, SameFile
  <2>2. PICK n : n = presentEventIndex_
    OBVIOUS
  <2>3. EndOf(presentEventIndex_)' = EndOf(n)'
    BY <1>1, <2>2 DEF EndOf
  <2>4. QED
    BY <2>1, <2>2, <2>3
<1>5. Reading'
  BY <1>1, <1>3, <1>4 DEF PDSInv, Reading
<1>6. GivenRight'
  BY <1>1, <1>2, LaneAsBefore
<1>7. Words!EndsWithTheFile'
  BY <1>1 DEF Words!EndsWithTheFile
<1>8. QED
  BY <1>1, <1>5, <1>6, <1>7, ReaderSteps

LEMMA PlaceOf ==
  ASSUME Words!parameters' = Words!parameters, NEW n, presentEventIndex_' = n
  PROVE  EndOf(presentEventIndex_)' = EndOf(n)
<1>1. EndOf(n)' = EndOf(n)
  BY SameFile
<1>2. EndOf(presentEventIndex_)' = EndOf(n)'
  BY DEF EndOf
<1>3. QED
  BY <1>1, <1>2

\* A step that reads: what stays.
ReadingStep ==
  at = "read" /\ UNCHANGED <<Words!parameters, Words!outputer, wanted, productInfo>>

LEMMA ReadingFacts ==
  ASSUME PDSParameters, PDSInv, ReadingStep
  PROVE  /\ Words!parameters' = Words!parameters /\ file' = file /\ writer' = writer
         /\ asserts' = asserts
         /\ compression' = compression /\ wanted' = wanted /\ productInfo' = productInfo
         /\ Words!Whole' = Words!Whole /\ (Words!CutInRecord' <=> Words!CutInRecord)
         /\ wanted \in Nat /\ wanted >= presentEventIndex_
         /\ presentEventIndex_ \in Nat /\ Words!Whole \in Nat /\ GivenRight
         /\ writer # "writing" /\ productInfo = ProductsNamed
         /\ rdstate # "good" => presentEventIndex_ >= Words!Whole /\ ~ asserts /\
              Words!CutInRecord
         /\ rdstate = "good" => objects \in [Words!Products -> Seq(Int)]
<1>1. /\ Words!parameters' = Words!parameters /\ file' = file /\ writer' = writer
      /\ asserts' = asserts
      /\ compression' = compression /\ wanted' = wanted /\ productInfo' = productInfo
      /\ at = "read"
  BY DEF ReadingStep, Words!parameters, Words!outputer
<1>2. Words!Whole' = Words!Whole /\ (Words!CutInRecord' <=> Words!CutInRecord)
  BY <1>1, SameFile
<1>3. /\ presentEventIndex_ \in Nat /\ Words!Whole \in Nat /\ GivenRight
      /\ writer # "writing" /\ productInfo = ProductsNamed
  BY <1>1, ReaderFacts
<1>4. /\ wanted \in Nat /\ wanted >= presentEventIndex_
      /\ rdstate # "good" => presentEventIndex_ >= Words!Whole /\ ~ asserts /\ Words!CutInRecord
      /\ rdstate = "good" => objects \in [Words!Products -> Seq(Int)]
  BY <1>1 DEF PDSInv, Reading
<1>5. QED
  BY <1>1, <1>2, <1>3, <1>4

LEMMA ReturnsFalseKeeps ==
  ASSUME PDSParameters, PDSInv, ReadingStep, Words!ReturnsFalse, wanted >= Words!Whole
  PROVE  PDSInv'
<1>1. /\ at' = "ended" /\ UNCHANGED <<Words!parameters, Words!outputer, Words!lane>>
      /\ presentEventIndex_' = presentEventIndex_ /\ given' = given
  BY DEF Words!ReturnsFalse, ReadingStep, Words!lane
<1>2. GivenRight'
  BY <1>1, ReadingFacts, LaneAsBefore
<1>3. Reading'
  BY <1>1, ReadingFacts DEF Reading, GivenRight
<1>4. Words!EndsWithTheFile'
  BY <1>1, ReadingFacts DEF Words!EndsWithTheFile
<1>5. QED
  BY <1>1, <1>2, <1>3, <1>4, ReaderSteps

LEMMA AbortKeeps ==
  ASSUME PDSParameters, PDSInv, ReadingStep, Words!Abort,
         Words!CutInRecord \/ (asserts /\ compression = "None")
  PROVE  PDSInv'
<1>1. /\ at' = "aborted" /\ UNCHANGED <<Words!parameters, Words!outputer, Words!lane>>
      /\ presentEventIndex_' = presentEventIndex_ /\ given' = given
  BY DEF Words!Abort, ReadingStep, Words!lane
<1>2. GivenRight'
  BY <1>1, ReadingFacts, LaneAsBefore
<1>3. Reading'
  BY <1>1, ReadingFacts DEF Reading, GivenRight
<1>4. Words!EndsWithTheFile'
  BY <1>1, ReadingFacts DEF Words!EndsWithTheFile
<1>5. QED
  BY <1>1, <1>2, <1>3, <1>4, ReaderSteps

LEMMA SkipGoodKeeps ==
  ASSUME PDSParameters, PDSInv, ReadingStep, presentEventIndex_ # wanted, Words!SkipGood
  PROVE  PDSInv'
<1>1. /\ rdstate = "good" /\ Words!Left >= 6 /\ presentEventIndex_' = presentEventIndex_ + 1
      /\ IF pos + 6 + file[pos + 6] + 1 <= Len(file)
           THEN pos' = pos + 6 + file[pos + 6] + 1 /\ rdstate' = rdstate
           ELSE ~ asserts /\ rdstate' = "eof"
      /\ at' = at /\ UNCHANGED <<Words!parameters, Words!outputer, Words!lane>>
      /\ given' = given /\ objects' = objects /\ at = "read"
  BY DEF Words!SkipGood, ReadingStep, Words!lane
<1>2. GivenRight'
  BY <1>1, ReadingFacts, LaneAsBefore
<1>3. Words!EndsWithTheFile'
  BY <1>1 DEF Words!EndsWithTheFile
<1>4. PICK n \in Nat, w \in Nat : n = presentEventIndex_ /\ w = Words!Whole
  BY ReadingFacts
<1>5. presentEventIndex_' \in Nat /\ wanted' \in Nat /\ wanted' >= presentEventIndex_'
  BY <1>1, ReadingFacts
<1>6. EndOf(presentEventIndex_)' = EndOf(n + 1)
  BY <1>1, <1>4, PlaceOf
<1>7. CASE n < w
  <2>1. n \in Words!Events /\ EndOf(n + 1) <= Len(file) /\ n + 1 <= w /\ pos = EndOf(n) /\
          pos \in Nat
    BY <1>1, <1>4, <1>7, AtItsPlace
  <2>2. pos + 6 + file[pos + 6] + 1 = EndOf(n + 1)
    <3>1. SizesGiven /\ FileIsBegun /\ Len(file) \in Nat
      BY <1>1, ReaderFacts
    <3>2. pos + 6 <= Len(file)
      BY <1>1, <2>1, <3>1 DEF Words!Left
    <3>3. QED
      BY <2>1, <3>1, <3>2, EventFound
  <2>3. pos' = EndOf(n + 1) /\ rdstate' = "good"
    BY <1>1, <2>1, <2>2
  <2>4. Reading'
    BY <1>1, <1>4, <1>5, <1>6, <2>1, <2>3, ReadingFacts DEF Reading, GivenRight
  <2>5. QED
    BY <1>1, <1>2, <1>3, <2>4, ReaderSteps
<1>8. CASE n = w
  <2>1. Words!CutInRecord /\ ~ (pos + 6 + file[pos + 6] + 1 <= Len(file))
    <3>1. /\ Words!CutInRecord /\ pos + 6 + file[pos + 6] + 1 > Len(file)
      BY <1>1, <1>4, <1>8, AtItsPlace
    <3>2. SizesGiven /\ FileIsBegun /\ Len(file) \in Nat
      BY <1>1, ReaderFacts
    <3>3. ~ (pos + 6 + file[pos + 6] + 1 <= Len(file))
      <4>1. pos + 6 + file[pos + 6] + 1 \in Int
        <5>1. pos \in Nat /\ pos + 6 <= Len(file)
          <6>1. pos \in Nat
            BY <1>1, AtItsPlace
          <6>2. QED
            BY <1>1, <3>2, <6>1 DEF Words!Left
        <5>2. file[pos + 6] \in Int
          BY <3>2, <5>1 DEF FileIsBegun
        <5>3. QED
          BY <5>1, <5>2
      <4>2. QED
        BY <3>1, <3>2, <4>1
    <3>4. QED
      BY <3>1, <3>3
  <2>2. ~ asserts /\ rdstate' = "eof"
    BY <1>1, <2>1
  <2>3. presentEventIndex_' >= Words!Whole'
    BY <1>1, <1>4, <1>8, ReadingFacts
  <2>4. Reading'
    BY <1>1, <1>5, <2>1, <2>2, <2>3, ReadingFacts DEF Reading, GivenRight
  <2>5. QED
    BY <1>1, <1>2, <1>3, <2>4, ReaderSteps
<1>9. QED
  <2>1. n <= w
    BY <1>1, <1>4, AtItsPlace
  <2>2. QED
    BY <1>7, <1>8, <2>1

LEMMA NoMoreEvents ==
  ASSUME PDSParameters, PDSInv, at = "read", rdstate = "good", Words!Left < 6
  PROVE  wanted >= Words!Whole
<1>1. /\ pos \in Nat /\ pos = EndOf(presentEventIndex_) /\ presentEventIndex_ <= Words!Whole
      /\ presentEventIndex_ < Words!Whole =>
           presentEventIndex_ \in Words!Events /\ EndOf(presentEventIndex_ + 1) <= Len(file)
  BY AtItsPlace
<1>2. /\ presentEventIndex_ \in Nat /\ Words!Whole \in Nat /\ SizesGiven /\ FileIsBegun
      /\ Len(file) \in Nat
      /\ wanted \in Nat /\ wanted >= presentEventIndex_
  BY ReaderFacts DEF PDSInv, Reading
<1>3. ~ (presentEventIndex_ < Words!Whole)
  <2>1. SUFFICES ASSUME presentEventIndex_ < Words!Whole PROVE FALSE
    OBVIOUS
  <2>2. pos + 8 <= Len(file)
    BY <1>1, <1>2, <2>1, EventRead
  <2>3. QED
    BY <1>1, <1>2, <2>2 DEF Words!Left
<1>4. QED
  BY <1>1, <1>2, <1>3

LEMMA SkipFailedKeeps ==
  ASSUME PDSParameters, PDSInv, ReadingStep, presentEventIndex_ # wanted, Words!SkipFailed
  PROVE  PDSInv'
<1>1. /\ rdstate # "good" /\ rdstate' = "fail" /\ presentEventIndex_' = presentEventIndex_ + 1
      /\ at' = at /\ UNCHANGED <<Words!parameters, Words!outputer, Words!lane>>
      /\ given' = given /\ at = "read"
  BY DEF Words!SkipFailed, ReadingStep, Words!lane
<1>2. GivenRight'
  BY <1>1, ReadingFacts, LaneAsBefore
<1>3. Words!EndsWithTheFile'
  BY <1>1 DEF Words!EndsWithTheFile
<1>4. presentEventIndex_' \in Nat /\ wanted' >= presentEventIndex_' /\
        presentEventIndex_' >= Words!Whole'
  BY <1>1, ReadingFacts
<1>5. Reading'
  BY <1>1, <1>4, ReadingFacts DEF Reading, GivenRight
<1>6. QED
  BY <1>1, <1>2, <1>3, <1>5, ReaderSteps

LEMMA SkipKeeps == ASSUME PDSParameters, PDSInv, Words!Skip PROVE PDSInv'
<1>1. ReadingStep /\ presentEventIndex_ # wanted /\ at = "read"
  BY DEF Words!Skip, ReadingStep
<1>2. CASE Words!SkipGood
  BY <1>1, <1>2, SkipGoodKeeps
<1>3. CASE Words!SkipAborts
  <2>1. Words!Abort /\ rdstate = "good" /\ Words!Left >= 6 /\
          pos + 6 + file[pos + 6] + 1 > Len(file)
    BY <1>3 DEF Words!SkipAborts
  <2>2. Words!CutInRecord
    <3>1. Words!Whole \in Nat /\ presentEventIndex_ \in Nat /\ SizesGiven /\ FileIsBegun /\
            Len(file) \in Nat
      BY <1>1, ReaderFacts
    <3>2. ~ (presentEventIndex_ < Words!Whole)
      <4>1. SUFFICES ASSUME presentEventIndex_ < Words!Whole PROVE FALSE
        OBVIOUS
      <4>2. /\ presentEventIndex_ \in Words!Events /\ EndOf(presentEventIndex_ + 1) <= Len(file)
            /\ pos = EndOf(presentEventIndex_) /\ pos \in Nat
        BY <1>1, <2>1, <4>1, AtItsPlace
      <4>3. pos + 6 <= Len(file)
        BY <2>1, <3>1, <4>2 DEF Words!Left
      <4>4. /\ Words!Words(pos, 6)[6] \in Nat /\ file[pos + 6] = Words!Words(pos, 6)[6]
            /\ pos + 6 + file[pos + 6] + 1 = EndOf(presentEventIndex_ + 1)
        BY <3>1, <4>2, <4>3, EventFound
      <4>5. QED
        BY <2>1, <3>1, <4>2, <4>4
    <3>3. presentEventIndex_ <= Words!Whole
      BY <1>1, <2>1, AtItsPlace
    <3>4. QED
      BY <1>1, <2>1, <3>1, <3>2, <3>3, AtItsPlace
  <2>3. QED
    BY <1>1, <2>1, <2>2, AbortKeeps
<1>4. CASE Words!SkipAtEnd
  <2>1. Words!ReturnsFalse /\ rdstate = "good" /\ Words!Left < 6
    BY <1>4 DEF Words!SkipAtEnd
  <2>2. QED
    BY <1>1, <2>1, NoMoreEvents, ReturnsFalseKeeps
<1>5. CASE Words!SkipFailed
  BY <1>1, <1>5, SkipFailedKeeps
<1>6. QED
  BY <1>2, <1>3, <1>4, <1>5 DEF Words!Skip

\* An event is given: after a read that found it whole, it is as it was written.
LEMMA ReadWhole ==
  ASSUME PDSParameters, PDSInv, ReadingStep, Words!ReadGood, presentEventIndex_ = wanted,
         presentEventIndex_ < Words!Whole
  PROVE  PDSInv'
<1> DEFINE header == Words!Words(pos, 6)
           buffer == Words!Words(pos + 6, header[6] + 1)
           complete == pos + 6 + header[6] + 1 <= Len(file)
           record == Words!Front(buffer)
<1>1. /\ rdstate = "good" /\ Words!Left >= 6 /\ at = "read"
      /\ UNCHANGED <<Words!parameters, Words!outputer>>
      /\ IF asserts /\
           ~ (complete /\ Words!Last(buffer) = header[6] /\ Words!SizeAssertion(record))
           THEN Words!Abort
         ELSE IF Words!Overrun(record) THEN Words!Abort
           ELSE /\ eventID_' = [run |-> header[2], lumi |-> header[3],
                                event |-> header[4] * Word + header[5]]
                /\ objects' = Words!Deserialize(Words!UncompressEventBuffer(record), objects)
                /\ given' = wanted
                /\ pos' = pos + 6 + Len(buffer)
                /\ rdstate' = IF complete THEN "good" ELSE "eof"
                /\ presentEventIndex_' = presentEventIndex_ + 1
                /\ at' = "next"
  BY DEF Words!ReadGood, ReadingStep
<1>2. PICK e \in Words!Events : /\ e = presentEventIndex_ /\ e \in Nat
                                /\ pos = EndOf(e) /\ pos \in Nat /\ EndOf(e + 1) <= Len(file)
                                /\ e + 1 <= Words!Whole
  BY <1>1, ReadingFacts, AtItsPlace
<1>3. SizesGiven /\ FileIsBegun /\ Len(file) \in Nat
  BY <1>1, ReaderFacts
<1>4. EventIsRead(e, header, buffer)
  BY <1>2, <1>3, EventRead
<1> HIDE DEF header, buffer
<1>5. /\ header[6] \in Nat /\ EndOf(e) + 6 + header[6] + 1 = EndOf(e + 1)
      /\ Len(buffer) = header[6] + 1 /\ Words!Last(buffer) = header[6]
      /\ [run |-> header[2], lumi |-> header[3], event |-> header[4] * Word + header[5]] =
           Words!EventID(e)
      /\ Words!UncompressEventBuffer(record) = Words!Uncompressed(e)
      /\ ~ Words!Overrun(record)
  BY <1>4 DEF EventIsRead
<1>6. complete /\ pos + 6 + Len(buffer) = EndOf(e + 1)
  BY <1>2, <1>5
<1>7. CASE Words!Abort
  <2>1. CASE asserts /\ ~ Words!SizeAssertion(record)
    <3>1. compression = "None"
      BY <2>1 DEF Words!SizeAssertion
    <3>2. QED
      BY <1>7, <2>1, <3>1, AbortKeeps
  <2>2. CASE ~ (asserts /\ ~ Words!SizeAssertion(record))
    <3>1. at' = "next"
      <4> HIDE DEF complete, record
      <4> QED
        BY <1>1, <1>5, <1>6, <2>2
    <3>2. at' = "aborted"
      BY <1>7 DEF Words!Abort
    <3>3. QED
      BY <3>1, <3>2
  <2>3. QED
    BY <2>1, <2>2
<1>8. CASE ~ Words!Abort
  <2>1. /\ eventID_' = Words!EventID(e)
        /\ objects' = Words!Deserialize(Words!Uncompressed(e), objects)
        /\ given' = wanted /\ pos' = EndOf(e + 1) /\ rdstate' = "good"
        /\ presentEventIndex_' = e + 1 /\ at' = "next"
    <3> HIDE DEF complete, record
    <3> QED
      BY <1>1, <1>2, <1>5, <1>6, <1>8
  <2>2. objects' = [p \in Words!Products |-> Words!Blob(e, p)]
    <3>1. objects \in [Words!Products -> Seq(Int)]
      BY <1>1, ReadingFacts
    <3>2. QED
      BY <1>3, <2>1, <3>1, EventDeserialized
  <2>3. objects' \in [Words!Products -> Seq(Int)]
    BY <1>3, <2>2, WordBlobFacts
  <2>4. given' = e /\ e < Words!Whole /\ wanted = e
    BY <1>2, <2>1
  <2>5. /\ Words!Whole' = Words!Whole /\ Words!Whole \in Nat /\
             (Words!CutInRecord' <=> Words!CutInRecord)
        /\ writer' # "writing" /\ productInfo' = ProductsNamed
    BY ReadingFacts
  <2>6. EndOf(presentEventIndex_)' = EndOf(e + 1)
    BY <2>1, ReadingFacts, PlaceOf
  <2>7. Reading'
    BY <1>2, <2>1, <2>3, <2>4, <2>5, <2>6 DEF Reading
  <2>8. GivenRight'
    <3>1. \A p : Words!Blob(given, p)' = Words!Blob(e, p)
      <4>1. \A p : Words!Blob(e, p)' = Words!Blob(e, p)
        BY ReadingFacts, SameFile
      <4>2. \A p : Words!Blob(given, p)' = Words!Blob(e, p)'
        BY <2>4 DEF Words!Blob
      <4>3. QED
        BY <4>1, <4>2
    <3>2. eventID_' = Words!EventID(given')
      BY <2>1, <2>4
    <3>3. objects' = [p \in Words!Products |-> Words!Blob(given, p)']
      BY <2>2, <3>1
    <3>4. ~ (given' >= Words!Whole') /\ given' \in Nat
      BY <1>2, <2>4, <2>5
    <3>5. QED
      BY <3>2, <3>3, <3>4 DEF GivenRight
  <2>9. Words!EndsWithTheFile'
    BY <2>1 DEF Words!EndsWithTheFile
  <2>10. QED
    BY <1>1, <2>1, <2>7, <2>8, <2>9, ReaderSteps
<1>9. QED
  BY <1>7, <1>8

\* A read that goes beyond the end of the file.
LEMMA ReadCut ==
  ASSUME PDSParameters, PDSInv, ReadingStep, Words!ReadGood, presentEventIndex_ = wanted,
         presentEventIndex_ = Words!Whole
  PROVE  PDSInv'
<1> DEFINE header == Words!Words(pos, 6)
           buffer == Words!Words(pos + 6, header[6] + 1)
           complete == pos + 6 + header[6] + 1 <= Len(file)
           record == Words!Front(buffer)
<1>1. /\ rdstate = "good" /\ Words!Left >= 6 /\ at = "read"
      /\ UNCHANGED <<Words!parameters, Words!outputer>>
      /\ \/ Words!Abort
         \/ /\ ~ (asserts /\ ~ complete)
            /\ given' = wanted
            /\ rdstate' = IF complete THEN "good" ELSE "eof"
            /\ presentEventIndex_' = presentEventIndex_ + 1
            /\ at' = "next"
  BY DEF Words!ReadGood, ReadingStep
<1>2. Words!CutInRecord /\ pos + 6 + header[6] + 1 > Len(file)
  BY <1>1, AtItsPlace
<1>3. ~ complete
  <2>1. SizesGiven /\ FileIsBegun /\ Len(file) \in Nat /\ pos \in Nat
    BY <1>1, ReaderFacts, AtItsPlace
  <2>2. header[6] \in Int
    <3>1. 6 \in Nat /\ 6 \in 1..6
      OBVIOUS
    <3>2. header \in Seq(Int) /\ Len(header) = 6
      BY <2>1, <3>1, WordsFound
    <3> HIDE DEF header
    <3>3. 6 \in 1..Len(header)
      BY <3>1, <3>2
    <3>4. QED
      BY <3>2, <3>3, ElementOfSeq
  <2> HIDE DEF header
  <2>3. QED
    BY <1>2, <2>1, <2>2
<1>4. CASE Words!Abort
  BY <1>2, <1>4, AbortKeeps
<1>5. CASE ~ Words!Abort
  <2>1. /\ ~ asserts /\ given' = wanted /\ rdstate' = "eof"
        /\ presentEventIndex_' = presentEventIndex_ + 1 /\ at' = "next"
    <3> HIDE DEF complete
    <3> QED
      BY <1>1, <1>3, <1>5
  <2>2. /\ Words!Whole' = Words!Whole /\ Words!Whole \in Nat /\
             (Words!CutInRecord' <=> Words!CutInRecord) /\ asserts' = asserts
        /\ writer' # "writing" /\ productInfo' = ProductsNamed
    BY ReadingFacts
  <2>3. /\ presentEventIndex_' \in Nat /\ presentEventIndex_' >= Words!Whole
        /\ given' \in Nat /\ given' = Words!Whole
    <3>1. ASSUME NEW w \in Nat PROVE w + 1 \in Nat /\ w + 1 >= w
      OBVIOUS
    <3>2. presentEventIndex_' = Words!Whole + 1 /\ given' = Words!Whole
      BY <2>1
    <3>3. QED
      BY <2>2, <3>1, <3>2
  <2>4. Reading'
    BY <1>2, <2>1, <2>2, <2>3 DEF Reading
  <2>5. GivenRight'
    BY <1>2, <2>1, <2>2, <2>3 DEF GivenRight
  <2>6. Words!EndsWithTheFile'
    BY <2>1 DEF Words!EndsWithTheFile
  <2>7. QED
    BY <1>1, <2>1, <2>4, <2>5, <2>6, ReaderSteps
<1>6. QED
  BY <1>4, <1>5

\* A read of a stream that failed before.
LEMMA ReadFailedKeeps ==
  ASSUME PDSParameters, PDSInv, ReadingStep, presentEventIndex_ = wanted, Words!ReadFailed
  PROVE  PDSInv'
<1>1. /\ rdstate # "good" /\ UNCHANGED <<Words!parameters, Words!outputer>>
      /\ \/ Words!Abort
         \/ /\ given' = wanted /\ rdstate' = rdstate
            /\ presentEventIndex_' = presentEventIndex_ + 1 /\ at' = "next"
  BY DEF Words!ReadFailed, ReadingStep, Words!stream
<1>2. presentEventIndex_ >= Words!Whole /\ ~ asserts /\ Words!CutInRecord
  BY <1>1, ReadingFacts
<1>3. CASE Words!Abort
  BY <1>2, <1>3, AbortKeeps
<1>4. CASE ~ Words!Abort
  <2>1. /\ Words!Whole' = Words!Whole /\ Words!Whole \in Nat /\
             (Words!CutInRecord' <=> Words!CutInRecord) /\ asserts' = asserts
        /\ writer' # "writing" /\ productInfo' = ProductsNamed /\ presentEventIndex_ \in Nat
    BY ReadingFacts
  <2>2. Reading'
    BY <1>1, <1>2, <1>4, <2>1 DEF Reading
  <2>3. GivenRight'
    BY <1>1, <1>2, <1>4, <2>1 DEF GivenRight
  <2>4. Words!EndsWithTheFile'
    BY <1>1, <1>4 DEF Words!EndsWithTheFile
  <2>5. QED
    BY <1>1, <1>4, <2>2, <2>3, <2>4, ReaderSteps
<1>5. QED
  BY <1>3, <1>4

LEMMA WordsReadKeeps == ASSUME PDSParameters, PDSInv, Words!Read PROVE PDSInv'
<1>1. ReadingStep /\ presentEventIndex_ = wanted /\ at = "read"
  BY DEF Words!Read, ReadingStep
<1>2. CASE Words!ReadGood
  <2>1. rdstate = "good"
    BY <1>2 DEF Words!ReadGood
  <2>2. presentEventIndex_ <= Words!Whole /\ presentEventIndex_ \in Nat /\ Words!Whole \in Nat
    BY <1>1, <2>1, AtItsPlace, ReaderFacts
  <2>3. presentEventIndex_ < Words!Whole \/ presentEventIndex_ = Words!Whole
    BY <2>2
  <2>4. QED
    BY <1>1, <1>2, <2>3, ReadWhole, ReadCut
<1>3. CASE Words!ReadAtEnd
  <2>1. Words!ReturnsFalse /\ (rdstate # "good" \/ (rdstate = "good" /\ Words!Left < 6))
    BY <1>3 DEF Words!ReadAtEnd
  <2>2. wanted >= Words!Whole
    <3>1. CASE rdstate # "good"
      BY <1>1, <3>1, ReadingFacts
    <3>2. CASE rdstate = "good"
      BY <1>1, <2>1, <3>2, NoMoreEvents
    <3>3. QED
      BY <3>1, <3>2
  <2>3. QED
    BY <1>1, <2>1, <2>2, ReturnsFalseKeeps
<1>4. CASE Words!ReadFailed
  BY <1>1, <1>4, ReadFailedKeeps
<1>5. QED
  BY <1>2, <1>3, <1>4 DEF Words!Read

\* Nothing changes.
LEMMA StandsStill == ASSUME PDSInv, UNCHANGED Words!vars PROVE PDSInv'
<1>1. UNCHANGED <<Words!parameters, Words!outputer, Words!reader>>
  BY DEF Words!vars
<1>2. /\ Words!parameters' = Words!parameters /\ file' = file /\ writer' = writer
      /\ firstTime_' = firstTime_
      /\ written' = written /\ asserts' = asserts /\ compression' = compression
      /\ at' = at /\ rdstate' = rdstate /\ pos' = pos /\ wanted' = wanted
      /\ presentEventIndex_' = presentEventIndex_ /\ productInfo' = productInfo
      /\ given' = given /\ objects' = objects /\ eventID_' = eventID_
  BY <1>1 DEF Words!parameters, Words!outputer, Words!reader, Words!stream, Words!lane
<1>3. /\ (SizesGiven' <=> SizesGiven) /\ Words!Whole' = Words!Whole /\
           (Words!CutInRecord' <=> Words!CutInRecord)
      /\ (FileIsBegun' <=> FileIsBegun)
  BY <1>2, SameFile
<1>4. EndOf(presentEventIndex_)' = EndOf(presentEventIndex_) /\ EndOf(written)' = EndOf(written)
  <2>1. PICK n, m : n = presentEventIndex_ /\ m = written
    OBVIOUS
  <2>2. EndOf(n)' = EndOf(n) /\ EndOf(m)' = EndOf(m)
    BY <1>2, SameFile
  <2>3. EndOf(presentEventIndex_)' = EndOf(n)' /\ EndOf(written)' = EndOf(m)'
    BY <1>2, <2>1 DEF EndOf
  <2>4. QED
    BY <2>1, <2>2, <2>3
<1>5. \A p : Words!Blob(given, p)' = Words!Blob(given, p)
  <2>1. PICK n : n = given
    OBVIOUS
  <2>2. \A p : Words!Blob(n, p)' = Words!Blob(n, p)
    BY <1>2, SameFile
  <2>3. \A p : Words!Blob(given, p)' = Words!Blob(n, p)'
    BY <1>2, <2>1 DEF Words!Blob
  <2>4. QED
    BY <2>1, <2>2, <2>3
<1>6. Writing'
  BY <1>2, <1>3, <1>4 DEF PDSInv, Writing
<1>7. Reading'
  BY <1>2, <1>3, <1>4 DEF PDSInv, Reading
<1>8. Words!EventsAsWritten'
  BY <1>2, <1>3, <1>5 DEF PDSInv, Words!EventsAsWritten
<1>9. Words!EndsWithTheFile'
  BY <1>2, <1>3 DEF PDSInv, Words!EndsWithTheFile
<1>10. QED
  BY <1>3, <1>6, <1>7, <1>8, <1>9 DEF PDSInv

LEMMA PDSStepKeeps == ASSUME PDSParameters, PDSInv, [Words!Next]_(Words!vars) PROVE PDSInv'
<1>1. CASE Words!Output
  BY <1>1, OutputKeeps
<1>2. CASE Words!Close
  BY <1>2, CloseKeeps
<1>3. CASE Words!Die
  BY <1>3, DieKeeps
<1>4. CASE Words!Open
  BY <1>4, OpenKeeps
<1>5. CASE Words!NextIndex
  BY <1>5, WordsNextIndexKeeps
<1>6. CASE Words!Skip
  BY <1>6, SkipKeeps
<1>7. CASE Words!Read
  BY <1>7, WordsReadKeeps
<1>8. CASE UNCHANGED Words!vars
  BY <1>8, StandsStill
<1>9. QED
  BY <1>1, <1>2, <1>3, <1>4, <1>5, <1>6, <1>7, <1>8 DEF Words!Next, Words!Finished

----------------------------------------------------------------------------
\* The invariant in the job, which has the variables of PDSFormat for a PDS file.
WordsInv == kind \in WordKinds => PDSInv

LEMMA WordsParameters == PDSParameters
BY PDSAssumption DEF PDSAssumption, PDSParameters

LEMMA WordsInitially == EventsInit => WordsInv
<1> SUFFICES ASSUME EventsInit, kind \in WordKinds PROVE PDSInv
  BY DEF WordsInv
<1>1. Words!Init
  BY DEF EventsInit, WordKinds, OneByOne!Init, EventKinds
<1>2. QED
  BY <1>1, WordsParameters, PDSInitially

LEMMA WordsKeep == ASSUME WordsInv, [EventsNext]_eventsVars PROVE WordsInv'
<1> SUFFICES ASSUME (kind \in WordKinds)' PROVE PDSInv'
  BY DEF WordsInv
<1>1. CASE WordsNext
  <2>1. PDSInv /\ Words!Next
    BY <1>1 DEF WordsNext, WordsInv
  <2>2. QED
    BY <2>1, WordsParameters, PDSStepKeeps
<1>2. CASE OneByOneNext
  <2>1. kind' = kind
    BY <1>2, OneByOneKindStays DEF OneByOneNext
  <2>2. QED
    BY <1>2, <2>1 DEF OneByOneNext, WordKinds, EventKinds
<1>3. CASE BatchesNext \/ UNCHANGED eventsVars
  <2>1. UNCHANGED <<kind, at, objects, presentEventIndex_, ofWords>>
    BY <1>3 DEF BatchesNext, eventsVars
  <2>2. PDSInv
    BY <2>1 DEF WordsInv
  <2>3. UNCHANGED Words!vars
    BY <2>1 DEF ofWords, Words!vars, Words!parameters, Words!outputer, Words!reader,
                Words!stream, Words!lane
  <2>4. QED
    BY <2>2, <2>3, WordsParameters, PDSStepKeeps
<1>4. QED
  BY <1>1, <1>2, <1>3 DEF EventsNext

\* For any PDS file, also one that breaks off, the reader gives the event of the index
\* it was asked for with its identifier and the words of its data products, and none
\* that is not whole, but for a build without assertions (pds_reading.cc).
THEOREM WordsReadAsWritten == EventsSpec => []EventsAsWritten
<1>1. WordsInv => EventsAsWritten
  BY DEF WordsInv, PDSInv, EventsAsWritten
<1>2. QED
  BY <1>1, WordsInitially, WordsKeep, PTL DEF EventsSpec

\* The source of a PDS file ends only behind the last whole event, and an assertion
\* fails only where the file breaks off inside a record, or is not compressed.
THEOREM EndsBehindTheLast == EventsSpec => []EndsWithTheFile
<1>1. WordsInv => EndsWithTheFile
  BY DEF WordsInv, PDSInv, EndsWithTheFile
<1>2. QED
  BY <1>1, WordsInitially, WordsKeep, PTL DEF EventsSpec

\* What is proved of SharedRootBatchEventsSource holds in the job: its variables make
\* the steps of that module, or, with another source, none.
THEOREM BatchesInTheJob == EventsSpec => Spec
<1>1. EventsInit => Init
  BY DEF EventsInit, Unused
<1>2. [EventsNext]_eventsVars => [Next]_vars
  BY DEF EventsNext, BatchesNext, OneByOneNext, WordsNext, eventsVars
<1>3. QED
  BY <1>1, <1>2, PTL DEF EventsSpec, Spec
==============================================================================
