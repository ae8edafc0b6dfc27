--------------------------- MODULE BinarySearchProofs ---------------------------
(***************************************************************************)
(* Both multi lookups of applications/binary-search, for every size of the *)
(* dataset, number of lookups, number of streams and of repetitions: every *)
(* halving is sound (SearchIsSound), and the coroutines' frames are        *)
(* recycled (FramesRecycled).                                              *)
(*                                                                         *)
(* That the search reads inside the dataset rests on the loop's own        *)
(* invariant, Sound, on no frame being run that is not searching           *)
(* (StateMachine: idle frames are those the first round has not reached;   *)
(* Coroutines: whoever is in the ring or runs is alive), and, for the      *)
(* types, on counting the searches.  That the scheduler's ring never       *)
(* overflows follows from the throttler's limit, which is what bounds the  *)
(* blocks too.                                                             *)
(***************************************************************************)
EXTENDS BinarySearch, FiniteSetTheorems, TLAPS

\* The loop invariant of the search: the probe is in the range, the range in the
\* dataset, and the key in the range if it is anywhere.
Sound(f) ==
    Going(f) =>
        /\ f.len > 0
        /\ f.half = f.len \div 2
        /\ f.middle = f.first + f.half
        /\ f.first + f.len <= count
        /\ f.val \in Dataset =>
               \E p \in f.first..(f.first + f.len - 1) : f.val = At(p)

FramesSound == \A k \in 0..NKeys : Sound(search[k])

Open == {k \in 0..NKeys : Going(search[k])}

\* The coroutines that have a frame.
Alive == {c \in Keys : block[c] # 0}

\* Where the multi lookups may stand.
Modes ==
    /\ algo = "sm" => /\ mode \in {"looking", "cycling", "sweeping", "done"}
                      /\ running = 0 /\ Alive = {}
    /\ algo = "coro" => mode \in {"looking", "making_room", "running", "done"}
    /\ mode # "sweeping" => i < n_streams
    /\ mode = "making_room" => next \in Keys
    /\ mode = "running" => next = NKeys + 1

\* state_machine_multi_lookup: frames are filled downwards in the first round and
\* busy from then on.
StateMachine ==
    algo = "sm" =>
        /\ found + Cardinality(Open) <= next - 1
        /\ mode \in {"looking", "cycling"} =>
            \/ \A k \in 0..(n_streams - 1) : Going(search[k])
            \/ /\ mode = "looking"
               /\ \A k \in 0..(n_streams - 1) : Going(search[k]) <=> k > i

\* The slots of the ring from t to h, and how many they are.
Slots == 0..(QueueDepth - 1)
Occ(h, t) == {s \in Slots : IF t <= h THEN t <= s /\ s < h ELSE t <= s \/ s < h}
Size(h, t) == IF t <= h THEN h - t ELSE h + QueueDepth - t

\* The coroutines that are neither in the ring nor ended: the one spawn() was
\* called for, while it makes room, and the one that runs.
InSpawn == IF mode = "making_room" THEN 1 ELSE 0
InHand == IF running # 0 THEN 1 ELSE 0

\* coro_multi_lookup: the counters, the limit and the ring add up to the
\* coroutines alive ...
Counts ==
    /\ mode # "done" => found + not_found + Cardinality(Alive) = next - 1 + InSpawn
    /\ mode = "done" => found = 0 /\ not_found = 0 /\ Cardinality(Alive) = 0
    /\ limit + Cardinality(Alive) = n_streams + InSpawn
    /\ Size(head, tail) + InHand + InSpawn = Cardinality(Alive)
    /\ mode = "making_room" => limit = 1 - InHand

\* ... and each is in one place.
Places ==
    /\ \A c \in Alive : c < next \/ (mode = "making_room" /\ c = next)
    /\ \A c \in Alive : search[c].state \in {"EMPTY", "KEEP_GOING"}
    /\ mode = "making_room" => next \in Alive
    /\ mode \in {"looking", "done"} => running = 0
    /\ running # 0 => running \in Alive /\ running # next
    /\ \A s \in Occ(head, tail) : arr[s] \in Alive /\ arr[s] # running /\ arr[s] # next
    /\ \A s, t \in Occ(head, tail) : arr[s] = arr[t] => s = t

\* tcalloc: every block is in one place.
Heap ==
    /\ \A c \in Keys : block[c] \in 0..alloc_count
    /\ \A k \in DOMAIN root : root[k] \in 1..alloc_count
    /\ \A j, k \in DOMAIN root : root[j] = root[k] => j = k
    /\ Len(root) + Cardinality(Alive) = alloc_count

IInv ==
    /\ TypeOK
    /\ FramesSound
    /\ Modes
    /\ StateMachine
    /\ algo = "coro" => Counts /\ Places
    /\ Heap
    /\ FramesRecycled

-----------------------------------------------------------------------------
(***************************************************************************)
(* The search.                                                             *)
(***************************************************************************)

\* Half of what is left is less than it.
LEMMA Halving == ASSUME NEW l \in Nat, l > 0 PROVE l \div 2 \in 0..(l - 1)
OBVIOUS

\* A search that begins has the whole dataset in front of it.
LEMMA BeginIsSound ==
    ASSUME count \in 1..MaxCount, NEW key \in Nat
    PROVE  Begin(key) \in Frame /\ Going(Begin(key)) /\ Sound(Begin(key))
<1> USE SearchAssumption
<1>1. count \in Nat /\ count > 0 /\ count \div 2 \in 0..(count - 1)
  BY Halving
<1> DEFINE e == [Empty(key) EXCEPT !.state = "KEEP_GOING", !.len = count]
           b == Begin(key)
<1>2. Empty(key) \in Frame
  BY DEF Empty, Frame
<1>3. /\ e \in Frame
      /\ e.state = "KEEP_GOING" /\ e.val = key /\ e.first = 0 /\ e.len = count
  <2>1. Empty(key).val = key /\ Empty(key).first = 0
    BY DEF Empty
  <2>2. PICK z \in Frame : z = Empty(key)
    BY <1>2
  <2>3. e = [z EXCEPT !.state = "KEEP_GOING", !.len = count]
    BY <2>2
  <2>4. count \in 0..MaxCount
    BY <1>1
  <2> HIDE DEF e
  <2> QED BY <2>1, <2>2, <2>3, <2>4 DEF Frame
<1> HIDE DEF e
<1>4. /\ b \in Frame
      /\ b.state = "KEEP_GOING" /\ b.val = key /\ b.first = 0 /\ b.len = count
      /\ b.half = count \div 2 /\ b.middle = 0 + count \div 2
  <2>1. b = [e EXCEPT !.half = e.len \div 2, !.middle = e.first + e.len \div 2]
    BY <1>1 DEF Begin, Probe, e
  <2>2. count \div 2 \in 0..MaxCount /\ 0 + count \div 2 \in 0..MaxCount
    BY <1>1
  <2> QED BY <1>3, <2>1, <2>2 DEF Frame
<1> HIDE DEF b
<1>5. ASSUME key \in Dataset PROVE \E p \in 0..(0 + count - 1) : key = At(p)
  BY <1>5, <1>1 DEF Dataset
<1>6. Sound(b)
  BY <1>1, <1>4, <1>5 DEF Sound
<1> QED BY <1>4, <1>6 DEF b, Going

\* A turn of the loop keeps its invariant, and says whether the search goes on.
LEMMA RunIsSound ==
    ASSUME count \in 1..MaxCount, NEW f \in Frame, Going(f), Sound(f)
    PROVE  /\ Run(f) \in Frame
           /\ Sound(Run(f))
           /\ Run(f).state # "EMPTY"
<1> USE SearchAssumption DEF Going
<1> DEFINE first == f.first
           len == f.len
           half == f.half
<1>1. /\ count \in Nat /\ count <= MaxCount /\ MaxCount \in Nat
      /\ first \in Nat /\ len \in Nat /\ f.val \in Nat
      /\ len > 0 /\ half = len \div 2 /\ half \in 0..(len - 1)
      /\ f.middle = first + half /\ first + len <= count
  BY Halving DEF Frame, Sound
<1>2. ASSUME f.val \in Dataset
      PROVE  \E p \in first..(first + len - 1) : f.val = p + p
  BY <1>2 DEF Sound, At
<1>3. At(f.middle) = f.middle + f.middle
  BY DEF At
<1> DEFINE g == Narrow(f)
<1>4. /\ g \in Frame /\ g.val = f.val
      /\ g.first + g.len <= count
  <2>1. CASE At(f.middle) < f.val
    <3>1. g = [f EXCEPT !.first = f.middle + 1, !.len = f.len - f.half - 1]
      BY <2>1 DEF Narrow
    <3>2. /\ f.middle + 1 \in 0..MaxCount /\ f.len - f.half - 1 \in 0..MaxCount
          /\ f.middle + 1 + (f.len - f.half - 1) <= count
      BY <1>1
    <3> QED BY <3>1, <3>2 DEF Frame
  <2>2. CASE ~(At(f.middle) < f.val)
    <3>1. g = [f EXCEPT !.len = f.half]
      BY <2>2 DEF Narrow
    <3>2. f.half \in 0..MaxCount /\ f.first + f.half <= count
      BY <1>1
    <3> QED BY <3>1, <3>2 DEF Frame
  <2> QED BY <2>1, <2>2
<1>5. ASSUME At(f.middle) # f.val, f.val \in Dataset
      PROVE  \E p \in g.first..(g.first + g.len - 1) : f.val = p + p
  <2>1. PICK p \in first..(first + len - 1) : f.val = p + p
    BY <1>2, <1>5
  <2>2. CASE At(f.middle) < f.val
    <3>1. g.first = f.middle + 1 /\ g.len = f.len - f.half - 1
      BY <2>2 DEF Narrow, Frame
    <3>2. p \in g.first..(g.first + g.len - 1)
      BY <3>1, <2>1, <2>2, <1>1, <1>3
    <3> QED BY <3>2, <2>1
  <2>3. CASE ~(At(f.middle) < f.val)
    <3>1. g.first = f.first /\ g.len = f.half
      BY <2>3 DEF Narrow, Frame
    <3>2. p \in g.first..(g.first + g.len - 1)
      BY <3>1, <2>1, <2>3, <1>5, <1>1, <1>3
    <3> QED BY <3>2, <2>1
  <2> QED BY <2>2, <2>3
<1> HIDE DEF g, first, len, half
<1>6. CASE At(f.middle) = f.val
  <2>1. Run(f) = [g EXCEPT !.state = "FOUND"]
    BY <1>6 DEF Run, g
  <2> QED BY <2>1, <1>4 DEF Frame, Sound
<1>7. CASE At(f.middle) # f.val /\ g.len > 0
  <2>1. Run(f) = [g EXCEPT !.half = g.len \div 2, !.middle = g.first + g.len \div 2]
    BY <1>7 DEF Run, Probe, g
  <2>2. g.len \in Nat /\ g.first \in Nat /\ g.len \div 2 \in 0..(g.len - 1)
    BY <1>4, <1>7, Halving DEF Frame
  <2>3. g.len \div 2 \in 0..MaxCount /\ g.first + g.len \div 2 \in 0..MaxCount
    BY <2>2, <1>4, <1>1
  <2>4. Run(f) \in Frame
    BY <2>1, <2>3, <1>4 DEF Frame
  <2>5. /\ Run(f).len = g.len /\ Run(f).first = g.first /\ Run(f).val = f.val
        /\ Run(f).half = g.len \div 2 /\ Run(f).middle = g.first + g.len \div 2
        /\ Run(f).state = g.state
    BY <2>1, <1>4 DEF Frame
  <2>6. Sound(Run(f))
    BY <2>5, <1>4, <1>5, <1>7 DEF Sound, At
  <2>7. g.state = f.state
    BY DEF g, Narrow, Frame
  <2> QED BY <2>4, <2>5, <2>6, <2>7
<1>8. CASE At(f.middle) # f.val /\ ~(g.len > 0)
  <2>1. Run(f) = [g EXCEPT !.state = "NOT_FOUND"]
    BY <1>8 DEF Run, g
  <2> QED BY <2>1, <1>4 DEF Frame, Sound
<1> QED BY <1>6, <1>7, <1>8

-----------------------------------------------------------------------------
(***************************************************************************)
(* The ring.                                                               *)
(***************************************************************************)

\* One slot further.
LEMMA Wraps ==
    ASSUME QueueDepth \in Nat \ {0}, NEW k \in Slots
    PROVE  Succ(k) = (IF k + 1 = QueueDepth THEN 0 ELSE k + 1) /\ Succ(k) \in Slots
BY DEF Succ, Slots

\* push_back writes a free slot, as long as two are free.
LEMMA Pushed ==
    ASSUME QueueDepth \in Nat \ {0}, NEW h \in Slots, NEW t \in Slots,
           Size(h, t) < QueueDepth - 1
    PROVE  /\ h \notin Occ(h, t)
           /\ Occ(Succ(h), t) = Occ(h, t) \cup {h}
           /\ Size(Succ(h), t) = Size(h, t) + 1
<1>1. Succ(h) = (IF h + 1 = QueueDepth THEN 0 ELSE h + 1)
  BY Wraps
<1>2. Size(Succ(h), t) = Size(h, t) + 1
  BY <1>1 DEF Size, Slots
<1>3. \A s \in Slots : s \in Occ(Succ(h), t) <=> s \in Occ(h, t) \/ s = h
  BY <1>1 DEF Occ, Size, Slots
<1> QED BY <1>2, <1>3 DEF Occ, Slots

\* What is taken off at the tail was in an occupied slot, which becomes free.
LEMMA Popped ==
    ASSUME QueueDepth \in Nat \ {0}, NEW h \in Slots, NEW t \in Slots, Size(h, t) # 0
    PROVE  /\ t \in Occ(h, t)
           /\ Occ(h, Succ(t)) = Occ(h, t) \ {t}
           /\ Size(h, Succ(t)) = Size(h, t) - 1
<1>1. Succ(t) = (IF t + 1 = QueueDepth THEN 0 ELSE t + 1)
  BY Wraps
<1>2. Size(h, Succ(t)) = Size(h, t) - 1
  BY <1>1 DEF Size, Slots
<1>3. \A s \in Slots : s \in Occ(h, Succ(t)) <=> s \in Occ(h, t) /\ s # t
  BY <1>1 DEF Occ, Size, Slots
<1> QED BY <1>2, <1>3 DEF Occ, Size, Slots

\* The length is a number, and 0 exactly when head and tail meet.
LEMMA RingSize ==
    ASSUME QueueDepth \in Nat \ {0}, NEW h \in Slots, NEW t \in Slots
    PROVE  Size(h, t) \in Nat /\ (Size(h, t) = 0 <=> h = t) /\ Occ(h, t) \subseteq Slots
BY DEF Size, Occ, Slots

-----------------------------------------------------------------------------
(***************************************************************************)
(* Counting.                                                               *)
(***************************************************************************)

\* A finite set with one element more, or less.
LEMMA OneMore ==
    ASSUME NEW S, IsFiniteSet(S), NEW x, x \notin S
    PROVE  IsFiniteSet(S \cup {x}) /\ Cardinality(S \cup {x}) = Cardinality(S) + 1
BY FS_AddElement

\* The same, downwards.
LEMMA OneLess ==
    ASSUME NEW S, IsFiniteSet(S), NEW x \in S
    PROVE  /\ IsFiniteSet(S \ {x}) /\ Cardinality(S \ {x}) = Cardinality(S) - 1
           /\ Cardinality(S) \in Nat
BY FS_RemoveElement, FS_CardinalityType

\* The searches open and the coroutines alive can be counted.
LEMMA Countable ==
    /\ IsFiniteSet(Open) /\ Cardinality(Open) \in Nat
    /\ IsFiniteSet(Alive) /\ Cardinality(Alive) \in Nat
    /\ Cardinality(Alive) = 0 <=> Alive = {}
<1>1. NKeys \in Int /\ 0 \in Int /\ 1 \in Int
  BY SearchAssumption
<1>2. IsFiniteSet(0..NKeys) /\ IsFiniteSet(1..NKeys)
  BY <1>1, FS_Interval
<1>3. Open \subseteq 0..NKeys /\ Alive \subseteq 1..NKeys
  BY DEF Open, Alive, Keys
<1>4. IsFiniteSet(Open) /\ IsFiniteSet(Alive)
  BY <1>2, <1>3, FS_Subset
<1> QED BY <1>4, FS_CardinalityType, FS_EmptySet

-----------------------------------------------------------------------------
(***************************************************************************)
(* What the steps have in common.                                          *)
(***************************************************************************)

\* The invariant of a frame depends on the size of the dataset only.
LEMMA FramesKept ==
    ASSUME count' = count, \A k \in 0..NKeys : Sound(search'[k])
    PROVE  FramesSound'
BY DEF FramesSound, Sound, Going, Dataset, At

\* One search moves on.
LEMMA FrameStep ==
    ASSUME search \in [0..NKeys -> Frame], FramesSound, count' = count,
           NEW k \in 0..NKeys, NEW g \in Frame, Sound(g),
           search' = [search EXCEPT ![k] = g]
    PROVE  search' \in [0..NKeys -> Frame] /\ FramesSound' /\ search'[k] = g
<1>1. \A j \in 0..NKeys : Sound(search'[j])
  BY DEF FramesSound
<1> QED BY <1>1, FramesKept

\* An empty frame, which is not searching.
LEMMA NewFrame ==
    ASSUME NEW key \in Nat
    PROVE  /\ Empty(key) \in Frame /\ ~Going(Empty(key)) /\ Sound(Empty(key))
           /\ Empty(key).state = "EMPTY"
BY SearchAssumption DEF Empty, Frame, Going, Sound

\* The allocator is left alone.
LEMMA HeapKept ==
    ASSUME Heap, FramesRecycled, UNCHANGED heap, UNCHANGED n_streams
    PROVE  Heap' /\ FramesRecycled' /\ Alive' = Alive
<1>1. Alive' = Alive
  BY DEF heap, Alive
<1> QED BY <1>1 DEF heap, Heap, FramesRecycled

\* The numbers the steps reckon with.
LEMMA Numbers ==
    ASSUME TypeOK
    PROVE  /\ NKeys \in Nat /\ QueueDepth \in Nat \ {0} /\ n_streams \in Nat
           /\ 1 <= n_streams /\ n_streams <= NKeys + 1 /\ n_streams < QueueDepth
           /\ MaxCount \in Nat /\ count \in Nat
           /\ i \in Nat /\ next \in Nat /\ found \in Nat /\ not_found \in Nat
           /\ limit \in Nat
           /\ \A k \in Keys : lookups[k] \in Nat
<1> USE SearchAssumption DEF TypeOK
<1>1. /\ NKeys \in Nat /\ QueueDepth \in Nat /\ MaxCount \in Nat
      /\ n_streams \in 1..(NKeys + 1) /\ n_streams < QueueDepth
  OBVIOUS
<1>2. \A k \in Keys : lookups[k] \in Nat
  <2>1. lookups \in [Keys -> 0..(2 * count)] /\ count \in 1..MaxCount
    BY Zenon
  <2>2. 0..(2 * count) \subseteq Nat
    BY ONLY <1>1, <2>1
  <2> QED BY ONLY <2>1, <2>2
<1>3. /\ i \in 0..n_streams /\ next \in 1..(NKeys + 1) /\ found \in 0..NKeys
      /\ not_found \in 0..NKeys /\ limit \in 0..n_streams /\ count \in 1..MaxCount
  OBVIOUS
<1> QED BY ONLY <1>1, <1>2, <1>3

\* What state_machine_multi_lookup changes keeps its type.
LEMMA SmTypes ==
    ASSUME TypeOK, UNCHANGED <<input, coroVars>>,
           mode' \in {"looking", "cycling", "sweeping", "done"},
           next' \in 1..(NKeys + 1), search' \in [0..NKeys -> Frame],
           found' \in 0..NKeys, results' \in Seq(0..NKeys), i' \in 0..n_streams,
           more_work' \in BOOLEAN
    PROVE  TypeOK'
<1>1. /\ UNCHANGED <<algo, count, lookups, n_streams, arr, head, tail, limit, running>>
      /\ UNCHANGED <<not_found, root, block, alloc_count>>
  BY DEF input, coroVars, heap
<1>2. mode' \in {"looking", "cycling", "sweeping", "making_room", "running", "done"}
  OBVIOUS
<1> QED BY <1>1, <1>2, Zenon DEF TypeOK

-----------------------------------------------------------------------------
(***************************************************************************)
(* state_machine_multi_lookup.                                             *)
(***************************************************************************)

\* A frame gets a key, or runs, while keys are left.
LEMMA InitFrameStep == ASSUME IInv, InitFrame PROVE IInv'
<1> USE DEF IInv
<1>1. /\ algo = "sm" /\ mode = "looking" /\ next \in Keys /\ ~Going(search[i])
      /\ search' = [search EXCEPT ![i] = Begin(lookups[next])]
      /\ next' = next + 1 /\ Turn
      /\ UNCHANGED <<input, mode, found, results, more_work, coroVars>>
  BY DEF InitFrame
<1>2. i \in 0..(n_streams - 1) /\ i \in 0..NKeys
  BY <1>1, Numbers DEF Modes
<1> DEFINE g == Begin(lookups[next])
<1>3. g \in Frame /\ Going(g) /\ Sound(g)
  BY <1>1, Numbers, BeginIsSound DEF TypeOK
<1> HIDE DEF g
<1>4. search' \in [0..NKeys -> Frame] /\ FramesSound' /\ search'[i] = g
  BY <1>1, <1>2, <1>3, FrameStep DEF TypeOK, input, g
<1>5. i' \in 0..(n_streams - 1) /\ next' \in 1..(NKeys + 1)
  BY <1>1, <1>2, Numbers DEF Turn, Keys
<1>6. TypeOK'
  <2>1. /\ i' \in 0..n_streams /\ found' \in 0..NKeys /\ results' \in Seq(0..NKeys)
        /\ more_work' \in BOOLEAN
    <3>1. i' \in 0..n_streams
      BY <1>5, Numbers
    <3> QED BY <3>1, <1>1, Zenon DEF TypeOK
  <2> QED BY <1>1, <1>4, <1>5, <2>1, SmTypes
<1>7. Heap' /\ FramesRecycled' /\ Alive' = Alive
  BY <1>1, HeapKept DEF coroVars, input
<1>8. Modes'
  BY <1>1, <1>5, <1>7, Numbers DEF Modes, input, coroVars
<1>9. StateMachine'
  <2>1. Open' = Open \cup {i} /\ i \notin Open
    BY <1>1, <1>2, <1>3, <1>4 DEF Open, TypeOK, g
  <2>2. Cardinality(Open \cup {i}) = Cardinality(Open) + 1
    BY <2>1, OneMore, Countable
  <2>3. found' + Cardinality(Open') <= next' - 1
    BY <1>1, <2>1, <2>2, Countable, Numbers DEF StateMachine
  <2>4. \A k \in 0..(n_streams - 1) : Going(search[k]) <=> k > i
    BY <1>1, <1>2 DEF StateMachine
  <2>5. \A k \in 0..(n_streams - 1) : Going(search'[k]) <=> k >= i
    <3> TAKE k \in 0..(n_streams - 1)
    <3>1. k \in 0..NKeys /\ k \in Nat /\ i \in Nat
      BY Numbers
    <3>2. CASE k = i
      BY <3>1, <3>2, <1>3, <1>4
    <3>3. CASE k # i
      <4>1. search'[k] = search[k]
        BY <3>1, <3>3, <1>1 DEF TypeOK
      <4> QED BY <3>1, <3>3, <4>1, <2>4
    <3> QED BY <3>2, <3>3
  <2>6. \/ \A k \in 0..(n_streams - 1) : Going(search'[k])
        \/ \A k \in 0..(n_streams - 1) : Going(search'[k]) <=> k > i'
    <3>1. CASE i = 0
      BY <3>1, <2>5
    <3>2. CASE i # 0
      BY <3>2, <2>5, <1>1, <1>2, Numbers DEF Turn
    <3> QED BY <3>1, <3>2
  <2> QED BY <1>1, <2>3, <2>6 DEF StateMachine, input, Going
<1> QED BY <1>1, <1>4, <1>6, <1>7, <1>8, <1>9 DEF input

\* The next frame, which is searching, runs; it takes the key if that ends it.
LEMMA RunFrameStep == ASSUME IInv, RunFrame PROVE IInv'
<1> USE DEF IInv
<1> DEFINE f == Run(search[i])
           g == IF Going(f) THEN f ELSE Begin(lookups[next])
<1>1. /\ algo = "sm" /\ next \in Keys
      /\ mode = "cycling" \/ (mode = "looking" /\ Going(search[i]))
      /\ search' = [search EXCEPT ![i] = g]
      /\ IF Going(f) THEN mode' = "cycling" /\ next' = next /\ found' = found
         ELSE mode' = "looking" /\ next' = next + 1 /\ found' = Counted(f)
      /\ Turn
      /\ UNCHANGED <<input, results, more_work, coroVars>>
  BY DEF RunFrame
<1>2. i \in 0..(n_streams - 1) /\ i \in 0..NKeys
  <2> HIDE DEF f, g
  <2>1. mode \in {"looking", "cycling"}
    BY <1>1
  <2>2. i < n_streams
    BY <2>1 DEF Modes
  <2> QED BY <2>2, Numbers
<1>3. \A k \in 0..(n_streams - 1) : Going(search[k])
  BY <1>1, <1>2, Numbers DEF StateMachine
<1>4. f \in Frame /\ Sound(f)
  BY <1>2, <1>3, RunIsSound DEF FramesSound, TypeOK
<1>5. g \in Frame /\ Going(g) /\ Sound(g)
  BY <1>1, <1>4, Numbers, BeginIsSound DEF TypeOK
<1>6. search' \in [0..NKeys -> Frame] /\ FramesSound' /\ search'[i] = g
  <2> HIDE DEF g
  <2> QED BY <1>1, <1>2, <1>5, FrameStep DEF TypeOK, input
<1>7. i' \in 0..(n_streams - 1) /\ next' \in 1..(NKeys + 1)
  BY <1>1, <1>2, Numbers DEF Turn, Keys
<1>8. Open' = Open
  <2> HIDE DEF g
  <2> QED BY <1>1, <1>2, <1>3, <1>5, <1>6 DEF Open, TypeOK
<1>9. \A k \in 0..(n_streams - 1) : Going(search'[k])
  <2> HIDE DEF g
  <2> TAKE k \in 0..(n_streams - 1)
  <2>1. k \in 0..NKeys
    BY Numbers
  <2>2. k # i => search'[k] = search[k]
    BY <2>1, <1>1 DEF TypeOK
  <2> QED BY <2>2, <1>3, <1>5, <1>6
<1>10. found' \in Nat /\ found' + Cardinality(Open') <= next' - 1
  BY <1>1, <1>8, Countable, Numbers DEF StateMachine, Counted
<1> HIDE DEF f, g
<1>11. TypeOK'
  <2>1. found' \in 0..NKeys
    BY <1>7, <1>8, <1>10, Countable, Numbers
  <2>2. mode' \in {"looking", "cycling"}
    BY <1>1
  <2>3. i' \in 0..n_streams /\ results' \in Seq(0..NKeys) /\ more_work' \in BOOLEAN
    <3>1. i' \in 0..n_streams
      BY <1>7, Numbers
    <3> QED BY <3>1, <1>1, Zenon DEF TypeOK
  <2> QED BY <1>1, <1>6, <1>7, <2>1, <2>2, <2>3, SmTypes
<1>12. Heap' /\ FramesRecycled' /\ Alive' = Alive
  BY <1>1, HeapKept DEF coroVars, input
<1>13. Modes'
  <2>1. /\ algo' = "sm" /\ mode' \in {"looking", "cycling"} /\ running' = running
        /\ i' < n_streams' /\ n_streams' = n_streams
    BY <1>1, <1>7, Numbers DEF input, coroVars
  <2> QED BY <1>1, <2>1, <1>12 DEF Modes
<1>14. StateMachine'
  BY <1>1, <1>9, <1>10 DEF StateMachine, input, Going
<1> QED BY <1>1, <1>6, <1>11, <1>12, <1>13, <1>14 DEF input

\* The keys are used up.
LEMMA BeginSweepStep == ASSUME IInv, BeginSweep PROVE IInv'
<1> USE DEF IInv
<1>1. /\ algo = "sm" /\ mode' = "sweeping" /\ i' = 0 /\ more_work' = FALSE
      /\ UNCHANGED <<input, next, search, found, results, coroVars>>
  BY DEF BeginSweep
<1>2. TypeOK'
  <2>1. /\ search' \in [0..NKeys -> Frame] /\ next' \in 1..(NKeys + 1)
        /\ found' \in 0..NKeys /\ results' \in Seq(0..NKeys) /\ i' \in 0..n_streams
        /\ more_work' \in BOOLEAN
    <3>1. i' \in 0..n_streams
      BY <1>1, Numbers
    <3> QED BY <3>1, <1>1, Zenon DEF TypeOK
  <2> QED BY <1>1, <2>1, SmTypes
<1>3. Heap' /\ FramesRecycled' /\ Alive' = Alive
  BY <1>1, HeapKept DEF coroVars, input
<1>4. FramesSound'
  BY <1>1 DEF FramesSound, Sound, Dataset, input
<1>5. Modes'
  BY <1>1, <1>3 DEF Modes, input, coroVars
<1>6. StateMachine'
  BY <1>1 DEF StateMachine, Open, input
<1> QED BY <1>1, <1>2, <1>3, <1>4, <1>5, <1>6 DEF input

\* A frame of the sweep is idle, goes on, or ends.
LEMMA SweepStep == ASSUME IInv, Sweep PROVE IInv'
<1> USE DEF IInv
<1>1. /\ mode = "sweeping" /\ mode' = "sweeping" /\ i < n_streams /\ i' = i + 1
      /\ UNCHANGED <<input, next, results, coroVars>>
  BY DEF Sweep
<1>2. algo = "sm" /\ i \in 0..NKeys /\ i' \in 0..n_streams
  BY <1>1, Numbers, SMTT(30) DEF Modes, TypeOK
<1>3. Heap' /\ FramesRecycled' /\ Alive' = Alive
  BY <1>1, HeapKept DEF coroVars, input
<1>4. Modes'
  BY <1>1, <1>2, <1>3 DEF Modes, input, coroVars
<1>5. /\ search' \in [0..NKeys -> Frame] /\ FramesSound' /\ more_work' \in BOOLEAN
      /\ found' \in Nat /\ found' + Cardinality(Open') <= next - 1
      /\ Cardinality(Open') \in Nat
  <2>1. CASE ~Going(search[i])
    <3>1. UNCHANGED <<more_work, search, found>>
      BY <2>1 DEF Sweep
    <3>2. FramesSound' /\ Open' = Open
      BY <3>1, <1>1 DEF FramesSound, Sound, Dataset, Open, input
    <3> QED BY <3>1, <3>2, <1>2, Countable, Numbers DEF TypeOK, StateMachine
  <2>2. CASE Going(search[i])
    <3> DEFINE f == Run(search[i])
    <3>1. more_work' = TRUE /\ search' = [search EXCEPT ![i] = f] /\ found' = Counted(f)
      BY <2>2 DEF Sweep
    <3>2. f \in Frame /\ Sound(f)
      BY <1>2, <2>2, RunIsSound DEF FramesSound, TypeOK
    <3> HIDE DEF f
    <3>3. search' \in [0..NKeys -> Frame] /\ FramesSound' /\ search'[i] = f
      BY <1>1, <1>2, <3>1, <3>2, FrameStep DEF TypeOK, input
    <3>4. CASE Going(f)
      <4>1. Open' = Open
        BY <2>2, <3>1, <3>3, <3>4, <1>2 DEF Open, TypeOK
      <4>2. found' = found
        BY <3>1, <3>4 DEF Counted, Going
      <4> QED BY <3>1, <3>3, <4>1, <4>2, <1>2, Countable, Numbers DEF StateMachine
    <3>5. CASE ~Going(f)
      <4>1. Open' = Open \ {i} /\ i \in Open
        BY <2>2, <3>1, <3>3, <3>5, <1>2 DEF Open, TypeOK
      <4>2. found' \in Nat /\ found' <= found + 1
        BY <3>1, Numbers DEF Counted
      <4>3. Cardinality(Open \ {i}) = Cardinality(Open) - 1 /\ Cardinality(Open') \in Nat
        BY <4>1, OneLess, Countable, FS_CardinalityType
      <4>4. found + Cardinality(Open) <= next - 1
        BY <1>2 DEF StateMachine
      <4>5. found' + Cardinality(Open') <= next - 1
        BY <4>1, <4>2, <4>3, <4>4, Countable, Numbers
      <4> QED BY <3>1, <3>3, <4>2, <4>3, <4>5
    <3> QED BY <3>4, <3>5
  <2> QED BY <2>1, <2>2
<1>6. TypeOK'
  <2>1. found' \in 0..NKeys
    <3>1. next \in 1..(NKeys + 1)
      BY DEF TypeOK
    <3> QED BY <3>1, <1>5, Numbers, SMTT(30)
  <2>2. next' \in 1..(NKeys + 1) /\ results' \in Seq(0..NKeys)
    BY <1>1 DEF TypeOK
  <2> QED BY <1>1, <1>2, <1>5, <2>1, <2>2, SmTypes
<1>7. StateMachine'
  BY <1>1, <1>5 DEF StateMachine
<1> QED BY <1>1, <1>2, <1>3, <1>4, <1>5, <1>6, <1>7 DEF input

\* The end of a sweep, and of the multi lookup when none was open.
LEMMA EndSweepStep == ASSUME IInv, EndSweep PROVE IInv'
<1> USE DEF IInv
<1>1. /\ mode = "sweeping" /\ mode' \in {"sweeping", "done"} /\ i' = 0
      /\ more_work' = FALSE
      /\ results' = results \/ results' = Append(results, found)
      /\ UNCHANGED <<input, next, search, found, coroVars>>
  BY DEF EndSweep
<1>2. algo = "sm"
  BY <1>1 DEF Modes, TypeOK
<1>3. results' \in Seq(0..NKeys)
  <2>1. results \in Seq(0..NKeys) /\ found \in 0..NKeys
    BY DEF TypeOK
  <2>2. Append(results, found) \in Seq(0..NKeys)
    BY <2>1
  <2> QED BY <1>1, <2>1, <2>2
<1>4. TypeOK'
  <2>1. /\ search' \in [0..NKeys -> Frame] /\ next' \in 1..(NKeys + 1)
        /\ found' \in 0..NKeys /\ i' \in 0..n_streams /\ more_work' \in BOOLEAN
    <3>1. i' \in 0..n_streams
      BY <1>1, Numbers
    <3> QED BY <3>1, <1>1, Zenon DEF TypeOK
  <2> QED BY <1>1, <1>3, <2>1, SmTypes
<1>5. Heap' /\ FramesRecycled' /\ Alive' = Alive
  BY <1>1, HeapKept DEF coroVars, input
<1>6. FramesSound'
  BY <1>1 DEF FramesSound, Sound, Dataset, input
<1>7. Modes'
  <2>1. i' < n_streams'
    BY <1>1, Numbers DEF input
  <2> QED BY <2>1, <1>1, <1>2, <1>5 DEF Modes, input, coroVars
<1>8. StateMachine'
  BY <1>1, <1>2 DEF StateMachine, Open, input
<1> QED BY <1>1, <1>2, <1>4, <1>5, <1>6, <1>7, <1>8 DEF input

-----------------------------------------------------------------------------
(***************************************************************************)
(* tcalloc.                                                                *)
(***************************************************************************)

\* alloc gives c a block that nobody has; if it takes a new one, no block was
\* free, so all of them belonged to coroutines alive.
LEMMA Allocated ==
    ASSUME TypeOK, Heap, FramesRecycled, NEW c \in Keys, c \notin Alive, alloc(c),
           n_streams' = n_streams, Cardinality(Alive) <= n_streams
    PROVE  /\ Heap' /\ FramesRecycled' /\ Alive' = Alive \cup {c}
           /\ Cardinality(Alive') = Cardinality(Alive) + 1
           /\ root' \in Seq(Nat) /\ block' \in [Keys -> Nat] /\ alloc_count' \in Nat
<1>1. /\ root \in Seq(Nat) /\ block \in [Keys -> Nat] /\ alloc_count \in Nat
      /\ n_streams \in Nat
  BY Numbers DEF TypeOK
<1>2. IsFiniteSet(Alive) /\ Cardinality(Alive) \in Nat
  BY Countable
<1>3. block[c] = 0
  BY DEF Alive
<1>4. Cardinality(Alive \cup {c}) = Cardinality(Alive) + 1
  BY <1>2, OneMore
<1>5. CASE root # <<>>
  <2> DEFINE b == Head(root)
  <2>1. /\ block' = [block EXCEPT ![c] = b] /\ root' = Tail(root)
        /\ alloc_count' = alloc_count
    BY <1>5 DEF alloc
  <2>2. b = root[1] /\ 1 \in DOMAIN root /\ Len(root) \in Nat /\ Len(root) > 0
    BY <1>1, <1>5
  <2>3. b \in 1..alloc_count /\ b \in Nat
    BY <2>2, <1>1 DEF Heap
  <2>4. /\ root' \in Seq(Nat) /\ Len(root') = Len(root) - 1
        /\ \A k \in DOMAIN root' : k + 1 \in DOMAIN root /\ k + 1 # 1 /\ k \in Nat
        /\ \A k \in DOMAIN root' : root'[k] = root[k + 1]
    BY <1>1, <1>5, <2>1, <2>2
  <2> HIDE DEF b
  <2>5. /\ block' \in [Keys -> Nat] /\ block'[c] = b
        /\ \A d \in Keys : d # c => block'[d] = block[d]
    BY <1>1, <2>1, <2>3
  <2>6. Alive' = Alive \cup {c}
    BY <2>3, <2>5, <1>1 DEF Alive
  <2>7. Heap'
    <3>1. \A d \in Keys : block'[d] \in 0..alloc_count
      BY <2>3, <2>5, <1>1, SMTT(30) DEF Heap
    <3>2. \A k \in DOMAIN root' : root'[k] \in 1..alloc_count
      BY <2>4 DEF Heap
    <3>3. \A j, k \in DOMAIN root' : root'[j] = root'[k] => j = k
      BY <2>4 DEF Heap
    <3>4. Len(root') + Cardinality(Alive') = alloc_count
      BY <2>2, <2>4, <2>6, <1>2, <1>4 DEF Heap
    <3> QED BY <2>1, <3>1, <3>2, <3>3, <3>4 DEF Heap
  <2>8. FramesRecycled'
    <3>1. \A d \in Keys : d # c => block'[d] # b
      BY <2>2, <2>5 DEF FramesRecycled, b
    <3>2. \A d, e \in Keys : block'[d] = block'[e] /\ block'[d] # 0 => d = e
      BY <2>5, <3>1 DEF FramesRecycled
    <3>3. \A k \in DOMAIN root' : \A d \in Keys : root'[k] # block'[d]
      <4> TAKE k \in DOMAIN root'
      <4> TAKE d \in Keys
      <4>1. CASE d = c
        BY <4>1, <2>2, <2>4, <2>5 DEF Heap
      <4>2. CASE d # c
        <5>1. root'[k] = root[k + 1] /\ k + 1 \in DOMAIN root /\ block'[d] = block[d]
          BY <4>2, <2>4, <2>5
        <5> QED BY <5>1 DEF FramesRecycled
      <4> QED BY <4>1, <4>2
    <3> QED BY <3>2, <3>3, <2>1 DEF FramesRecycled
  <2> QED BY <1>1, <1>4, <2>1, <2>4, <2>5, <2>6, <2>7, <2>8
<1>6. CASE root = <<>>
  <2> DEFINE b == alloc_count + 1
  <2>1. /\ block' = [block EXCEPT ![c] = b] /\ root' = root
        /\ alloc_count' = b
    BY <1>6 DEF alloc
  <2>2. b \in Nat /\ b > alloc_count /\ b > 0
    BY <1>1
  <2>3. Len(root) = 0 /\ DOMAIN root = {} /\ alloc_count = Cardinality(Alive)
    BY <1>2, <1>6 DEF Heap
  <2>4. b <= n_streams + 1
    BY <2>3, <1>1, <1>2
  <2>5. /\ block' \in [Keys -> Nat] /\ block'[c] = b
        /\ \A d \in Keys : d # c => block'[d] = block[d]
    BY <1>1, <2>1, <2>2
  <2>6. Alive' = Alive \cup {c}
    BY <2>2, <2>5, <1>1 DEF Alive
  <2>7. \A d \in Keys : block[d] \in Nat /\ block[d] <= alloc_count
    BY <1>1 DEF Heap
  <2>8. Len(root') + Cardinality(Alive') = b
    BY <2>1, <2>3, <2>6, <1>2, <1>4
  <2> HIDE DEF b
  <2>9. Heap'
    <3>1. \A d \in Keys : block'[d] \in 0..b
      BY <2>2, <2>5, <2>7, <1>1, SMTT(30)
    <3> QED BY <2>1, <2>3, <2>8, <3>1 DEF Heap
  <2>10. FramesRecycled'
    <3>1. \A d, e \in Keys : block'[d] = block'[e] /\ block'[d] # 0 => d = e
      BY <2>2, <2>5, <2>7, <1>1 DEF FramesRecycled
    <3> QED BY <2>1, <2>3, <2>4, <3>1 DEF FramesRecycled
  <2> QED BY <1>1, <1>4, <2>1, <2>2, <2>5, <2>6, <2>9, <2>10
<1> QED BY <1>5, <1>6

\* free puts the block of c, which no one else has, in front of the free list.
LEMMA Freed ==
    ASSUME TypeOK, Heap, FramesRecycled, NEW c \in Alive, free(c),
           n_streams' = n_streams
    PROVE  /\ Heap' /\ FramesRecycled' /\ Alive' = Alive \ {c}
           /\ Cardinality(Alive') = Cardinality(Alive) - 1
           /\ root' \in Seq(Nat) /\ block' \in [Keys -> Nat] /\ alloc_count' \in Nat
<1>1. root \in Seq(Nat) /\ block \in [Keys -> Nat] /\ alloc_count \in Nat
  BY DEF TypeOK
<1>2. c \in Keys /\ block[c] # 0
  BY DEF Alive
<1>3. Cardinality(Alive \ {c}) = Cardinality(Alive) - 1 /\ Cardinality(Alive) \in Nat
  BY Countable, OneLess
<1> DEFINE b == block[c]
<1>4. b \in 1..alloc_count /\ b \in Nat
  BY <1>1, <1>2 DEF Heap
<1>5. /\ root' = <<b>> \o root /\ block' = [block EXCEPT ![c] = 0]
      /\ alloc_count' = alloc_count
  BY DEF free
<1> HIDE DEF b
<1>6. /\ root' \in Seq(Nat) /\ Len(root') = Len(root) + 1 /\ Len(root) \in Nat
      /\ root'[1] = b
      /\ \A k \in DOMAIN root' : k # 1 => /\ k \in Nat /\ k - 1 \in DOMAIN root
                                          /\ root'[k] = root[k - 1]
  BY <1>1, <1>4, <1>5
<1>7. /\ block' \in [Keys -> Nat] /\ block'[c] = 0
      /\ \A d \in Keys : d # c => block'[d] = block[d]
  BY <1>1, <1>2, <1>5
<1>8. Alive' = Alive \ {c}
  BY <1>2, <1>7 DEF Alive
<1>9. \A k \in DOMAIN root : root[k] # b
  BY <1>2 DEF FramesRecycled, b
<1>10. Heap'
  <2>1. \A d \in Keys : block'[d] \in 0..alloc_count
    BY <1>1, <1>7, SMTT(30) DEF Heap
  <2>2. \A k \in DOMAIN root' : root'[k] \in 1..alloc_count
    BY <1>4, <1>6 DEF Heap
  <2>3. \A j, k \in DOMAIN root' : root'[j] = root'[k] => j = k
    <3> TAKE j, k \in DOMAIN root'
    <3>1. CASE j = 1 \/ k = 1
      BY <3>1, <1>6, <1>9
    <3>2. CASE j # 1 /\ k # 1
      <4>1. root[j - 1] = root[k - 1] => j - 1 = k - 1
        BY <3>2, <1>6 DEF Heap
      <4> QED BY <3>2, <4>1, <1>6
    <3> QED BY <3>1, <3>2
  <2>4. Len(root') + Cardinality(Alive') = alloc_count
    BY <1>3, <1>6, <1>8 DEF Heap
  <2> QED BY <1>5, <2>1, <2>2, <2>3, <2>4 DEF Heap
<1>11. FramesRecycled'
  <2>1. \A d, e \in Keys : block'[d] = block'[e] /\ block'[d] # 0 => d = e
    BY <1>7 DEF FramesRecycled
  <2>2. \A k \in DOMAIN root' : \A d \in Keys : root'[k] # block'[d]
    <3> TAKE k \in DOMAIN root'
    <3> TAKE d \in Keys
    <3>1. root'[k] # 0
      BY <1>10, <1>5, <1>1 DEF Heap
    <3>2. CASE k = 1
      <4>1. d # c => block[d] # b
        BY <1>2 DEF FramesRecycled, b
      <4> QED BY <3>1, <3>2, <4>1, <1>6, <1>7
    <3>3. CASE k # 1
      BY <3>1, <3>3, <1>6, <1>7 DEF FramesRecycled
    <3> QED BY <3>2, <3>3
  <2> QED BY <1>5, <2>1, <2>2 DEF FramesRecycled
<1> QED BY <1>1, <1>3, <1>5, <1>6, <1>7, <1>8, <1>10, <1>11

-----------------------------------------------------------------------------
(***************************************************************************)
(* coro_multi_lookup.                                                      *)
(***************************************************************************)

\* What coro_multi_lookup changes keeps its type.
LEMMA CoroTypes ==
    ASSUME TypeOK, UNCHANGED <<input, smVars>>,
           mode' \in {"looking", "making_room", "running", "done"},
           next' \in 1..(NKeys + 1), search' \in [0..NKeys -> Frame],
           found' \in 0..NKeys, not_found' \in 0..NKeys, results' \in Seq(0..NKeys),
           arr' \in [Slots -> 0..NKeys], head' \in Slots, tail' \in Slots,
           limit' \in 0..n_streams, running' \in 0..NKeys,
           root' \in Seq(Nat), block' \in [Keys -> Nat], alloc_count' \in Nat
    PROVE  TypeOK'
<1>1. UNCHANGED <<algo, count, lookups, n_streams, i, more_work>>
  BY DEF input, smVars
<1>2. mode' \in {"looking", "cycling", "sweeping", "making_room", "running", "done"}
  OBVIOUS
<1> QED BY <1>1, <1>2, Zenon DEF TypeOK, Slots

\* What holds of the coroutines before any of their steps.
LEMMA CoroFacts ==
    ASSUME IInv, algo = "coro"
    PROVE  /\ head \in Slots /\ tail \in Slots /\ Size(head, tail) \in Nat
           /\ Size(head, tail) = 0 <=> head = tail
           /\ Cardinality(Alive) \in Nat /\ Alive \subseteq Keys
           /\ Occ(head, tail) \subseteq Slots
           /\ \A c \in Keys : c \in 0..NKeys /\ c # 0
           /\ arr \in [Slots -> 0..NKeys]
           /\ next \in 1..(NKeys + 1) /\ running \in 0..NKeys
           /\ mode = "making_room" => next <= NKeys
<1>1. head \in Slots /\ tail \in Slots /\ arr \in [Slots -> 0..NKeys]
  BY DEF IInv, TypeOK, Slots
<1>2. QueueDepth \in Nat \ {0} /\ NKeys \in Nat
  BY Numbers DEF IInv
<1>3. Alive \subseteq Keys
  BY DEF Alive
<1>4. \A c \in Keys : c \in 0..NKeys /\ c # 0
  BY <1>2 DEF Keys
<1>5. next \in 1..(NKeys + 1) /\ running \in 0..NKeys
  BY DEF IInv, TypeOK
<1>6. mode = "making_room" => next <= NKeys
  <2> SUFFICES ASSUME mode = "making_room" PROVE next <= NKeys
    OBVIOUS
  <2>1. next \in Keys
    BY DEF IInv, Modes
  <2>2. next \in 1..NKeys
    BY <2>1 DEF Keys
  <2> QED BY ONLY <2>2, <1>2
<1> QED BY <1>1, <1>2, <1>3, <1>4, <1>5, <1>6, RingSize, Countable

\* The types of what most steps leave alone.
LEMMA CoroKept ==
    ASSUME TypeOK
    PROVE  /\ search \in [0..NKeys -> Frame] /\ results \in Seq(0..NKeys)
           /\ arr \in [Slots -> 0..NKeys] /\ head \in Slots /\ tail \in Slots
           /\ root \in Seq(Nat) /\ block \in [Keys -> Nat] /\ alloc_count \in Nat
           /\ found \in 0..NKeys /\ not_found \in 0..NKeys /\ limit \in 0..n_streams
           /\ next \in 1..(NKeys + 1) /\ running \in 0..NKeys
BY Zenon DEF TypeOK, Slots

\* A coroutine is created; it is queued, or the oldest one is resumed first.
LEMMA SpawnStep == ASSUME IInv, Spawn PROVE IInv'
<1>1. /\ algo = "coro" /\ mode = "looking" /\ next \in Keys /\ alloc(next)
      /\ search' = [search EXCEPT ![next] = Empty(lookups[next])]
      /\ UNCHANGED <<input, found, not_found, results, smVars>>
  BY DEF Spawn
<1>2. TypeOK /\ FramesSound /\ Modes /\ StateMachine /\ Counts /\ Places /\ Heap
      /\ FramesRecycled
  BY <1>1 DEF IInv
<1> DEFINE n == Cardinality(Alive)
<1>3. running = 0 /\ next \notin Alive /\ n \in Nat
  BY <1>1, <1>2, CoroFacts, Numbers DEF Places
<1>4. /\ found + not_found + n = next - 1 /\ limit + n = n_streams
      /\ Size(head, tail) = n
  <2>1. InSpawn = 0 /\ InHand = 0
    BY <1>1, <1>3 DEF InSpawn, InHand
  <2> QED BY <2>1, <1>1, <1>2, CoroFacts, Numbers DEF Counts, IInv
<1>5. /\ Heap' /\ FramesRecycled' /\ Alive' = Alive \cup {next}
      /\ Cardinality(Alive') = n + 1
      /\ root' \in Seq(Nat) /\ block' \in [Keys -> Nat] /\ alloc_count' \in Nat
  <2>1. n_streams' = n_streams /\ Cardinality(Alive) <= n_streams
    BY <1>1, <1>2, <1>3, <1>4, Numbers DEF input
  <2> QED BY <2>1, <1>1, <1>2, <1>3, Allocated
<1> DEFINE g == Empty(lookups[next])
<1>6. g \in Frame /\ Sound(g) /\ g.state = "EMPTY"
  BY <1>1, <1>2, Numbers, NewFrame
<1> HIDE DEF g
<1>7. /\ search' \in [0..NKeys -> Frame] /\ FramesSound' /\ search'[next] = g
      /\ \A c \in Alive : search'[c] = search[c]
  <2>1. next \in 0..NKeys /\ Alive \subseteq 0..NKeys
    BY <1>1, CoroFacts DEF IInv
  <2>2. search' \in [0..NKeys -> Frame] /\ FramesSound' /\ search'[next] = g
    BY <2>1, <1>1, <1>2, <1>6, FrameStep DEF TypeOK, input, g
  <2> QED BY <2>1, <2>2, <1>1, <1>2, <1>3 DEF TypeOK
<1>8. \A c \in Alive' : search'[c].state \in {"EMPTY", "KEEP_GOING"}
  BY <1>2, <1>5, <1>6, <1>7 DEF Places
<1>9. /\ arr \in [Slots -> 0..NKeys] /\ head \in Slots /\ tail \in Slots
      /\ Occ(head, tail) \subseteq Slots
      /\ \A c \in Alive : c \in 0..NKeys /\ c # 0 /\ c < next
      /\ next \in 0..NKeys /\ next # 0 /\ next + 1 \in 1..(NKeys + 1)
  BY <1>1, <1>2, CoroFacts, Numbers DEF Keys, Places
<1>10. CASE limit = 0
  <2>1. /\ mode' = "making_room" /\ running' = arr[tail] /\ tail' = Succ(tail)
        /\ UNCHANGED <<arr, head, limit, next>>
    BY <1>10 DEF Spawn
  <2>2. Size(head, tail) # 0
    BY <1>10, <1>2, <1>3, <1>4, Numbers
  <2>3. /\ tail \in Occ(head, tail) /\ Occ(head', tail') = Occ(head, tail) \ {tail}
        /\ Size(head', tail') = n - 1
    BY <2>1, <2>2, <1>2, <1>4, <1>9, Popped, Numbers
  <2>4. running' \in Alive /\ running' # 0 /\ running' # next
    BY <2>1, <2>3, <1>2, <1>9 DEF Places
  <2>5. TypeOK'
    <3>1. tail' \in Slots /\ running' \in 0..NKeys
      BY <2>1, <2>4, <1>2, <1>9, Wraps, Numbers
    <3> QED BY <3>1, <2>1, <1>1, <1>2, <1>5, <1>7, CoroKept, CoroTypes
  <2>6. Modes'
    BY <1>1, <1>2, <2>1 DEF Modes, input, smVars
  <2>7. Counts'
    <3>1. InSpawn' = 1 /\ InHand' = 1
      BY <2>1, <2>4 DEF InSpawn, InHand
    <3>2. UNCHANGED <<found, not_found, n_streams>>
      BY <1>1 DEF input
    <3>3. found \in Nat /\ not_found \in Nat /\ n_streams \in Nat /\ next \in Nat
      BY <1>2, Numbers
    <3>4. /\ limit' = 0 /\ next' = next /\ mode' = "making_room"
          /\ Size(head', tail') = Cardinality(Alive) - 1
          /\ Cardinality(Alive') = Cardinality(Alive) + 1
          /\ Cardinality(Alive) \in Nat
      BY <1>3, <1>5, <1>10, <2>1, <2>3
    <3> QED BY <3>1, <3>2, <3>3, <3>4, <1>4, <1>10 DEF Counts
  <2>8. Places'
    <3>1. \A c \in Alive' : c < next' \/ (mode' = "making_room" /\ c = next')
      BY <2>1, <1>5, <1>9
    <3>2. \A s \in Occ(head', tail') :
              arr'[s] \in Alive' /\ arr'[s] # running' /\ arr'[s] # next'
      BY <2>1, <2>3, <1>2, <1>5 DEF Places
    <3>3. \A s, t \in Occ(head', tail') : arr'[s] = arr'[t] => s = t
      BY <2>1, <2>3, <1>2 DEF Places
    <3> QED BY <3>1, <3>2, <3>3, <1>5, <1>8, <2>1, <2>4 DEF Places
  <2>9. StateMachine'
    BY <1>1 DEF StateMachine, input
  <2> QED BY <1>5, <1>7, <2>5, <2>6, <2>7, <2>8, <2>9 DEF IInv
<1>11. CASE limit # 0
  <2>1. /\ push_back(next) /\ limit' = limit - 1 /\ next' = next + 1
        /\ UNCHANGED <<mode, running, tail>>
    BY <1>11 DEF Spawn
  <2>2. Size(head, tail) < QueueDepth - 1
    BY <1>11, <1>2, <1>3, <1>4, Numbers
  <2>3. arr' = [arr EXCEPT ![head] = next] /\ head' = Succ(head)
    BY <2>1 DEF push_back
  <2>4. /\ head \notin Occ(head, tail) /\ Occ(head', tail') = Occ(head, tail) \cup {head}
        /\ Size(head', tail') = n + 1
    BY <2>1, <2>2, <2>3, <1>2, <1>4, <1>9, Pushed, Numbers
  <2>5. TypeOK'
    <3>1. head' \in Slots /\ limit' \in 0..n_streams /\ arr' \in [Slots -> 0..NKeys]
      BY <2>1, <2>3, <1>2, <1>3, <1>4, <1>9, <1>11, Wraps, Numbers
    <3>2. mode' = "looking" /\ next' \in 1..(NKeys + 1)
      BY <1>1, <1>9, <2>1
    <3> QED BY <3>1, <3>2, <2>1, <1>1, <1>2, <1>5, <1>7, CoroKept, CoroTypes
  <2>6. Modes'
    BY <1>1, <1>2, <2>1 DEF Modes, input, smVars
  <2>7. Counts'
    <3>1. InSpawn' = 0 /\ InHand' = 0 /\ mode' = "looking"
      BY <1>1, <1>3, <2>1 DEF InSpawn, InHand
    <3>2. UNCHANGED <<found, not_found, n_streams>>
      BY <1>1 DEF input
    <3>3. /\ found \in Nat /\ not_found \in Nat /\ n_streams \in Nat /\ next \in Nat
          /\ limit \in Nat
      BY <1>2, Numbers
    <3> QED BY <3>1, <3>2, <3>3, <1>3, <1>4, <1>5, <2>1, <2>4, SMTT(30) DEF Counts
  <2>8. Places'
    <3>0. \A c \in Alive' : c \in Nat /\ c # 0 /\ c <= next
      BY <1>5, <1>9, <1>2, Numbers, SMTT(30)
    <3>1. \A c \in Alive' : c < next'
      BY <3>0, <2>1, <1>2, Numbers
    <3>2. \A s \in Occ(head, tail) : arr'[s] = arr[s] /\ arr[s] \in Alive
      BY <2>3, <2>4, <1>2, <1>9 DEF Places
    <3>3. arr'[head] = next
      BY <2>3, <1>9
    <3>4. \A s \in Occ(head', tail') : arr'[s] \in Alive'
      BY <3>2, <3>3, <2>4, <1>5
    <3>5. \A c \in Alive' : c # running' /\ c # next'
      BY <3>0, <3>1, <2>1, <1>3, <1>2, Numbers
    <3>6. \A s, t \in Occ(head', tail') : arr'[s] = arr'[t] => s = t
      BY <3>2, <3>3, <2>4, <1>2, <1>3 DEF Places
    <3>7. running' = 0 /\ mode' = "looking"
      BY <1>1, <1>3, <2>1
    <3> QED BY <3>1, <3>4, <3>5, <3>6, <3>7, <1>8 DEF Places
  <2>9. StateMachine'
    BY <1>1 DEF StateMachine, input
  <2> QED BY <1>5, <1>7, <2>5, <2>6, <2>7, <2>8, <2>9 DEF IInv
<1> QED BY <1>10, <1>11

\* What a coroutine that is resumed makes of its search.
LEMMA ResumedIsSound ==
    ASSUME IInv, algo = "coro", NEW c \in Alive
    PROVE  /\ Resumed(c) \in Frame /\ Sound(Resumed(c))
           /\ Resumed(c).state # "EMPTY" /\ c \in Keys /\ c \in 0..NKeys
<1>1. c \in Keys /\ c \in 0..NKeys
  BY CoroFacts
<1>2. /\ search[c] \in Frame /\ Sound(search[c]) /\ count \in 1..MaxCount
      /\ search[c].state \in {"EMPTY", "KEEP_GOING"}
  BY <1>1 DEF IInv, TypeOK, FramesSound, Places
<1>3. CASE search[c].state = "EMPTY"
  <2>1. search[c].val \in Nat
    BY <1>2 DEF Frame
  <2>2. Resumed(c) = Begin(search[c].val)
    BY <1>3 DEF Resumed
  <2> QED BY <1>1, <1>2, <2>1, <2>2, BeginIsSound DEF Going
<1>4. CASE search[c].state = "KEEP_GOING"
  <2>1. Resumed(c) = Run(search[c]) /\ Going(search[c])
    BY <1>4 DEF Resumed, Going
  <2> QED BY <1>1, <1>2, <2>1, RunIsSound
<1> QED BY <1>2, <1>3, <1>4

\* A coroutine queues itself and transfers to the oldest, maybe itself.
LEMMA SuspendStep == ASSUME IInv, Suspend PROVE IInv'
<1> DEFINE r == Resumed(running)
<1>1. /\ running # 0 /\ Going(r)
      /\ search' = [search EXCEPT ![running] = r]
      /\ arr' = [arr EXCEPT ![head] = running] /\ head' = Succ(head)
      /\ running' = arr'[tail] /\ tail' = Succ(tail)
      /\ UNCHANGED <<input, mode, next, found, not_found, results, smVars, limit, heap>>
  BY DEF Suspend, push_back
<1>2. algo = "coro"
  BY <1>1 DEF IInv, Modes, TypeOK
<1>3. /\ TypeOK /\ FramesSound /\ Modes /\ Counts /\ Places /\ Heap /\ FramesRecycled
      /\ mode \in {"looking", "making_room", "running", "done"}
  BY <1>2 DEF IInv, Modes
<1>4. running \in Alive /\ running # next /\ mode \notin {"looking", "done"}
  BY <1>1, <1>3 DEF Places
<1>5. r \in Frame /\ Sound(r) /\ running \in 0..NKeys
  BY <1>2, <1>4, ResumedIsSound
<1> HIDE DEF r
<1>6. /\ search' \in [0..NKeys -> Frame] /\ FramesSound' /\ search'[running] = r
  BY <1>1, <1>3, <1>5, FrameStep DEF TypeOK, input
<1>7. Heap' /\ FramesRecycled' /\ Alive' = Alive
  BY <1>1, <1>3, HeapKept DEF input
<1>8. /\ arr \in [Slots -> 0..NKeys] /\ head \in Slots /\ tail \in Slots
      /\ Size(head, tail) \in Nat /\ Alive \subseteq Keys
      /\ Occ(head, tail) \subseteq Slots
      /\ \A c \in Keys : c \in 0..NKeys /\ c # 0
  BY <1>2, CoroFacts
<1>9. Size(head, tail) < QueueDepth - 1
  <2>1. InHand = 1 /\ InSpawn \in Nat
    BY <1>1 DEF InHand, InSpawn
  <2>2. /\ limit + Cardinality(Alive) = n_streams + InSpawn
        /\ Size(head, tail) + InHand + InSpawn = Cardinality(Alive)
    BY <1>3 DEF Counts
  <2>3. Cardinality(Alive) \in Nat
    BY Countable
  <2> QED BY <2>1, <2>2, <2>3, <1>3, <1>8, Numbers
<1>10. /\ head \notin Occ(head, tail) /\ Occ(head', tail) = Occ(head, tail) \cup {head}
       /\ Size(head', tail) = Size(head, tail) + 1 /\ head' \in Slots
  BY <1>1, <1>3, <1>8, <1>9, Pushed, Wraps, Numbers
<1>11. /\ tail \in Occ(head', tail) /\ Occ(head', tail') = Occ(head', tail) \ {tail}
       /\ Size(head', tail') = Size(head, tail) /\ tail' \in Slots
  <2>1. Size(head', tail) # 0 /\ Size(head', tail) - 1 = Size(head, tail)
    BY <1>8, <1>10
  <2> QED BY <2>1, <1>1, <1>3, <1>8, <1>10, Popped, Wraps, Numbers
<1>12. \A s \in Occ(head, tail) : arr'[s] = arr[s]
  BY <1>1, <1>8, <1>10
<1>13. arr'[head] = running /\ arr' \in [Slots -> 0..NKeys]
  BY <1>1, <1>5, <1>8
<1>14. \A s \in Occ(head', tail) : arr'[s] \in Alive /\ arr'[s] # next
  BY <1>3, <1>4, <1>10, <1>12, <1>13 DEF Places
<1>15. \A s, t \in Occ(head', tail) : arr'[s] = arr'[t] => s = t
  BY <1>3, <1>10, <1>12, <1>13 DEF Places
<1>16. running' \in Alive /\ running' # 0 /\ running' # next /\ running' \in 0..NKeys
  BY <1>1, <1>8, <1>11, <1>14
<1>17. TypeOK'
  <2>1. UNCHANGED <<mode, next, found, not_found, results, limit, root, block, alloc_count>>
    BY <1>1 DEF heap
  <2> QED BY <2>1, <1>1, <1>3, <1>6, <1>10, <1>11, <1>13, <1>16, CoroKept, CoroTypes
<1>18. Modes'
  BY <1>1, <1>2, <1>3 DEF Modes, input, smVars
<1>19. Counts'
  <2>1. InSpawn' = InSpawn /\ InHand' = InHand
    BY <1>1, <1>16 DEF InSpawn, InHand
  <2> QED BY <2>1, <1>1, <1>3, <1>7, <1>11 DEF Counts, input
<1>20. Places'
  <2>1. \A c \in Alive : search'[c].state \in {"EMPTY", "KEEP_GOING"}
    <3> TAKE c \in Alive
    <3>1. CASE c = running
      BY <3>1, <1>1, <1>6 DEF Going
    <3>2. CASE c # running
      <4>1. search'[c] = search[c]
        BY <3>2, <1>1, <1>3, <1>8 DEF TypeOK
      <4> QED BY <4>1, <1>3 DEF Places
    <3> QED BY <3>1, <3>2
  <2>2. \A s \in Occ(head', tail') :
            arr'[s] \in Alive /\ arr'[s] # running' /\ arr'[s] # next
    BY <1>1, <1>11, <1>14, <1>15
  <2>3. \A s, t \in Occ(head', tail') : arr'[s] = arr'[t] => s = t
    BY <1>11, <1>15
  <2>4. UNCHANGED <<mode, next>>
    BY <1>1
  <2> QED BY <2>1, <2>2, <2>3, <2>4, <1>3, <1>4, <1>7, <1>16 DEF Places
<1>21. StateMachine'
  BY <1>1, <1>2 DEF StateMachine, input
<1> QED BY <1>6, <1>7, <1>17, <1>18, <1>19, <1>20, <1>21 DEF IInv

\* A coroutine ends: it is counted, its frame freed, and the limit goes up.
LEMMA CompleteStep == ASSUME IInv, Complete PROVE IInv'
<1> DEFINE r == Resumed(running)
<1>1. /\ running # 0 /\ ~Going(r)
      /\ search' = [search EXCEPT ![running] = r]
      /\ found' = Counted(r) /\ not_found' = not_found + 1 - (found' - found)
      /\ limit' = limit + 1 /\ free(running) /\ running' = 0
      /\ UNCHANGED <<input, mode, next, results, smVars, arr, head, tail>>
  BY DEF Complete
<1>2. algo = "coro"
  BY <1>1 DEF IInv, Modes, TypeOK
<1>3. /\ TypeOK /\ FramesSound /\ Modes /\ Counts /\ Places /\ Heap /\ FramesRecycled
      /\ mode \in {"looking", "making_room", "running", "done"}
  BY <1>2 DEF IInv, Modes
<1>4. running \in Alive /\ running # next /\ mode \notin {"looking", "done"}
  BY <1>1, <1>3 DEF Places
<1>5. r \in Frame /\ Sound(r) /\ running \in 0..NKeys
  BY <1>2, <1>4, ResumedIsSound
<1>6. found' \in {found, found + 1}
  BY <1>1 DEF Counted
<1> HIDE DEF r
<1>7. search' \in [0..NKeys -> Frame] /\ FramesSound'
  BY <1>1, <1>3, <1>5, FrameStep DEF TypeOK, input
<1>8. /\ Heap' /\ FramesRecycled' /\ Alive' = Alive \ {running}
      /\ Cardinality(Alive') = Cardinality(Alive) - 1
      /\ root' \in Seq(Nat) /\ block' \in [Keys -> Nat] /\ alloc_count' \in Nat
  BY <1>1, <1>3, <1>4, Freed DEF input
<1>9. /\ Size(head, tail) \in Nat /\ Alive \subseteq Keys
      /\ Cardinality(Alive) \in Nat
      /\ \A c \in Keys : c \in 0..NKeys /\ c # 0
      /\ mode = "making_room" => next <= NKeys
  BY <1>2, CoroFacts
<1>10. /\ InHand = 1 /\ InHand' = 0 /\ InSpawn' = InSpawn /\ InSpawn \in {0, 1}
       /\ InSpawn = 1 => next <= NKeys
  BY <1>1, <1>9 DEF InHand, InSpawn
<1>11. /\ found + not_found + Cardinality(Alive) = next - 1 + InSpawn
       /\ limit + Cardinality(Alive) = n_streams + InSpawn
       /\ Size(head, tail) + 1 + InSpawn = Cardinality(Alive)
  BY <1>3, <1>4, <1>10 DEF Counts
<1>12. /\ found \in Nat /\ not_found \in Nat /\ limit \in Nat /\ next \in 1..(NKeys + 1)
       /\ NKeys \in Nat /\ n_streams \in Nat
  BY <1>3, Numbers DEF TypeOK
<1>13. /\ found' \in 0..NKeys /\ not_found' \in 0..NKeys /\ limit' \in 0..n_streams
       /\ found' + not_found' = found + not_found + 1
  BY <1>1, <1>6, <1>9, <1>10, <1>11, <1>12
<1>14. TypeOK'
  <2>1. running' \in 0..NKeys
    BY <1>1, <1>12
  <2> QED BY <2>1, <1>1, <1>3, <1>7, <1>8, <1>13, CoroKept, CoroTypes
<1>15. Modes'
  BY <1>1, <1>2, <1>3 DEF Modes, input, smVars
<1>16. Counts'
  <2>1. UNCHANGED <<mode, next, head, tail, n_streams>>
    BY <1>1 DEF input
  <2>2. mode = "making_room" => limit = 0
    BY <1>3, <1>10 DEF Counts
  <2>3. mode # "done"
    BY <1>4
  <2>4. /\ found' + not_found' + Cardinality(Alive') = next - 1 + InSpawn
        /\ limit' + Cardinality(Alive') = n_streams + InSpawn
        /\ Size(head, tail) + 0 + InSpawn = Cardinality(Alive')
    <3>1. found' + not_found' + Cardinality(Alive') = next - 1 + InSpawn
      <4>1. found' \in Int /\ not_found' \in Int /\ InSpawn \in Int /\ next \in Int
        BY <1>10, <1>12, <1>13
      <4>2. Cardinality(Alive') = Cardinality(Alive) - 1
        BY <1>8
      <4>3. found' + not_found' = found + not_found + 1
        BY <1>13
      <4>4. found + not_found + Cardinality(Alive) = next - 1 + InSpawn
        BY <1>11
      <4>5. Cardinality(Alive) \in Int /\ found \in Int /\ not_found \in Int
        BY <1>9, <1>12
      <4>6. found + not_found + 1 + (Cardinality(Alive) - 1) = next - 1 + InSpawn
        BY <4>1, <4>4, <4>5
      <4>7. (found' + not_found') + Cardinality(Alive')
              = found + not_found + 1 + (Cardinality(Alive) - 1)
        BY <4>2, <4>3, Zenon
      <4> QED BY <4>6, <4>7, Zenon
    <3>2. limit' + Cardinality(Alive') = n_streams + InSpawn
      BY <1>1, <1>8, <1>9, <1>10, <1>11, <1>12, SMTT(30)
    <3>3. Size(head, tail) + 0 + InSpawn = Cardinality(Alive')
      BY <1>8, <1>9, <1>10, <1>11
    <3> QED BY <3>1, <3>2, <3>3
  <2>5. mode = "making_room" => limit' = 1
    BY <2>2, <1>1
  <2> QED BY <2>1, <2>3, <2>4, <2>5, <1>10 DEF Counts
<1>17. Places'
  <2>1. \A c \in Alive' : search'[c] = search[c]
    BY <1>1, <1>3, <1>8, <1>9 DEF TypeOK
  <2>2. \A s \in Occ(head, tail) : arr[s] \in Alive' /\ arr[s] # 0 /\ arr[s] # next
    BY <1>3, <1>8, <1>9 DEF Places
  <2>3. UNCHANGED <<mode, next, arr, head, tail>>
    BY <1>1
  <2> QED BY <2>1, <2>2, <2>3, <1>1, <1>3, <1>4, <1>8 DEF Places
<1>18. StateMachine'
  BY <1>1, <1>2 DEF StateMachine, input
<1> QED BY <1>7, <1>8, <1>14, <1>15, <1>16, <1>17, <1>18 DEF IInv

\* Room was made for exactly one: the coroutine spawn() was called for.
LEMMA EndSpawnStep == ASSUME IInv, EndSpawn PROVE IInv'
<1>1. /\ mode = "making_room" /\ running = 0
      /\ arr' = [arr EXCEPT ![head] = next] /\ head' = Succ(head)
      /\ limit' = limit - 1 /\ next' = next + 1 /\ mode' = "looking"
      /\ UNCHANGED <<input, search, found, not_found, results, smVars, tail, running,
                     heap>>
  BY DEF EndSpawn, push_back
<1>2. algo = "coro"
  BY <1>1 DEF IInv, Modes, TypeOK
<1>3. TypeOK /\ FramesSound /\ Modes /\ Counts /\ Places /\ Heap /\ FramesRecycled
  BY <1>2 DEF IInv
<1>4. /\ arr \in [Slots -> 0..NKeys] /\ head \in Slots /\ tail \in Slots
      /\ Size(head, tail) \in Nat /\ Alive \subseteq Keys
      /\ Occ(head, tail) \subseteq Slots /\ Cardinality(Alive) \in Nat
      /\ \A c \in Keys : c \in 0..NKeys /\ c # 0
      /\ next \in 1..(NKeys + 1) /\ next <= NKeys
  BY <1>1, <1>2, CoroFacts
<1>5. /\ found \in Nat /\ not_found \in Nat /\ limit \in Nat
      /\ NKeys \in Nat /\ n_streams \in Nat /\ n_streams >= 1 /\ n_streams < QueueDepth
      /\ QueueDepth \in Nat \ {0}
  BY <1>3, Numbers
<1>6. /\ found + not_found + Cardinality(Alive) = next
      /\ limit = 1 /\ Cardinality(Alive) = n_streams
      /\ Size(head, tail) + 1 = Cardinality(Alive)
  <2>1. InSpawn = 1 /\ InHand = 0
    BY <1>1 DEF InSpawn, InHand
  <2> QED BY <2>1, <1>1, <1>3, <1>4, <1>5 DEF Counts
<1>7. Size(head, tail) < QueueDepth - 1
  BY <1>4, <1>5, <1>6
<1>8. /\ head \notin Occ(head, tail) /\ Occ(head', tail') = Occ(head, tail) \cup {head}
      /\ Size(head', tail') = Size(head, tail) + 1 /\ head' \in Slots
  <2>1. tail' = tail
    BY <1>1
  <2> QED BY <2>1, <1>1, <1>4, <1>5, <1>7, Pushed, Wraps
<1>9. Heap' /\ FramesRecycled' /\ Alive' = Alive
  BY <1>1, <1>3, HeapKept DEF input
<1>10. /\ arr' \in [Slots -> 0..NKeys] /\ arr'[head] = next
       /\ \A s \in Occ(head, tail) : arr'[s] = arr[s]
  <2>1. next \in 0..NKeys
    BY <1>4, <1>5
  <2> QED BY <2>1, <1>1, <1>4, <1>8
<1>11. TypeOK'
  <2>1. UNCHANGED <<search, found, not_found, results, tail, running, root, block,
                    alloc_count>>
    BY <1>1 DEF heap
  <2>2. next' \in 1..(NKeys + 1) /\ limit' \in 0..n_streams
    BY <1>1, <1>4, <1>5, <1>6
  <2> QED BY <2>1, <2>2, <1>1, <1>3, <1>8, <1>10, CoroKept, CoroTypes
<1>12. FramesSound'
  BY <1>1, <1>3 DEF FramesSound, Sound, Dataset, input
<1>13. Modes'
  <2>1. i < n_streams
    BY <1>1, <1>3 DEF Modes
  <2> QED BY <2>1, <1>1, <1>2, <1>3 DEF Modes, input, smVars
<1>14. Counts'
  <2>1. /\ InSpawn' = 0 /\ InHand' = 0
        /\ UNCHANGED <<found, not_found, n_streams>>
    BY <1>1 DEF InSpawn, InHand, input
  <2>2. /\ found + not_found + Cardinality(Alive) = next' - 1 + 0
        /\ limit' + Cardinality(Alive) = n_streams + 0
        /\ Size(head', tail') + 0 + 0 = Cardinality(Alive)
    BY <1>1, <1>4, <1>5, <1>6, <1>8
  <2> QED BY <2>1, <2>2, <1>1, <1>9 DEF Counts
<1>15. Places'
  <2>1. next \in Alive /\ \A c \in Alive : c \in Nat /\ c # 0 /\ c <= next
    BY <1>1, <1>3, <1>4, <1>5 DEF Places
  <2>2. \A c \in Alive : c < next' /\ c # next' /\ c # running'
    BY <2>1, <1>1, <1>4
  <2>3. \A s \in Occ(head', tail') : arr'[s] \in Alive
    BY <2>1, <1>3, <1>8, <1>10 DEF Places
  <2>4. \A s, t \in Occ(head', tail') : arr'[s] = arr'[t] => s = t
    BY <1>3, <1>8, <1>10 DEF Places
  <2>5. \A c \in Alive : search'[c].state \in {"EMPTY", "KEEP_GOING"}
    BY <1>1, <1>3 DEF Places
  <2> QED BY <2>2, <2>3, <2>4, <2>5, <1>1, <1>9 DEF Places
<1>16. StateMachine'
  BY <1>1, <1>2 DEF StateMachine, input
<1> QED BY <1>9, <1>11, <1>12, <1>13, <1>14, <1>15, <1>16 DEF IInv

\* The keys are used up.
LEMMA BeginRunStep == ASSUME IInv, BeginRun PROVE IInv'
<1>1. /\ algo = "coro" /\ mode = "looking" /\ next = NKeys + 1 /\ mode' = "running"
      /\ UNCHANGED <<input, next, search, found, results, smVars, coroVars>>
  BY DEF BeginRun
<1>2. TypeOK /\ FramesSound /\ Modes /\ Counts /\ Places /\ Heap /\ FramesRecycled
  BY <1>1 DEF IInv
<1>3. UNCHANGED <<found, not_found, next, search, results, arr, head, tail, limit,
                  running, root, block, alloc_count, n_streams>>
  BY <1>1 DEF coroVars, heap, input
<1>4. TypeOK'
  BY <1>1, <1>2, <1>3, CoroKept, CoroTypes
<1>5. Heap' /\ FramesRecycled' /\ Alive' = Alive
  BY <1>1, <1>2, HeapKept DEF coroVars, input
<1>6. FramesSound'
  BY <1>1, <1>2 DEF FramesSound, Sound, Dataset, input
<1>7. Modes'
  BY <1>1, <1>2 DEF Modes, input, smVars
<1>8. Counts'
  <2>1. InSpawn' = InSpawn /\ InHand' = InHand
    BY <1>1, <1>3 DEF InSpawn, InHand
  <2> QED BY <2>1, <1>1, <1>2, <1>3, <1>5 DEF Counts
<1>9. Places'
  BY <1>1, <1>2, <1>3, <1>5 DEF Places
<1>10. StateMachine'
  BY <1>1 DEF StateMachine, input
<1> QED BY <1>4, <1>5, <1>6, <1>7, <1>8, <1>9, <1>10 DEF IInv

\* scheduler_queue::run resumes the oldest.
LEMMA RunNextStep == ASSUME IInv, RunNext PROVE IInv'
<1>1. /\ mode = "running" /\ running = 0 /\ head # tail /\ running' = arr[tail]
      /\ tail' = Succ(tail)
      /\ UNCHANGED <<input, mode, next, search, found, not_found, results, smVars, arr,
                     head, limit, heap>>
  BY DEF RunNext
<1>2. algo = "coro"
  BY <1>1 DEF IInv, Modes, TypeOK
<1>3. TypeOK /\ FramesSound /\ Modes /\ Counts /\ Places /\ Heap /\ FramesRecycled
  BY <1>2 DEF IInv
<1>4. /\ head \in Slots /\ tail \in Slots /\ Size(head, tail) \in Nat
      /\ Size(head, tail) # 0 /\ Alive \subseteq Keys /\ Cardinality(Alive) \in Nat
      /\ \A c \in Keys : c \in 0..NKeys /\ c # 0
      /\ QueueDepth \in Nat \ {0}
  BY <1>1, <1>2, <1>3, CoroFacts, Numbers
<1>5. /\ tail \in Occ(head, tail) /\ Occ(head', tail') = Occ(head, tail) \ {tail}
      /\ Size(head', tail') = Size(head, tail) - 1 /\ tail' \in Slots
  <2>1. head' = head
    BY <1>1
  <2> QED BY <2>1, <1>1, <1>4, Popped, Wraps
<1>6. /\ running' \in Alive /\ running' # 0 /\ running' # next /\ running' \in 0..NKeys
  BY <1>1, <1>3, <1>4, <1>5 DEF Places
<1>7. UNCHANGED <<mode, next, search, found, not_found, results, arr, head, limit, root,
                  block, alloc_count, n_streams>>
  BY <1>1 DEF heap, input
<1>8. Heap' /\ FramesRecycled' /\ Alive' = Alive
  BY <1>1, <1>3, HeapKept DEF input
<1>9. TypeOK'
  BY <1>1, <1>3, <1>5, <1>6, <1>7, CoroKept, CoroTypes
<1>10. FramesSound'
  BY <1>1, <1>3 DEF FramesSound, Sound, Dataset, input
<1>11. Modes'
  BY <1>1, <1>2, <1>3 DEF Modes, input, smVars
<1>12. Counts'
  <2>1. InSpawn' = 0 /\ InSpawn = 0 /\ InHand' = 1 /\ InHand = 0
    BY <1>1, <1>6 DEF InSpawn, InHand
  <2>2. Size(head, tail) = Cardinality(Alive)
    BY <2>1, <1>3, <1>4 DEF Counts
  <2>3. Size(head', tail') + 1 + 0 = Cardinality(Alive)
    BY <2>2, <1>4, <1>5
  <2> QED BY <2>1, <2>3, <1>1, <1>3, <1>7, <1>8 DEF Counts
<1>13. Places'
  <2>1. \A s \in Occ(head', tail') :
            arr'[s] \in Alive /\ arr'[s] # running' /\ arr'[s] # next
    BY <1>1, <1>3, <1>5, <1>7 DEF Places
  <2>2. \A s, t \in Occ(head', tail') : arr'[s] = arr'[t] => s = t
    BY <1>3, <1>5, <1>7 DEF Places
  <2> QED BY <2>1, <2>2, <1>1, <1>3, <1>6, <1>7, <1>8 DEF Places
<1>14. StateMachine'
  BY <1>1, <1>2 DEF StateMachine, input
<1> QED BY <1>8, <1>9, <1>10, <1>11, <1>12, <1>13, <1>14 DEF IInv

\* The ring is empty, so no coroutine is left.
LEMMA EndRunStep == ASSUME IInv, EndRun PROVE IInv'
<1>1. /\ mode = "running" /\ running = 0 /\ head = tail /\ mode' = "done"
      /\ results' = Append(results, found) /\ found' = 0 /\ not_found' = 0
      /\ UNCHANGED <<input, next, search, smVars, arr, head, tail, limit, running, heap>>
  BY DEF EndRun
<1>2. algo = "coro"
  BY <1>1 DEF IInv, Modes, TypeOK
<1>3. TypeOK /\ FramesSound /\ Modes /\ Counts /\ Places /\ Heap /\ FramesRecycled
  BY <1>2 DEF IInv
<1>4. Size(head, tail) = 0 /\ Cardinality(Alive) \in Nat
  BY <1>1, <1>2, CoroFacts
<1>5. /\ InSpawn = 0 /\ InHand = 0 /\ InSpawn' = 0 /\ InHand' = 0
  BY <1>1 DEF InSpawn, InHand
<1>6. Cardinality(Alive) = 0 /\ Alive = {}
  BY <1>3, <1>4, <1>5, Countable DEF Counts
<1>7. UNCHANGED <<next, search, arr, head, tail, limit, running, root, block,
                  alloc_count, n_streams>>
  BY <1>1 DEF heap, input
<1>8. Heap' /\ FramesRecycled' /\ Alive' = Alive
  BY <1>1, <1>3, HeapKept DEF input
<1>9. TypeOK'
  <2>1. results \in Seq(0..NKeys) /\ found \in 0..NKeys /\ NKeys \in Nat
    BY <1>3, CoroKept, Numbers
  <2>2. Append(results, found) \in Seq(0..NKeys) /\ 0 \in 0..NKeys
    BY <2>1
  <2> QED BY <2>2, <1>1, <1>3, <1>7, CoroKept, CoroTypes
<1>10. FramesSound'
  BY <1>1, <1>3 DEF FramesSound, Sound, Dataset, input
<1>11. Modes'
  BY <1>1, <1>2, <1>3 DEF Modes, input, smVars
<1>12. Counts'
  <2>1. limit + 0 = n_streams + 0 /\ Size(head, tail) + 0 + 0 = 0
    BY <1>3, <1>4, <1>5, <1>6 DEF Counts
  <2> QED BY <2>1, <1>1, <1>5, <1>6, <1>7, <1>8 DEF Counts
<1>13. Places'
  BY <1>1, <1>3, <1>6, <1>7, <1>8 DEF Places
<1>14. StateMachine'
  BY <1>1, <1>2 DEF StateMachine, input
<1> QED BY <1>8, <1>9, <1>10, <1>11, <1>12, <1>13, <1>14 DEF IInv

\* The driver repeats the lookups; the ring and the free list stay.
LEMMA RepeatStep == ASSUME IInv, Repeat PROVE IInv'
<1>1. /\ mode = "done" /\ mode' = "looking" /\ next' = 1
      /\ search' = [k \in 0..NKeys |-> Empty(0)]
      /\ i' = n_streams - 1 /\ limit' = n_streams
      /\ found' = IF algo = "sm" THEN 0 ELSE found
      /\ UNCHANGED <<input, not_found, results, more_work, arr, head, tail, running, heap>>
  BY DEF Repeat
<1>2. TypeOK /\ FramesSound /\ Modes /\ Heap /\ FramesRecycled
  BY DEF IInv
<1>3. /\ NKeys \in Nat /\ n_streams \in Nat /\ n_streams >= 1 /\ found \in Nat
  BY <1>2, Numbers
<1>4. \A k \in 0..NKeys : /\ search'[k] \in Frame /\ Sound(search'[k])
                          /\ ~Going(search'[k])
  BY <1>1, NewFrame
<1>5. search' \in [0..NKeys -> Frame] /\ FramesSound'
  BY <1>1, <1>4, FramesKept, NewFrame DEF input
<1>6. Heap' /\ FramesRecycled' /\ Alive' = Alive
  BY <1>1, <1>2, HeapKept DEF input
<1>7. TypeOK'
  <2>1. /\ next' \in 1..(NKeys + 1) /\ i' \in 0..n_streams /\ limit' \in 0..n_streams
        /\ mode' \in {"looking", "cycling", "sweeping", "making_room", "running", "done"}
    BY <1>1, <1>3
  <2>2. found' \in 0..NKeys
    <3>1. found \in 0..NKeys
      BY <1>2 DEF TypeOK
    <3> QED BY <3>1, <1>1, <1>3
  <2>3. UNCHANGED <<algo, count, lookups, n_streams, not_found, results, more_work, arr,
                    head, tail, running, root, block, alloc_count>>
    BY <1>1 DEF input, heap
  <2> QED BY <2>1, <2>2, <2>3, <1>2, <1>5, Zenon DEF TypeOK
<1>8. Modes'
  <2>1. i' < n_streams'
    BY <1>1, <1>3 DEF input
  <2> QED BY <2>1, <1>1, <1>2, <1>6 DEF Modes, input
<1>9. StateMachine'
  <2> SUFFICES ASSUME algo = "sm" PROVE StateMachine'
    BY <1>1 DEF StateMachine, input
  <2>1. Open' = {}
    BY <1>4 DEF Open, Going
  <2>2. found' + Cardinality(Open') <= next' - 1
    BY <2>1, <1>1, FS_EmptySet
  <2>3. \A k \in 0..(n_streams - 1) : ~Going(search'[k]) /\ ~(k > i')
    BY <1>1, <1>3, <1>4, <1>2, Numbers
  <2> QED BY <2>2, <2>3, <1>1 DEF StateMachine, input, Going
<1>10. ASSUME algo = "coro" PROVE Counts' /\ Places'
  <2>1. Counts /\ Places
    BY <1>10 DEF IInv
  <2>2. InSpawn' = 0 /\ InHand' = 0 /\ InSpawn = 0 /\ InHand = 0 /\ running = 0
    BY <2>1, <1>1 DEF InSpawn, InHand, Places
  <2>3. /\ found = 0 /\ not_found = 0 /\ Cardinality(Alive) = 0 /\ Alive = {}
        /\ Size(head, tail) = 0
    BY <2>1, <2>2, <1>1, <1>10, Countable, CoroFacts DEF Counts
  <2>4. /\ found' = 0 /\ not_found' = 0 /\ head' = head /\ tail' = tail
        /\ running' = 0 /\ arr' = arr /\ n_streams' = n_streams
    BY <1>1, <1>10, <2>2, <2>3 DEF input
  <2>5. Counts'
    BY <2>2, <2>3, <2>4, <1>1, <1>3, <1>6 DEF Counts
  <2>6. Places'
    BY <2>1, <2>3, <2>4, <1>1, <1>6 DEF Places
  <2> QED BY <2>5, <2>6
<1> QED BY <1>1, <1>5, <1>6, <1>7, <1>8, <1>9, <1>10 DEF IInv, input

-----------------------------------------------------------------------------
\* The inductive invariant holds at the start ...
LEMMA InitInv == Init => IInv
<1> SUFFICES ASSUME Init PROVE IInv
  OBVIOUS
<1> USE SearchAssumption DEF Init
<1>1. /\ NKeys \in Nat /\ n_streams \in 1..(NKeys + 1) /\ QueueDepth \in Nat \ {0}
  OBVIOUS
<1>2. search = [k \in 0..NKeys |-> Empty(0)]
  OBVIOUS
<1>3. \A k \in 0..NKeys : search[k] \in Frame /\ Sound(search[k]) /\ ~Going(search[k])
  BY <1>2, NewFrame
<1>4. Open = {} /\ Cardinality(Open) = 0
  BY <1>3, FS_EmptySet DEF Open
<1>5. Alive = {} /\ Cardinality(Alive) = 0
  BY FS_EmptySet DEF Alive
<1>6. TypeOK
  <2>1. search \in [0..NKeys -> Frame]
    BY <1>2, NewFrame
  <2>2. /\ algo \in {"sm", "coro"} /\ count \in 1..MaxCount /\ n_streams \in Streams
        /\ lookups \in [Keys -> 0..(2 * count)]
    BY Zenon
  <2>3. /\ next \in 1..(NKeys + 1) /\ found \in 0..NKeys /\ not_found \in 0..NKeys
        /\ i \in 0..n_streams /\ limit \in 0..n_streams /\ running \in 0..NKeys
        /\ head \in 0..(QueueDepth - 1) /\ tail \in 0..(QueueDepth - 1)
        /\ alloc_count \in Nat /\ root \in Seq(Nat) /\ results \in Seq(0..NKeys)
    BY <1>1
  <2>4. arr \in [0..(QueueDepth - 1) -> 0..NKeys] /\ block \in [Keys -> Nat]
    BY <1>1
  <2>5. /\ more_work \in BOOLEAN
        /\ mode \in {"looking", "cycling", "sweeping", "making_room", "running", "done"}
    BY Zenon
  <2> QED BY ONLY <2>1, <2>2, <2>3, <2>4, <2>5, Zenon DEF TypeOK
<1>7. FramesSound
  BY <1>3 DEF FramesSound
<1>8. Modes
  BY <1>1, <1>5 DEF Modes
<1>9. StateMachine
  <2>1. \A k \in 0..(n_streams - 1) : ~Going(search[k]) /\ ~(k > i)
    BY <1>1, <1>3
  <2> QED BY <1>4, <2>1 DEF StateMachine
<1>10. Counts
  <2>1. InSpawn = 0 /\ InHand = 0
    BY DEF InSpawn, InHand
  <2>2. Size(head, tail) = 0
    BY DEF Size
  <2> QED BY <1>1, <1>5, <2>1, <2>2 DEF Counts
<1>11. Places
  <2>1. Occ(head, tail) = {}
    BY <1>1 DEF Occ, Slots
  <2> QED BY <1>5, <2>1 DEF Places
<1>12. Heap /\ FramesRecycled
  BY <1>1, <1>5 DEF Heap, FramesRecycled
<1> QED BY <1>6, <1>7, <1>8, <1>9, <1>10, <1>11, <1>12 DEF IInv

\* ... and every step keeps it.
LEMMA InvStep == IInv /\ [Next]_vars => IInv'
<1> SUFFICES ASSUME IInv, [Next]_vars PROVE IInv'
  OBVIOUS
<1>1. CASE Next
  BY <1>1, InitFrameStep, RunFrameStep, BeginSweepStep, SweepStep, EndSweepStep,
     SpawnStep, SuspendStep, CompleteStep, EndSpawnStep, BeginRunStep, RunNextStep,
     EndRunStep, RepeatStep DEF Next
<1>2. CASE UNCHANGED vars
  <2>1. /\ UNCHANGED <<algo, count, lookups, n_streams, mode, next, search, found, not_found>>
        /\ UNCHANGED <<results, i, more_work, arr, head, tail, limit, running, root, block>>
        /\ UNCHANGED <<alloc_count, heap>>
    BY <1>2 DEF vars, input, smVars, coroVars, heap
  <2>2. Heap' /\ FramesRecycled' /\ Alive' = Alive
    BY <2>1, HeapKept DEF IInv
  <2>3. TypeOK'
    BY <2>1, ZenonT(60) DEF IInv, TypeOK
  <2>4. FramesSound' /\ StateMachine'
    BY <2>1 DEF IInv, FramesSound, StateMachine, Sound, Dataset, Open
  <2>5. Modes' /\ (algo = "coro" => Counts' /\ Places')
    BY <2>1, <2>2 DEF IInv, Modes, Counts, Places, InSpawn, InHand
  <2> QED BY <2>1, <2>2, <2>3, <2>4, <2>5 DEF IInv
<1> QED BY <1>1, <1>2

\* Both multi lookups keep the invariant throughout.
LEMMA Invariance == Spec => []IInv
BY InitInv, InvStep, PTL DEF Spec

\* Whatever the interleaving of the searches, a suspended search of either multi
\* lookup is about to read inside the dataset, and its range still holds its key
\* if the dataset does: for every size of the dataset, every list of keys and
\* every number of streams below the ring's depth.
THEOREM HalvingIsSound == Spec => []SearchIsSound
<1>1. IInv => SearchIsSound
  <2> SUFFICES ASSUME IInv, NEW k \in 0..NKeys, Going(search[k])
               PROVE  LET f == search[k]
                          range == f.first..(f.first + f.len - 1)
                      IN  /\ f.middle \in range
                          /\ range \subseteq 0..(count - 1)
                          /\ f.val \in Dataset => f.val \in {At(p) : p \in range}
    BY DEF IInv, SearchIsSound
  <2>1. /\ search[k] \in Frame /\ Sound(search[k]) /\ count \in Nat /\ MaxCount \in Nat
    BY Numbers DEF IInv, TypeOK, FramesSound
  <2> DEFINE f == search[k]
  <2>2. /\ f.first \in Nat /\ f.len \in Nat /\ f.len > 0 /\ f.half = f.len \div 2
        /\ f.middle = f.first + f.half /\ f.first + f.len <= count
    BY <2>1 DEF Frame, Sound
  <2>3. f.half \in 0..(f.len - 1)
    BY <2>2, Halving
  <2>4. f.middle \in f.first..(f.first + f.len - 1)
    BY <2>2, <2>3
  <2>5. f.first..(f.first + f.len - 1) \subseteq 0..(count - 1)
    BY <2>1, <2>2
  <2>6. f.val \in Dataset => f.val \in {At(p) : p \in f.first..(f.first + f.len - 1)}
    BY <2>1 DEF Sound
  <2> QED BY <2>4, <2>5, <2>6
<1> QED BY <1>1, Invariance, PTL

\* No two coroutines share a block, none has one that is free, and the allocator
\* never takes more blocks than there are streams and one, over any number of
\* lookups and repetitions.
THEOREM FramesAreRecycled == Spec => []FramesRecycled
<1>1. IInv => FramesRecycled
  BY DEF IInv
<1> QED BY <1>1, Invariance, PTL
=============================================================================
