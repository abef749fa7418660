---------------------------- MODULE FetchProofs ----------------------------
(***************************************************************************)
(* How a response is fetched.  The two-level cache: what its memory, its   *)
(* directory and its calls keep whatever the processes, the tasks and      *)
(* their interleaving.  And the requests it saves: the spacing of sends    *)
(* and the end of the retry loop, for any number of calls, any interval,   *)
(* lateness, retry delay and retry limit.                                  *)
(***************************************************************************)
EXTENDS XmlCache, Throttle, Lemmas, SequenceTheorems

----------------------------------------------------------------------------
(* The inductive invariant.                                                *)

\* The functions of the state have the domains the actions take for granted.
Shape ==
    /\ DOMAIN entries = Process
    /\ order \in [Process -> Seq(Query)]

\* A started call knows its query; past its fetch, or its hit on the disk, it
\* holds a response to that query; only a writing call has written anything.
CallsWellFormed ==
    \A t \in Task :
        /\ pc[t] # "idle" => query[t] \in Query
        /\ pc[t] \in {"create", "write", "insert"} => xml[t] \in Response
        /\ pc[t] \in {"idle", "disk", "fetch"} => xml[t] = None
        /\ pc[t] # "write" => written[t] = 0

\* A task whose open file is at its path has that path in the directory.
LinkedAreThere == \A t \in linked : FileOf(query[t]) \in DOMAIN disk

\* While no write was cut short, each part of a file is there or a writer of
\* the file has it still to write.
PartsAreComing ==
    ~cut => \A f \in DOMAIN disk : \A i \in 1 .. Parts :
        i \in disk[f].parts \/ \E t \in Writers(f) : written[t] < i

TypeInv == TypeOK /\ Shape /\ CallsWellFormed /\ LinkedAreThere

----------------------------------------------------------------------------
(* The eviction loop of put.                                               *)

\* The queue holds each of the keys, once.
HoldsOnce(queue, keys) ==
    /\ keys = {queue[i] : i \in DOMAIN queue}
    /\ \A i, j \in DOMAIN queue : queue[i] = queue[j] => i = j

\* A queue that holds each of the keys once: popping its k oldest leaves the
\* keys of the rest of it, of which there are Len(queue) - k.
LEMMA LeftIsTheRest ==
    ASSUME NEW S, NEW queue \in Seq(S), NEW k \in 0 .. Len(queue), NEW keys,
           HoldsOnce(queue, keys)
    PROVE  /\ Left(keys, queue, k) = {queue[i] : i \in k + 1 .. Len(queue)}
           /\ Cardinality(Left(keys, queue, k)) = Len(queue) - k
<1> USE DEF HoldsOnce
<1> DEFINE Rest == k + 1 .. Len(queue)
           f == [i \in Rest |-> queue[i]]
           L == {queue[i] : i \in Rest}
<1>0. Len(queue) \in Nat /\ DOMAIN queue = 1 .. Len(queue)
  BY LenProperties
<1>1. Left(keys, queue, k) = L
  <2>1. Rest \subseteq DOMAIN queue /\ 1 .. k \subseteq DOMAIN queue
    BY <1>0
  <2>2. \A i \in DOMAIN queue : i \in Rest <=> i \notin 1 .. k
    BY <1>0
  <2> HIDE DEF Rest
  <2> QED
    BY <2>1, <2>2, Zenon DEF Left
<1>2. f \in Bijection(Rest, L)
  <2>1. f \in [Rest -> L] /\ \A y \in L : \E i \in Rest : f[i] = y
    OBVIOUS
  <2>2. \A i, j \in Rest : f[i] = f[j] => i = j
    BY <1>0
  <2> QED
    BY <2>1, <2>2, Fun_IsBij
<1>3. IsFiniteSet(Rest) /\ Cardinality(Rest) = Len(queue) - k
  <2>1. k + 1 \in Int /\ Len(queue) \in Int /\ k \in Nat /\ k <= Len(queue)
    BY <1>0
  <2>2. Cardinality(Rest) = IF k + 1 > Len(queue) THEN 0 ELSE Len(queue) - (k + 1) + 1
    BY <2>1, FS_Interval
  <2>3. IsFiniteSet(Rest)
    BY <2>1, FS_Interval
  <2> HIDE DEF Rest
  <2> QED
    BY <2>1, <2>2, <2>3
<1>4. Cardinality(L) = Cardinality(Rest)
  BY <1>2, <1>3, FS_Bijection DEF ExistsBijection
<1> QED
  BY <1>1, <1>3, <1>4


\* What put leaves in the queue of one process: the rest after the fewest pops
\* that bring the cache down to its capacity, and its keys are the cached ones.
LEMMA InsertKeepsTheQueue ==
    ASSUME NEW S, NEW queue \in Seq(S), NEW k \in 0 .. Len(queue), NEW keys,
           HoldsOnce(queue, keys), k \in Pops(keys, queue),
           NEW rest, rest = SubSeq(queue, k + 1, Len(queue))
    PROVE  /\ rest \in Seq(S)
           /\ Len(rest) <= Capacity
           /\ HoldsOnce(rest, Left(keys, queue, k))
<1> DEFINE n == Len(queue)
<1>0. n \in Nat /\ DOMAIN queue = 1 .. n /\ k \in Nat /\ k <= n
      /\ \A i \in 1 .. n : queue[i] \in S
  BY LenProperties
<1>1. /\ rest \in Seq(S)
      /\ Len(rest) = IF k + 1 <= n THEN n - (k + 1) + 1 ELSE 0
      /\ \A i \in 1 .. n - (k + 1) + 1 : rest[i] = queue[(k + 1) + i - 1]
  <2>1. /\ k + 1 \in Int /\ n \in Int /\ \A i \in k + 1 .. n : queue[i] \in S
        /\ rest = SubSeq(queue, k + 1, n)
    BY <1>0
  <2> HIDE DEF n
  <2> QED
    BY <2>1, SubSeqProperties, SMTT(30)
<1>2. DOMAIN rest = 1 .. Len(rest)
  BY <1>1, LenProperties
<1> HIDE DEF n
<1>3. Len(rest) = n - k /\ DOMAIN rest = 1 .. n - k
  BY <1>0, <1>1, <1>2
<1>4. \A i \in DOMAIN rest : rest[i] = queue[k + i] /\ k + i \in k + 1 .. n
                             /\ k + i \in DOMAIN queue
  BY <1>0, <1>1, <1>3
<1>5. \A i \in k + 1 .. n : i - k \in DOMAIN rest /\ k + (i - k) = i
  BY <1>0, <1>3
<1>6. /\ Left(keys, queue, k) = {queue[i] : i \in k + 1 .. n}
      /\ Cardinality(Left(keys, queue, k)) = n - k
  BY LeftIsTheRest DEF n
<1>7. Len(rest) <= Capacity
  BY <1>3, <1>6 DEF Pops
<1>8. {rest[i] : i \in DOMAIN rest} = Left(keys, queue, k)
  <2>1. \A i \in DOMAIN rest : rest[i] \in Left(keys, queue, k)
    BY <1>4, <1>6
  <2>2. ASSUME NEW i \in k + 1 .. n PROVE queue[i] = rest[i - k] /\ i - k \in DOMAIN rest
    <3>1. i - k \in DOMAIN rest /\ k + (i - k) = i
      BY <1>5
    <3>2. rest[i - k] = queue[k + (i - k)]
      BY <1>4, <3>1
    <3> QED
      BY <3>1, <3>2
  <2>3. \A x \in Left(keys, queue, k) : \E i \in DOMAIN rest : x = rest[i]
    BY <1>6, <2>2
  <2>4. Left(keys, queue, k) \subseteq {rest[i] : i \in DOMAIN rest}
    BY <2>3
  <2>5. {rest[i] : i \in DOMAIN rest} \subseteq Left(keys, queue, k)
    BY <2>1
  <2> QED
    BY <2>4, <2>5
<1>9. \A i, j \in DOMAIN rest : rest[i] = rest[j] => i = j
  <2> SUFFICES ASSUME NEW i \in DOMAIN rest, NEW j \in DOMAIN rest, rest[i] = rest[j]
               PROVE  i = j
    OBVIOUS
  <2>1. k + i = k + j
    BY <1>4 DEF HoldsOnce
  <2> QED
    BY <1>0, <1>3, <2>1
<1> QED
  BY <1>1, <1>7, <1>8, <1>9 DEF n, HoldsOnce

\* The queue with the key of put pushed holds the keys of the cache and that
\* one, each once.
LEMMA PushedHoldsTheKeys ==
    ASSUME NEW p \in Process, NEW q \in Query, order[p] \in Seq(Query),
           HoldsOnce(order[p], DOMAIN entries[p])
    PROVE  /\ Pushed(p, q) \in Seq(Query)
           /\ HoldsOnce(Pushed(p, q), DOMAIN entries[p] \cup {q})
<1> USE DEF HoldsOnce
<1>1. CASE q \in DOMAIN entries[p]
  <2>1. Pushed(p, q) = order[p] /\ DOMAIN entries[p] \cup {q} = DOMAIN entries[p]
    BY <1>1 DEF Pushed
  <2> QED
    BY <2>1
<1>2. CASE q \notin DOMAIN entries[p]
  <2> DEFINE old == order[p]
             new == Append(old, q)
             n == Len(old)
  <2>1. Pushed(p, q) = new
    BY <1>2 DEF Pushed
  <2>2. n \in Nat /\ DOMAIN old = 1 .. n
    BY LenProperties
  <2>3. /\ new \in Seq(Query)
        /\ Len(new) = n + 1
        /\ \A i \in 1 .. n : new[i] = old[i]
        /\ new[n + 1] = q
    BY AppendProperties
  <2>4. DOMAIN new = 1 .. n + 1
    BY <2>2, <2>3, LenProperties
  <2>5. \A i \in DOMAIN new : i \in DOMAIN old \/ i = n + 1
    BY <2>2, <2>4
  <2>6. DOMAIN old \subseteq DOMAIN new /\ n + 1 \in DOMAIN new
    BY <2>2, <2>4
  <2>7. \A i \in DOMAIN old : new[i] = old[i] /\ old[i] # q
    BY <1>2, <2>2, <2>3
  <2> HIDE DEF new, n
  <2>8. {new[i] : i \in DOMAIN new} = DOMAIN entries[p] \cup {q}
    BY <2>3, <2>5, <2>6, <2>7
  <2>9. \A i, j \in DOMAIN new : new[i] = new[j] => i = j
    BY <2>3, <2>5, <2>7
  <2>10. HoldsOnce(new, DOMAIN entries[p] \cup {q})
    BY <2>8, <2>9
  <2> HIDE DEF HoldsOnce
  <2> QED
    BY <2>1, <2>3, <2>10
<1> QED
  BY <1>1, <1>2

\* Popping the whole queue empties the cache, so that the loop ends.
LEMMA PopsIsNotEmpty ==
    ASSUME NEW S, NEW queue \in Seq(S), NEW keys,
           HoldsOnce(queue, keys)
    PROVE  Len(queue) \in Pops(keys, queue)
<1>1. Len(queue) \in Nat /\ Len(queue) \in 0 .. Len(queue)
  BY LenProperties
<1>2. Cardinality(Left(keys, queue, Len(queue))) = Len(queue) - Len(queue)
  BY <1>1, LeftIsTheRest
<1> QED
  BY <1>1, <1>2, CapacityAssumption DEF Pops

----------------------------------------------------------------------------
(* Type correctness.                                                       *)

\* put keeps the types of the memory cache and of its queue.
LEMMA InsertTypes ==
    ASSUME TypeInv, NEW p \in Process, NEW q \in Query, NEW r \in Response, Insert(p, q, r)
    PROVE  /\ DOMAIN entries' = Process
           /\ order' \in [Process -> Seq(Query)]
           /\ \A o \in Process : /\ DOMAIN entries'[o] \subseteq Query
                                 /\ \A x \in DOMAIN entries'[o] : entries'[o][x] \in Response
<1> DEFINE all == Put(entries[p], q, r)
           queue == Pushed(p, q)
<1>1. PICK k \in Pops(DOMAIN all, queue) :
        /\ entries' = [entries EXCEPT ![p] = Restricted(all, Left(DOMAIN all, queue, k))]
        /\ order' = [order EXCEPT ![p] = SubSeq(queue, k + 1, Len(queue))]
  BY DEF Insert
<1>2. DOMAIN all = DOMAIN entries[p] \cup {q} /\ \A x \in DOMAIN all : all[x] \in Response
  BY DEF Put, TypeInv, TypeOK
<1>3. Left(DOMAIN all, queue, k) \subseteq DOMAIN all
  BY DEF Left
<1>4. queue \in Seq(Query)
  <2>1. order[p] \in Seq(Query)
    BY DEF TypeInv, Shape
  <2> QED
    BY <2>1, AppendProperties DEF Pushed
<1>5. SubSeq(queue, k + 1, Len(queue)) \in Seq(Query)
  <2>1. k \in Nat /\ Len(queue) \in Nat /\ \A i \in k + 1 .. Len(queue) : queue[i] \in Query
    BY <1>4, LenProperties DEF Pops
  <2>2. k + 1 \in Int /\ Len(queue) \in Int
    BY <2>1
  <2> HIDE DEF queue
  <2> QED
    BY <2>1, <2>2, SubSeqProperties
<1> HIDE DEF all, queue
<1>6. order' \in [Process -> Seq(Query)]
  BY <1>1, <1>5 DEF TypeInv, Shape
<1>7. DOMAIN entries' = Process
  BY <1>1 DEF TypeInv, Shape
<1>8. ASSUME NEW o \in Process
      PROVE  /\ DOMAIN entries'[o] \subseteq Query
             /\ \A x \in DOMAIN entries'[o] : entries'[o][x] \in Response
  <2>1. CASE o = p
    <3>1. entries'[p] = [x \in Left(DOMAIN all, queue, k) |-> all[x]]
      BY <1>1 DEF Restricted, TypeInv, Shape
    <3>2. DOMAIN all \subseteq Query
      BY <1>2 DEF TypeInv, TypeOK
    <3> QED
      BY <1>2, <1>3, <2>1, <3>1, <3>2
  <2>2. CASE o # p
    <3>1. entries'[o] = entries[o]
      BY <1>1, <2>2 DEF TypeInv, Shape
    <3> QED
      BY <3>1 DEF TypeInv, TypeOK
  <2> QED
    BY <2>1, <2>2
<1> QED
  BY <1>6, <1>7, <1>8

LEMMA InitTypeInv == Init => TypeInv
<1> SUFFICES ASSUME Init PROVE TypeInv
  OBVIOUS
<1>1. \A p \in Process : entries[p] = << >> /\ order[p] = << >>
  BY DEF Init
<1>2. << >> \in Seq(Query) /\ DOMAIN << >> = {}
  OBVIOUS
<1>3. DOMAIN entries = Process /\ order \in [Process -> Seq(Query)]
  BY <1>2 DEF Init
<1>4. DOMAIN disk = {}
  BY <1>2 DEF Init
<1>5. 0 \in 0 .. Parts - 1
  BY CapacityAssumption
<1> QED
  BY <1>1, <1>2, <1>3, <1>4, <1>5
     DEF Init, TypeInv, TypeOK, Shape, CallsWellFormed, LinkedAreThere

LEMMA StepTypeInv == TypeInv /\ [Next]_vars => TypeInv'
<1> SUFFICES ASSUME TypeInv, [Next]_vars PROVE TypeInv'
  OBVIOUS
<1> USE DEF TypeInv
<1>0. 1 .. Parts # {} /\ Parts \in Nat /\ 0 \in 0 .. Parts - 1
  BY CapacityAssumption
<1>1. ASSUME NEW t \in Task, NEW q \in Query, Miss(t, q) PROVE TypeInv'
  BY <1>1 DEF Miss, memory, file, TypeOK, Shape, CallsWellFormed, LinkedAreThere, FileOf
<1>2. ASSUME NEW t \in Task, ReadDisk(t) PROVE TypeInv'
  <2>1. [query |-> disk[FileOf(query[t])].query, whole |-> IsWhole(FileOf(query[t]))] \in Response
    BY <1>2 DEF ReadDisk, TypeOK, File, Response, IsWhole
  <2>2. xml' \in [Task -> Response \cup {None}]
    BY <1>2, <2>1 DEF ReadDisk, TypeOK
  <2> HIDE DEF Response
  <2> QED
    BY <1>2, <2>1, <2>2
       DEF ReadDisk, memory, file, TypeOK, Shape, CallsWellFormed, LinkedAreThere, FileOf
<1>3. ASSUME NEW t \in Task, MissDisk(t) PROVE TypeInv'
  BY <1>3 DEF MissDisk, memory, file, TypeOK, Shape, CallsWellFormed, LinkedAreThere, FileOf
<1>4. ASSUME NEW t \in Task, Fetch(t) PROVE TypeInv'
  <2>1. [query |-> query[t], whole |-> TRUE] \in Response
    BY <1>4 DEF Fetch, CallsWellFormed, Response
  <2> QED
    BY <1>4, <2>1
       DEF Fetch, memory, file, TypeOK, Shape, CallsWellFormed, LinkedAreThere, FileOf
<1>5. ASSUME NEW t \in Task, FailFetch(t) PROVE TypeInv'
  BY <1>5 DEF FailFetch, Return, memory, file, TypeOK, Shape, CallsWellFormed, LinkedAreThere, FileOf
<1>6. ASSUME NEW t \in Task, Create(t) PROVE TypeInv'
  <2>1. query[t] \in Query /\ FileOf(query[t]) \in {Path[q] : q \in Query}
    BY <1>6 DEF Create, CallsWellFormed, FileOf
  <2>2. [query |-> query[t], parts |-> {}] \in File
    BY <2>1 DEF File
  <2>3. DOMAIN disk' = DOMAIN disk \cup {FileOf(query[t])} /\ \A f \in DOMAIN disk' : disk'[f] \in File
    BY <1>6, <2>2 DEF Create, Put, TypeOK
  <2>4. TypeOK'
    BY <1>6, <2>1, <2>3 DEF Create, memory, TypeOK
  <2>5. LinkedAreThere'
    BY <1>6, <2>3 DEF Create, LinkedAreThere, FileOf
  <2>6. CallsWellFormed'
    BY <1>6, <2>1 DEF Create, CallsWellFormed, TypeOK
  <2>7. Shape'
    BY <1>6 DEF Create, memory, Shape
  <2> QED
    BY <2>4, <2>5, <2>6, <2>7
<1>7. ASSUME NEW t \in Task, FailCreate(t) PROVE TypeInv'
  BY <1>7 DEF FailCreate, memory, file, TypeOK, Shape, CallsWellFormed, LinkedAreThere, FileOf
<1>8. ASSUME NEW t \in Task, Write(t) PROVE TypeInv'
  <2> DEFINE f == FileOf(query[t])
  <2>1. written[t] \in 0 .. Parts - 1 /\ written[t] + 1 \in 1 .. Parts
    BY <1>0 DEF TypeOK
  <2>2. ~Finished(t) => written[t] + 1 \in 0 .. Parts - 1
    BY <1>0, <2>1 DEF Finished
  <2>3. written' \in [Task -> 0 .. Parts - 1]
    BY <1>0, <1>8, <2>2 DEF Write, TypeOK
  <2>4. DOMAIN disk' = DOMAIN disk /\ \A g \in DOMAIN disk' : disk'[g] \in File
    <3>1. CASE t \in linked
      <4>1. f \in DOMAIN disk /\ disk' = [disk EXCEPT ![f].parts = @ \cup {written[t] + 1}]
        BY <1>8, <3>1 DEF Write, LinkedAreThere
      <4>2. disk[f] \in File /\ [disk[f] EXCEPT !.parts = @ \cup {written[t] + 1}] \in File
        BY <2>1, <4>1 DEF TypeOK, File
      <4> QED
        BY <4>1, <4>2 DEF TypeOK
    <3>2. CASE t \notin linked
      BY <1>8, <3>2 DEF Write, TypeOK
    <3> QED
      BY <3>1, <3>2
  <2>5. /\ linked' \subseteq linked
        /\ \A u \in Task \ {t} : pc'[u] = pc[u] /\ written'[u] = written[u]
        /\ IF Finished(t) THEN pc'[t] = "insert" /\ written'[t] = 0 /\ t \notin linked'
                          ELSE pc'[t] = "write"
        /\ pc' \in [Task -> {"idle", "disk", "fetch", "create", "write", "insert"}]
    BY <1>8 DEF Write, TypeOK
  <2>6. /\ pc[t] = "write" /\ query' = query /\ xml' = xml /\ clearing' = clearing /\ cut' = cut
        /\ entries' = entries /\ order' = order
    BY <1>8 DEF Write, memory
  <2>7. TypeOK'
    BY <2>3, <2>4, <2>5, <2>6 DEF TypeOK
  <2>8. CallsWellFormed'
    BY <2>5, <2>6 DEF CallsWellFormed
  <2>9. LinkedAreThere'
    BY <2>4, <2>5, <2>6 DEF LinkedAreThere, FileOf
  <2> QED
    BY <2>6, <2>7, <2>8, <2>9 DEF Shape
<1>9. ASSUME NEW t \in Task, FailWrite(t) PROVE TypeInv'
  BY <1>0, <1>9 DEF FailWrite, memory, TypeOK, Shape, CallsWellFormed, LinkedAreThere, FileOf
<1>10. ASSUME NEW t \in Task, Remember(t) PROVE TypeInv'
  <2>1. Home[t] \in Process /\ query[t] \in Query /\ xml[t] \in Response
    BY <1>10, ProcessAssumption DEF Remember, CallsWellFormed
  <2>2. /\ DOMAIN entries' = Process
        /\ order' \in [Process -> Seq(Query)]
        /\ \A o \in Process : /\ DOMAIN entries'[o] \subseteq Query
                              /\ \A x \in DOMAIN entries'[o] : entries'[o][x] \in Response
    BY <1>10, <2>1, InsertTypes DEF Remember
  <2>3. \A o \in Process : order'[o] \in Seq(Query)
    BY <2>2
  <2> QED
    BY <1>10, <2>2, <2>3
       DEF Remember, Return, file, TypeOK, Shape, CallsWellFormed, LinkedAreThere, FileOf
<1>11. ASSUME NEW p \in Process, ClearMemory(p) PROVE TypeInv'
  <2>1. << >> \in Seq(Query) /\ DOMAIN << >> = {}
    OBVIOUS
  <2> QED
    BY <1>11, <2>1 DEF ClearMemory, task, TypeOK, Shape, CallsWellFormed, LinkedAreThere, FileOf
<1>12. ASSUME NEW p \in Process, ClearReturns(p) PROVE TypeInv'
  BY <1>12 DEF ClearReturns, memory, task, TypeOK, Shape, CallsWellFormed, LinkedAreThere, FileOf
<1>13. ASSUME NEW p \in Process, Crash(p) PROVE TypeInv'
  <2>1. << >> \in Seq(Query) /\ DOMAIN << >> = {}
    OBVIOUS
  <2> QED
    BY <1>0, <1>13, <2>1 DEF Crash, TypeOK, Shape, CallsWellFormed, LinkedAreThere, FileOf
<1>14. ASSUME NEW p \in Process, NEW f \in DOMAIN disk, ClearFile(p, f) PROVE TypeInv'
  <2>1. DOMAIN disk' = DOMAIN disk \ {f} /\ \A g \in DOMAIN disk' : disk'[g] = disk[g]
    BY <1>14 DEF ClearFile, Restricted
  <2> QED
    BY <1>14, <2>1
       DEF ClearFile, Writers, memory, TypeOK, Shape, CallsWellFormed, LinkedAreThere, FileOf
<1>15. CASE UNCHANGED vars
  BY <1>15 DEF vars, TypeOK, Shape, CallsWellFormed, LinkedAreThere, FileOf
<1> QED
  BY <1>1, <1>2, <1>3, <1>4, <1>5, <1>6, <1>7, <1>8, <1>9, <1>10, <1>11, <1>12, <1>13, <1>14,
     <1>15 DEF Next, Step

\* The cache keeps its types, and its calls their shape: a call never inserts
\* or writes before it holds a response.
THEOREM XmlCacheTypes == Spec => []TypeOK
<1>1. TypeInv => TypeOK
  BY DEF TypeInv
<1> QED
  BY <1>1, InitTypeInv, StepTypeInv, PTL DEF Spec

----------------------------------------------------------------------------
(* The memory cache.                                                       *)

\* Whoever inserts what, in whatever order: the queue of each process holds the
\* cached queries, each once, and the cache is within its capacity.
LEMMA StepMemory == TypeInv /\ MemoryWellFormed /\ [Next]_vars => MemoryWellFormed'
<1> SUFFICES ASSUME TypeInv, MemoryWellFormed, [Next]_vars PROVE MemoryWellFormed'
  OBVIOUS
<1>1. ASSUME UNCHANGED memory PROVE MemoryWellFormed'
  BY <1>1 DEF memory, MemoryWellFormed
<1>2. ASSUME NEW t \in Task, Remember(t) PROVE MemoryWellFormed'
  <2> DEFINE p == Home[t]
             q == query[t]
             all == Put(entries[p], q, xml[t])
             queue == Pushed(p, q)
  <2>1. p \in Process /\ q \in Query
    BY <1>2, ProcessAssumption DEF Remember, TypeInv, CallsWellFormed
  <2>2. PICK k \in Pops(DOMAIN all, queue) :
          /\ entries' = [entries EXCEPT ![p] = Restricted(all, Left(DOMAIN all, queue, k))]
          /\ order' = [order EXCEPT ![p] = SubSeq(queue, k + 1, Len(queue))]
    BY <1>2 DEF Remember, Insert
  <2>3. order[p] \in Seq(Query)
    BY <2>1 DEF TypeInv, Shape
  <2>4. queue \in Seq(Query) /\ HoldsOnce(queue, DOMAIN all)
    <3>1. HoldsOnce(order[p], DOMAIN entries[p])
      BY <2>1 DEF MemoryWellFormed, HoldsOnce
    <3>2. DOMAIN all = DOMAIN entries[p] \cup {q}
      BY DEF Put
    <3> QED
      BY <2>1, <2>3, <3>1, <3>2, PushedHoldsTheKeys
  <2> DEFINE rest == SubSeq(queue, k + 1, Len(queue))
  <2> HIDE DEF all, queue
  <2>5. Len(rest) <= Capacity /\ HoldsOnce(rest, Left(DOMAIN all, queue, k))
    <3>1. k \in 0 .. Len(queue)
      BY DEF Pops
    <3> QED
      BY <2>4, <3>1, InsertKeepsTheQueue
  <2>6. order'[p] = rest /\ DOMAIN entries'[p] = Left(DOMAIN all, queue, k)
    BY <2>1, <2>2 DEF TypeInv, Shape, Restricted
  <2>7. \A o \in Process \ {p} : order'[o] = order[o] /\ entries'[o] = entries[o]
    BY <2>2 DEF TypeInv, Shape
  <2> HIDE DEF rest
  <2> QED
    BY <2>5, <2>6, <2>7 DEF MemoryWellFormed, HoldsOnce
<1>3. ASSUME NEW p \in Process,
             entries' = [entries EXCEPT ![p] = << >>], order' = [order EXCEPT ![p] = << >>]
      PROVE  MemoryWellFormed'
  <2>1. entries'[p] = << >> /\ order'[p] = << >>
    BY <1>3 DEF TypeInv, Shape
  <2>2. \A o \in Process \ {p} : order'[o] = order[o] /\ entries'[o] = entries[o]
    BY <1>3 DEF TypeInv, Shape
  <2>3. DOMAIN << >> = {} /\ Len(<< >>) <= Capacity
    BY CapacityAssumption
  <2> QED
    BY <2>1, <2>2, <2>3 DEF MemoryWellFormed
<1>4. ASSUME NEW p \in Process, ClearMemory(p) PROVE MemoryWellFormed'
  BY <1>3, <1>4 DEF ClearMemory
<1>5. ASSUME NEW p \in Process, Crash(p) PROVE MemoryWellFormed'
  BY <1>3, <1>5 DEF Crash
<1>6. ASSUME NEW t \in Task, Step(t), ~Remember(t) PROVE UNCHANGED memory
  BY <1>6 DEF Step, memory, ReadDisk, MissDisk, Fetch, FailFetch, Create, FailCreate, Write,
              FailWrite
<1>7. ASSUME NEW t \in Task, NEW q \in Query, Miss(t, q) PROVE UNCHANGED memory
  BY <1>7 DEF Miss, memory
<1>8. ASSUME NEW p \in Process, ClearReturns(p) PROVE UNCHANGED memory
  BY <1>8 DEF ClearReturns, memory
<1>9. ASSUME NEW p \in Process, NEW f \in DOMAIN disk, ClearFile(p, f) PROVE UNCHANGED memory
  BY <1>9 DEF ClearFile, memory
<1>10. CASE UNCHANGED vars
  BY <1>1, <1>10 DEF vars, memory
<1> QED
  BY <1>1, <1>2, <1>4, <1>5, <1>6, <1>7, <1>8, <1>9, <1>10 DEF Next

LEMMA InitMemory == Init => MemoryWellFormed
<1> SUFFICES ASSUME Init PROVE MemoryWellFormed
  OBVIOUS
<1>1. \A p \in Process : entries[p] = << >> /\ order[p] = << >>
  BY DEF Init
<1>2. DOMAIN << >> = {} /\ Len(<< >>) <= Capacity
  BY CapacityAssumption
<1> QED
  BY <1>1, <1>2 DEF MemoryWellFormed

\* In every state the eviction queue of a process holds each cached query once,
\* and the cache is within its capacity, for any capacity and any interleaving
\* of inserts, clear_cache and crashes.
THEOREM MemoryIsWellFormed == Spec => []MemoryWellFormed
<1> QED
  BY InitTypeInv, StepTypeInv, InitMemory, StepMemory, PTL DEF Spec

\* Whatever put inserts, some number of pops, and a least one, brings the cache
\* within its capacity: the eviction loop ends and does not spin with the mutex
\* held.
EvictionEnds ==
    \A p \in Process, q \in Query, r \in Response :
        LET pops == Pops(DOMAIN Put(entries[p], q, r), Pushed(p, q)) IN
        \E k \in pops : \A j \in pops : k <= j

\* The eviction loop of put ends in every state the cache can be in.
THEOREM EvictionAlwaysEnds == Spec => []EvictionEnds
<1>1. TypeInv /\ MemoryWellFormed => EvictionEnds
  <2> SUFFICES ASSUME TypeInv, MemoryWellFormed,
                      NEW p \in Process, NEW q \in Query, NEW r \in Response
               PROVE  LET pops == Pops(DOMAIN Put(entries[p], q, r), Pushed(p, q)) IN
                      \E k \in pops : \A j \in pops : k <= j
    BY DEF EvictionEnds
  <2> DEFINE all == Put(entries[p], q, r)
             queue == Pushed(p, q)
  <2>1. order[p] \in Seq(Query)
    BY DEF TypeInv, Shape
  <2>2. queue \in Seq(Query) /\ HoldsOnce(queue, DOMAIN all)
    <3>1. HoldsOnce(order[p], DOMAIN entries[p])
      BY DEF MemoryWellFormed, HoldsOnce
    <3>2. DOMAIN all = DOMAIN entries[p] \cup {q}
      BY DEF Put
    <3> QED
      BY <2>1, <3>1, <3>2, PushedHoldsTheKeys
  <2> HIDE DEF all, queue
  <2>4. Pops(DOMAIN all, queue) # {}
    BY <2>2, PopsIsNotEmpty
  <2>5. Pops(DOMAIN all, queue) \in SUBSET Nat
    BY <2>2, LenProperties DEF Pops
  <2> QED
    BY <2>4, <2>5, LeastElement DEF all, queue
<1> QED
  BY <1>1, InitTypeInv, StepTypeInv, InitMemory, StepMemory, PTL DEF Spec

----------------------------------------------------------------------------
(* The answers.                                                            *)

\* A call past its fetch or its hit, the memory and the directory each hold
\* answers to their own queries.
Held == \A t \in Task : pc[t] \in {"create", "write", "insert"} => xml[t].query = query[t]
Cached == \A p \in Process : \A q \in DOMAIN entries[p] : entries[p][q].query = q
Filed == \A q \in Query : Path[q] \in DOMAIN disk => disk[Path[q]].query = q
Own == Held /\ Cached /\ Filed

LEMMA StepOwn == TypeInv /\ Own /\ [Next]_vars => Own'
<1> SUFFICES ASSUME TypeInv, Own, [Next]_vars PROVE Own'
  OBVIOUS
<1> USE DEF Held, Cached, Filed
<1>1. ASSUME NEW t \in Task, Step(t) \/ \E q \in Query : Miss(t, q) PROVE Held'
  <2>1. CASE ReadDisk(t)
    <3>1. query[t] \in Query /\ Path[query[t]] \in DOMAIN disk /\ xml'[t].query = disk[Path[query[t]]].query
      BY <2>1 DEF ReadDisk, FileOf, TypeInv, TypeOK, CallsWellFormed
    <3> QED
      BY <2>1, <3>1 DEF ReadDisk, Own, TypeInv, TypeOK
  <2>2. CASE Fetch(t)
    BY <2>2 DEF Fetch, Own, TypeInv, TypeOK
  <2>3. CASE FailFetch(t) \/ Remember(t)
    BY <2>3 DEF FailFetch, Remember, Return, Own, TypeInv, TypeOK
  <2>4. ASSUME NEW q \in Query, Miss(t, q) PROVE Held'
    BY <2>4 DEF Miss, Own, TypeInv, TypeOK, CallsWellFormed
  <2>5. CASE MissDisk(t) \/ Create(t) \/ FailCreate(t)
    BY <2>5 DEF MissDisk, Create, FailCreate, Own, TypeInv, TypeOK
  <2>6. CASE Write(t) \/ FailWrite(t)
    <3>1. /\ pc[t] = "write" /\ query' = query /\ xml' = xml
          /\ \A u \in Task \ {t} : pc'[u] = pc[u]
      BY <2>6 DEF Write, FailWrite, TypeInv, TypeOK
    <3> QED
      BY <3>1 DEF Own
  <2> QED
    BY <1>1, <2>1, <2>2, <2>3, <2>4, <2>5, <2>6 DEF Step
<1>2. ASSUME NEW t \in Task, Remember(t) PROVE Cached'
  <2> DEFINE p == Home[t]
             all == Put(entries[p], query[t], xml[t])
  <2>1. p \in Process /\ xml[t].query = query[t]
    BY <1>2, ProcessAssumption DEF Remember, Own
  <2>2. \A q \in DOMAIN all : all[q].query = q
    BY <2>1 DEF Put, Own
  <2>3. PICK k : entries' = [entries EXCEPT ![p] =
                     Restricted(all, Left(DOMAIN all, Pushed(p, query[t]), k))]
    BY <1>2 DEF Remember, Insert
  <2>4. Left(DOMAIN all, Pushed(p, query[t]), k) \subseteq DOMAIN all
    BY DEF Left
  <2> HIDE DEF all
  <2>5. \A q \in DOMAIN entries'[p] : entries'[p][q].query = q
    BY <2>1, <2>2, <2>3, <2>4 DEF TypeInv, Shape, Restricted
  <2>6. \A o \in Process \ {p} : entries'[o] = entries[o]
    BY <2>3 DEF TypeInv, Shape
  <2> QED
    BY <2>5, <2>6 DEF Own
<1>3. ASSUME NEW p \in Process, ClearMemory(p) \/ Crash(p) PROVE Cached'
  <2>1. entries' = [entries EXCEPT ![p] = << >>]
    BY <1>3 DEF ClearMemory, Crash
  <2>2. DOMAIN << >> = {}
    OBVIOUS
  <2> QED
    BY <2>1, <2>2 DEF Own, TypeInv, Shape
<1>4. ASSUME NEW t \in Task, Create(t) PROVE Filed'
  <2>1. query[t] \in Query /\ disk' = Put(disk, Path[query[t]], [query |-> query[t], parts |-> {}])
    BY <1>4 DEF Create, FileOf, TypeInv, CallsWellFormed
  <2>2. ASSUME NEW q \in Query, Path[q] \in DOMAIN disk' PROVE disk'[Path[q]].query = q
    BY <2>1, <2>2, PathAssumption DEF Put, Own
  <2> QED
    BY <2>2
<1>5. ASSUME NEW t \in Task, Write(t) PROVE Filed'
  <2>1. CASE t \in linked
    <3> DEFINE f == FileOf(query[t])
    <3>1. /\ disk' = [disk EXCEPT ![f].parts = @ \cup {written[t] + 1}]
          /\ f \in DOMAIN disk /\ disk[f] \in File
      BY <1>5, <2>1 DEF Write, TypeInv, TypeOK, LinkedAreThere
    <3>2. DOMAIN disk' = DOMAIN disk /\ \A g \in DOMAIN disk : disk'[g].query = disk[g].query
      BY <3>1 DEF File
    <3> QED
      BY <3>2 DEF Own
  <2>2. CASE t \notin linked
    BY <1>5, <2>2 DEF Write, Own
  <2> QED
    BY <2>1, <2>2
<1>6. ASSUME NEW p \in Process, NEW f \in DOMAIN disk, ClearFile(p, f) PROVE Filed'
  BY <1>6 DEF ClearFile, Restricted, Own
<1>7. ASSUME NEW t \in Task, NEW q \in Query, Miss(t, q) PROVE UNCHANGED <<entries, disk>>
  BY <1>7 DEF Miss, memory, file
<1>8. ASSUME NEW t \in Task, Step(t)
      PROVE  (Remember(t) \/ entries' = entries) /\ (Create(t) \/ Write(t) \/ disk' = disk)
  BY <1>8 DEF Step, memory, file, ReadDisk, MissDisk, Fetch, FailFetch, Create, FailCreate,
              Write, FailWrite, Remember
<1>9. ASSUME NEW p \in Process, ClearMemory(p) \/ ClearReturns(p) PROVE UNCHANGED <<query, xml, pc, disk>>
  BY <1>9 DEF ClearMemory, ClearReturns, task
<1>10. ASSUME NEW p \in Process, Crash(p) PROVE Held' /\ disk' = disk
  BY <1>10 DEF Crash, Own, TypeInv, TypeOK
<1>11. ASSUME NEW p \in Process, ClearReturns(p) PROVE UNCHANGED entries
  BY <1>11 DEF ClearReturns, memory
<1>12. ASSUME NEW p \in Process, NEW f \in DOMAIN disk, ClearFile(p, f)
       PROVE  UNCHANGED <<entries, query, xml, pc>>
  BY <1>12 DEF ClearFile, memory
<1>13. ASSUME UNCHANGED entries PROVE Cached'
  BY <1>13 DEF Own
<1>14. ASSUME UNCHANGED disk PROVE Filed'
  BY <1>14 DEF Own
<1>15. ASSUME UNCHANGED <<query, xml, pc>> PROVE Held'
  BY <1>15 DEF Own
<1>16. ASSUME Held', Cached', Filed' PROVE Own'
  BY <1>16 DEF Own
<1> HIDE DEF Held, Cached, Filed
<1>17. ASSUME NEW t \in Task, Step(t) PROVE Own'
  BY <1>1, <1>2, <1>4, <1>5, <1>8, <1>13, <1>14, <1>16, <1>17
<1>18. ASSUME NEW t \in Task, NEW q \in Query, Miss(t, q) PROVE Own'
  BY <1>1, <1>7, <1>13, <1>14, <1>16, <1>18
<1>19. ASSUME NEW p \in Process, ClearMemory(p) \/ ClearReturns(p) \/ Crash(p) PROVE Own'
  BY <1>3, <1>9, <1>10, <1>11, <1>13, <1>14, <1>15, <1>16, <1>19
<1>20. ASSUME NEW p \in Process, NEW f \in DOMAIN disk, ClearFile(p, f) PROVE Own'
  BY <1>6, <1>12, <1>13, <1>15, <1>16, <1>20
<1>21. CASE UNCHANGED vars
  BY <1>13, <1>14, <1>15, <1>16, <1>21 DEF vars
<1> QED
  BY <1>17, <1>18, <1>19, <1>20, <1>21 DEF Next

LEMMA InitOwn == Init => Own
<1> SUFFICES ASSUME Init PROVE Own
  OBVIOUS
<1>1. \A p \in Process : entries[p] = << >>
  BY DEF Init
<1>2. DOMAIN << >> = {}
  OBVIOUS
<1> QED
  BY <1>1, <1>2 DEF Init, Own, Held, Cached, Filed

\* A query is never answered with the response to another one, at either level
\* of the cache, as long as the hashes of the queries do not collide
\* (PathAssumption).
THEOREM AnswersAreOwn == Spec => []OwnAnswer
<1>1. TypeInv /\ Own => OwnAnswer
  BY DEF TypeInv, TypeOK, CallsWellFormed, Own, Held, Cached, Filed, OwnAnswer
<1> QED
  BY <1>1, InitTypeInv, StepTypeInv, InitOwn, StepOwn, PTL DEF Spec

----------------------------------------------------------------------------
(* The directory.                                                          *)

\* Truncating a file makes all its parts the truncating task's to write; a part
\* written late lands in the file it was meant for, or in no file.
LEMMA StepParts == TypeInv /\ PartsAreComing /\ [Next]_vars => PartsAreComing'
<1> SUFFICES ASSUME TypeInv, PartsAreComing, [Next]_vars PROVE PartsAreComing'
  OBVIOUS
<1>0. 1 .. Parts \subseteq Nat /\ \A i \in 1 .. Parts : 0 < i
  BY CapacityAssumption
<1>1. ASSUME UNCHANGED <<disk, linked, written, cut>>, \A t \in linked : query'[t] = query[t]
      PROVE  PartsAreComing'
  <2>1. \A f : Writers(f)' = Writers(f)
    BY <1>1 DEF Writers, FileOf
  <2> QED
    BY <1>1, <2>1 DEF PartsAreComing
<1>2. ASSUME NEW t \in Task, pc[t] # "write", UNCHANGED file,
             \A u \in Task \ {t} : query'[u] = query[u]
      PROVE  PartsAreComing'
  <2>1. t \notin linked /\ linked \subseteq Task
    BY <1>2 DEF TypeInv, TypeOK
  <2> QED
    BY <1>1, <1>2, <2>1 DEF file
<1>3. ASSUME NEW t \in Task, Create(t) PROVE PartsAreComing'
  <2> DEFINE g == FileOf(query[t])
  <2>1. written[t] = 0
    BY <1>3 DEF Create, TypeInv, CallsWellFormed
  <2>2. \A f : Writers(f) \subseteq Writers(f)'
    BY <1>3 DEF Create, Writers, FileOf
  <2>3. /\ \A f \in DOMAIN disk' : f # g => f \in DOMAIN disk /\ disk'[f] = disk[f]
        /\ written' = written /\ cut' = cut
    BY <1>3 DEF Create, Put
  <2>4. SUFFICES ASSUME ~cut, NEW f \in DOMAIN disk', NEW i \in 1 .. Parts
                 PROVE  i \in disk'[f].parts \/ \E u \in Writers(f)' : written'[u] < i
    BY <2>3 DEF PartsAreComing
  <2>5. CASE f = g
    <3>1. t \in Writers(f)'
      BY <1>3, <2>5 DEF Create, Writers, FileOf
    <3>2. written'[t] < i
      BY <1>0, <2>1, <2>3
    <3> QED
      BY <3>1, <3>2
  <2>6. CASE f # g
    <3>1. i \in disk[f].parts \/ \E u \in Writers(f) : written[u] < i
      BY <2>3, <2>4, <2>6 DEF PartsAreComing
    <3> QED
      BY <2>2, <2>3, <2>6, <3>1
  <2> QED
    BY <2>5, <2>6
<1>4. ASSUME NEW t \in Task, Write(t) PROVE PartsAreComing'
  <2> DEFINE g == FileOf(query[t])
             part == written[t] + 1
  <2>1. written[t] \in Nat /\ part \in 1 .. Parts
    BY <1>0, CapacityAssumption DEF TypeInv, TypeOK
  <2>2. /\ query' = query /\ cut' = cut
        /\ \A u \in Task \ {t} : written'[u] = written[u] /\ (u \in linked' <=> u \in linked)
        /\ t \in linked' => t \in linked /\ written'[t] = part
        /\ t \notin linked' => t \notin linked \/ part = Parts
    BY <1>4 DEF Write, Finished, TypeInv, TypeOK
  <2>3. SUFFICES ASSUME ~cut, NEW f \in DOMAIN disk', NEW i \in 1 .. Parts
                 PROVE  i \in disk'[f].parts \/ \E u \in Writers(f)' : written'[u] < i
    BY <2>2 DEF PartsAreComing
  <2>4. /\ f \in DOMAIN disk
        /\ disk[f].parts \subseteq disk'[f].parts
        /\ t \in Writers(f) => part \in disk'[f].parts
    <3>1. CASE t \in linked
      <4>1. g \in DOMAIN disk /\ disk' = [disk EXCEPT ![g].parts = @ \cup {part}]
        BY <1>4, <3>1 DEF Write, TypeInv, LinkedAreThere
      <4>2. DOMAIN disk' = DOMAIN disk /\ disk[g] \in File
        BY <4>1 DEF TypeInv, TypeOK
      <4>3. disk'[g].parts = disk[g].parts \cup {part}
        BY <4>1, <4>2 DEF File
      <4>4. t \in Writers(f) => f = g
        BY DEF Writers
      <4>5. f # g => disk'[f] = disk[f]
        BY <4>1, <4>2, <2>3
      <4> QED
        BY <2>3, <4>2, <4>3, <4>4, <4>5
    <3>2. CASE t \notin linked
      BY <1>4, <2>3, <3>2 DEF Write, Writers
    <3> QED
      BY <3>1, <3>2
  <2>5. CASE i \in disk[f].parts
    BY <2>4, <2>5
  <2>6. CASE i \notin disk[f].parts
    <3>1. PICK u \in Writers(f) : written[u] < i
      BY <2>3, <2>4, <2>6 DEF PartsAreComing
    <3>2. CASE u # t
      <4>1. u \in Writers(f)' /\ written'[u] = written[u]
        BY <2>2, <3>1, <3>2 DEF Writers, FileOf, TypeInv, TypeOK
      <4> QED
        BY <3>1, <4>1
    <3>3. CASE u = t
      <4>1. i = part \/ part < i
        BY <2>1, <3>1, <3>3
      <4>2. CASE i = part
        BY <2>4, <3>1, <3>3, <4>2
      <4>3. CASE part < i
        <5>1. part # Parts
          BY <2>1, <4>3, CapacityAssumption
        <5>2. t \in linked /\ FileOf(query[t]) = f
          BY <3>1, <3>3 DEF Writers
        <5>3. t \in Writers(f)' /\ written'[t] = part
          BY <2>2, <5>1, <5>2 DEF Writers, FileOf
        <5> QED
          BY <4>3, <5>3
      <4> QED
        BY <4>1, <4>2, <4>3
    <3> QED
      BY <3>2, <3>3
  <2> QED
    BY <2>5, <2>6
<1>5. ASSUME NEW t \in Task, FailWrite(t) PROVE PartsAreComing'
  BY <1>5 DEF FailWrite, PartsAreComing
<1>6. ASSUME NEW p \in Process, Crash(p) PROVE PartsAreComing'
  <2>1. CASE cut'
    BY <2>1 DEF PartsAreComing
  <2>2. CASE ~cut'
    <3>1. ~cut /\ \A t \in linked : Home[t] # p
      BY <1>6, <2>2 DEF Crash, TypeInv, TypeOK
    <3>2. /\ linked' = linked /\ disk' = disk
          /\ \A t \in linked : query'[t] = query[t] /\ written'[t] = written[t]
      BY <1>6, <3>1 DEF Crash, TypeInv, TypeOK
    <3>3. \A f : Writers(f)' = Writers(f) /\ Writers(f) \subseteq linked
      BY <3>2 DEF Writers, FileOf
    <3> QED
      BY <3>1, <3>2, <3>3 DEF PartsAreComing
  <2> QED
    BY <2>1, <2>2
<1>7. ASSUME NEW p \in Process, NEW f \in DOMAIN disk, ClearFile(p, f) PROVE PartsAreComing'
  <2>1. /\ DOMAIN disk' = DOMAIN disk \ {f} /\ \A g \in DOMAIN disk' : disk'[g] = disk[g]
        /\ written' = written /\ cut' = cut
    BY <1>7 DEF ClearFile, Restricted
  <2>2. \A g : g # f => Writers(g)' = Writers(g)
    BY <1>7 DEF ClearFile, Writers, FileOf
  <2> QED
    BY <2>1, <2>2 DEF PartsAreComing
<1>8. ASSUME NEW t \in Task, Step(t) PROVE PartsAreComing'
  <2>1. CASE FailFetch(t) \/ Remember(t)
    BY <1>2, <2>1 DEF FailFetch, Remember, Return, TypeInv, TypeOK
  <2>2. CASE ReadDisk(t) \/ MissDisk(t) \/ Fetch(t) \/ FailCreate(t)
    BY <1>1, <2>2 DEF ReadDisk, MissDisk, Fetch, FailCreate, file
  <2> QED
    BY <1>3, <1>4, <1>5, <1>8, <2>1, <2>2 DEF Step
<1>9. ASSUME NEW t \in Task, NEW q \in Query, Miss(t, q) PROVE PartsAreComing'
  BY <1>2, <1>9 DEF Miss, TypeInv, TypeOK
<1>10. ASSUME NEW p \in Process, ClearMemory(p) \/ ClearReturns(p) PROVE PartsAreComing'
  BY <1>1, <1>10 DEF ClearMemory, ClearReturns, task
<1>11. CASE UNCHANGED vars
  BY <1>1, <1>11 DEF vars
<1> QED
  BY <1>6, <1>7, <1>8, <1>9, <1>10, <1>11 DEF Next

LEMMA InitParts == Init => PartsAreComing
<1> SUFFICES ASSUME Init PROVE PartsAreComing
  OBVIOUS
<1>1. DOMAIN disk = {}
  BY DEF Init
<1> QED
  BY <1>1 DEF PartsAreComing

\* Torn files are transient: unless a write was cut short, a file nobody is
\* writing has all its parts, for any number of writers that truncate it under
\* each other, and any number of parts.
THEOREM DiskIsWholeAtRest == Spec => []AtRestDiskIsWhole
<1>1. TypeInv /\ PartsAreComing => AtRestDiskIsWhole
  <2> SUFFICES ASSUME TypeInv, PartsAreComing, ~cut, NEW f \in DOMAIN disk, Writers(f) = {}
               PROVE  IsWhole(f)
    BY DEF AtRestDiskIsWhole
  <2>1. \A i \in 1 .. Parts : i \in disk[f].parts
    BY DEF PartsAreComing
  <2>2. disk[f].parts \subseteq 1 .. Parts
    BY DEF TypeInv, TypeOK, File
  <2> QED
    BY <2>1, <2>2 DEF IsWhole
<1> QED
  BY <1>1, InitTypeInv, StepTypeInv, InitParts, StepParts, PTL DEF Spec

----------------------------------------------------------------------------
(* Requests to a public server.                                            *)

\* No call is later than allowed.
NotTooLate == \A t \in Waiting : wait[t] >= -MaxLate

\* Booked slots are the interval apart, and so is the next one from all.
SlotsApart ==
    /\ \A t, u \in Waiting :
         t # u => \/ wait[t] >= wait[u] + MinInterval
                  \/ wait[u] >= wait[t] + MinInterval
    /\ \A t \in Waiting : next >= wait[t] + MinInterval

\* Booked slots are far enough from the last send, however late that was.
FarFromLastSend ==
    /\ \A t \in Waiting : quiet + wait[t] >= MinInterval - MaxLate
    /\ quiet + next >= MinInterval - MaxLate

SlotInv == ThrottleTypeOK /\ NotTooLate /\ SlotsApart /\ FarFromLastSend

\* A call only backs off when it has a retry left.
RetryInv ==
    /\ \A t \in Request : phase[t] = "backoff" => attempt[t] < MaxRetries
    /\ RetriesUsedUp

ThrottleInv == SlotInv /\ RetryInv

----------------------------------------------------------------------------

LEMMA InitThrottle == ThrottleInit => ThrottleInv
<1> SUFFICES ASSUME ThrottleInit PROVE ThrottleInv
  OBVIOUS
<1>1. ThrottleTypeOK
  BY TimeAssumption, RetryAssumption DEF ThrottleInit, ThrottleTypeOK, Ended
<1>2. Waiting = {} /\ \A t \in Request : phase[t] = "idle"
  BY DEF ThrottleInit, Waiting
<1> QED
  BY <1>1, <1>2, TimeAssumption
  DEF ThrottleInit, ThrottleInv, SlotInv, NotTooLate, SlotsApart, FarFromLastSend, RetryInv,
      RetriesUsedUp

\* The steps of a call that neither book a slot nor use one; it may give up.
LEMMA QuietStep ==
    ASSUME SlotInv, ThrottleTypeOK', UNCHANGED <<next, quiet>>, Waiting' \subseteq Waiting,
           \A t \in Waiting' : wait'[t] = wait[t]
    PROVE  SlotInv'
BY DEF SlotInv, NotTooLate, SlotsApart, FarFromLastSend

LEMMA StepTypes ==
    ASSUME NEW t \in Request, ThrottleTypeOK, Start(t) \/ CallStep(t) \/ Drop(t)
    PROVE  ThrottleTypeOK'
<1> USE TimeAssumption, RetryAssumption DEF ThrottleTypeOK, Ended
<1>1. CASE Start(t)
  BY <1>1 DEF Start
<1>2. CASE Reserve(t)
  BY <1>2 DEF Reserve, Booked
<1>3. CASE Send(t)
  BY <1>3 DEF Send
<1>4. CASE Answer(t)
  <2>1. RetryDelays(t) \subseteq Int
    <3>1. attempt[t] + 1 \in Int /\ Backoff \in Int
      OBVIOUS
    <3>2. \A a, b \in Int : a * b \in Int
      OBVIOUS
    <3>3. Backoff * (attempt[t] + 1) \in Int
      BY <3>1, <3>2
    <3>4. RetryAfter \subseteq Int
      OBVIOUS
    <3> QED
      BY <3>3, <3>4 DEF RetryDelays
  <2> QED
    BY <1>4, <2>1 DEF Answer
<1>5. CASE Break(t)
  BY <1>5 DEF Break
<1>6. CASE Retry(t)
  BY <1>6 DEF Retry, NextAttempt
<1>7. CASE Drop(t)
  BY <1>7 DEF Drop
<1> QED
  BY <1>1, <1>2, <1>3, <1>4, <1>5, <1>6, <1>7 DEF CallStep

LEMMA StepSlots ==
    ASSUME NEW t \in Request, SlotInv, Start(t) \/ CallStep(t) \/ Drop(t)
    PROVE  SlotInv'
<1>0. ThrottleTypeOK'
  BY StepTypes DEF SlotInv
<1> USE TimeAssumption
<1>1. CASE Reserve(t)
  <2>1. /\ Waiting' = Waiting \cup {t} /\ t \notin Waiting
        /\ wait'[t] = next
        /\ \A u \in Waiting : wait'[u] = wait[u]
        /\ next' = next + MinInterval /\ quiet' = quiet
    BY <1>1 DEF Reserve, Booked, Waiting, SlotInv, ThrottleTypeOK
  <2>2. next \in Nat /\ quiet \in Nat /\ \A u \in Waiting : wait[u] \in Int
    BY DEF SlotInv, ThrottleTypeOK, Waiting
  <2>3. NotTooLate'
    BY <2>1, <2>2 DEF SlotInv, NotTooLate
  <2>4. SlotsApart'
    BY <2>1, <2>2 DEF SlotInv, SlotsApart
  <2>5. FarFromLastSend'
    BY <2>1, <2>2 DEF SlotInv, FarFromLastSend
  <2> QED
    BY <1>0, <2>3, <2>4, <2>5 DEF SlotInv
<1>2. CASE Send(t)
  <2>1. /\ Waiting' = Waiting \ {t} /\ t \in Waiting
        /\ \A u \in Waiting' : wait'[u] = wait[u]
        /\ next' = next /\ quiet' = 0
    BY <1>2 DEF Send, Waiting, SlotInv, ThrottleTypeOK
  <2>2. next \in Nat /\ \A u \in Waiting : wait[u] \in Int
    BY DEF SlotInv, ThrottleTypeOK, Waiting
  <2>3. NotTooLate' /\ SlotsApart'
    BY <2>1 DEF SlotInv, NotTooLate, SlotsApart
  <2>4. ASSUME NEW u \in Waiting' PROVE wait[u] >= MinInterval - MaxLate
    <3>1. u \in Waiting /\ u # t
      BY <2>1
    <3>2. \/ wait[t] >= wait[u] + MinInterval
          \/ wait[u] >= wait[t] + MinInterval
      BY <2>1, <3>1 DEF SlotInv, SlotsApart
    <3>3. wait[u] >= -MaxLate /\ wait[t] >= -MaxLate /\ wait[t] <= 0
      BY <1>2, <2>1, <3>1 DEF SlotInv, NotTooLate, Send
    <3> QED
      BY <2>1, <2>2, <3>1, <3>2, <3>3
  <2>5. next >= MinInterval - MaxLate
    BY <2>1, <2>2 DEF SlotInv, NotTooLate, SlotsApart
  <2>6. FarFromLastSend'
    BY <2>1, <2>2, <2>4, <2>5 DEF FarFromLastSend
  <2> QED
    BY <1>0, <2>3, <2>6 DEF SlotInv
<1>3. CASE Start(t) \/ Answer(t) \/ Break(t) \/ Retry(t) \/ Drop(t)
  <2>1. UNCHANGED <<next, quiet>>
    BY <1>3 DEF Start, Answer, Break, Retry, Drop
  <2>2. Waiting' \subseteq Waiting /\ \A u \in Waiting' : wait'[u] = wait[u]
    BY <1>3 DEF Start, Answer, Break, Retry, Drop, Waiting, SlotInv, ThrottleTypeOK, Ended
  <2> QED
    BY <1>0, <2>1, <2>2, QuietStep
<1> QED
  BY <1>1, <1>2, <1>3 DEF CallStep

LEMMA TickSlots == SlotInv /\ Tick => SlotInv'
<1> SUFFICES ASSUME SlotInv, Tick PROVE SlotInv'
  OBVIOUS
<1> USE TimeAssumption
<1>1. /\ next \in Nat /\ quiet \in 0 .. MinInterval
      /\ \A t \in Waiting : wait[t] \in Int /\ wait[t] > -MaxLate
  BY DEF SlotInv, ThrottleTypeOK, Waiting, Tick
<1>2. /\ Waiting' = Waiting
      /\ \A t \in Waiting : wait'[t] = wait[t] - 1
  BY DEF Tick, Waiting
<1>3. ThrottleTypeOK'
  BY DEF SlotInv, ThrottleTypeOK, Tick, Remaining
<1>4. NotTooLate'
  BY <1>1, <1>2 DEF NotTooLate
<1>5. \A t \in Waiting : next > 0
  BY <1>1 DEF SlotInv, SlotsApart
<1>6. SlotsApart'
  <2>1. \A t \in Waiting : next' = next - 1
    BY <1>5 DEF Tick, Remaining
  <2>2. \A t \in Waiting : next' >= wait'[t] + MinInterval
    BY <1>1, <1>2, <2>1 DEF SlotInv, SlotsApart
  <2>3. \A t, u \in Waiting :
          t # u => \/ wait'[t] >= wait'[u] + MinInterval
                   \/ wait'[u] >= wait'[t] + MinInterval
    BY <1>1, <1>2 DEF SlotInv, SlotsApart
  <2> QED
    BY <1>2, <2>2, <2>3 DEF SlotsApart
<1>7. FarFromLastSend'
  <2>1. quiet' = IF quiet < MinInterval THEN quiet + 1 ELSE quiet
    BY DEF Tick
  <2>2. next' = IF next > 0 THEN next - 1 ELSE 0
    BY DEF Tick, Remaining
  <2>3. \A t \in Waiting : quiet' + wait'[t] >= MinInterval - MaxLate
    BY <1>1, <1>2, <2>1 DEF SlotInv, FarFromLastSend
  <2>4. quiet' + next' >= MinInterval - MaxLate
    BY <1>1, <2>1, <2>2 DEF SlotInv, FarFromLastSend
  <2> QED
    BY <1>2, <2>3, <2>4 DEF FarFromLastSend
<1> QED
  BY <1>3, <1>4, <1>6, <1>7 DEF SlotInv

LEMMA StepRetries ==
    ASSUME NEW t \in Request, ThrottleTypeOK, RetryInv, Start(t) \/ CallStep(t) \/ Drop(t)
    PROVE  RetryInv'
<1> USE RetryAssumption DEF ThrottleTypeOK, RetryInv, RetriesUsedUp
<1>1. CASE Start(t)
  BY <1>1 DEF Start
<1>2. CASE Reserve(t) \/ Send(t)
  BY <1>2 DEF Reserve, Send
<1>3. CASE Answer(t)
  BY <1>3 DEF Answer, RetriesLeft
<1>4. CASE Break(t)
  BY <1>4 DEF Break, Retryable
<1>5. CASE Retry(t)
  BY <1>5 DEF Retry, NextAttempt
<1>6. CASE Drop(t)
  BY <1>6 DEF Drop
<1> QED
  BY <1>1, <1>2, <1>3, <1>4, <1>5, <1>6 DEF CallStep

THEOREM ThrottleInvariance == ThrottleSpec => []ThrottleInv
<1>1. ThrottleInit => ThrottleInv
  BY InitThrottle
<1>2. ThrottleInv /\ [ThrottleNext]_throttleVars => ThrottleInv'
  <2> SUFFICES ASSUME ThrottleInv, [ThrottleNext]_throttleVars PROVE ThrottleInv'
    OBVIOUS
  <2>1. CASE Tick
    <3>1. RetryInv'
      BY <2>1 DEF ThrottleInv, RetryInv, RetriesUsedUp, Tick
    <3> QED
      BY <2>1, <3>1, TickSlots DEF ThrottleInv
  <2>2. ASSUME NEW t \in Request, Start(t) \/ CallStep(t) \/ Drop(t)
       PROVE  ThrottleInv'
    BY <2>2, StepSlots, StepRetries DEF ThrottleInv, SlotInv
  <2>3. CASE UNCHANGED throttleVars
    BY <2>3 DEF throttleVars, ThrottleInv, SlotInv, ThrottleTypeOK, NotTooLate, SlotsApart,
       FarFromLastSend, Waiting, RetryInv, RetriesUsedUp
  <2> QED
    BY <2>1, <2>2, <2>3 DEF ThrottleNext
<1> QED
  BY <1>1, <1>2, PTL DEF ThrottleSpec

\* The state of the calls and of the slots stays well formed.
THEOREM ThrottleTypes == ThrottleSpec => []ThrottleTypeOK
<1>1. ThrottleInv => ThrottleTypeOK
  BY DEF ThrottleInv, SlotInv
<1> QED
  BY <1>1, ThrottleInvariance, PTL

\* Two sends of a process are never closer than the interval less the lateness
\* of a wake-up.
THEOREM SendsAreSpaced == ThrottleSpec => SendsSpaced
<1> DEFINE Spaced == \A t \in Request : Send(t) => quiet >= MinInterval - MaxLate
<1>1. ThrottleInv => Spaced
  <2> SUFFICES ASSUME ThrottleInv, NEW t \in Request, Send(t)
               PROVE  quiet >= MinInterval - MaxLate
    OBVIOUS
  <2>1. t \in Waiting /\ wait[t] \in Int /\ wait[t] <= 0 /\ quiet \in Nat
    BY TimeAssumption DEF Send, Waiting, ThrottleInv, SlotInv, ThrottleTypeOK
  <2>2. quiet + wait[t] >= MinInterval - MaxLate
    BY <2>1 DEF ThrottleInv, SlotInv, FarFromLastSend
  <2> QED
    BY <2>1, <2>2, TimeAssumption
<1> QED
  BY <1>1, ThrottleInvariance, PTL DEF SendsSpaced

\* Transient failures are retried to the last attempt, and a call panics only when
\* it was answered with a status that is neither a success nor an error: never in
\* the code after the retry loop.
THEOREM RetryLoopIsSound == ThrottleSpec => []RetriesUsedUp
<1>1. ThrottleInv => RetriesUsedUp
  BY DEF ThrottleInv, RetryInv
<1> QED
  BY <1>1, ThrottleInvariance, PTL

----------------------------------------------------------------------------
(* No gap between the booked slots.                                        *)

\* The interval before the next slot begins with a booked slot, and so does the
\* interval before each booked slot, unless that is less than an interval ahead.
NoGap ==
    /\ next > MinInterval => \E t \in Booking : wait[t] = next - MinInterval
    /\ \A t \in Booking :
         wait[t] > MinInterval => \E u \in Booking : wait[u] = wait[t] - MinInterval

\* Steps that leave the booked slots and the next one alone.
LEMMA SameSlots ==
    ASSUME NoGap, next' = next, Booking' = Booking, \A t \in Booking : wait'[t] = wait[t]
    PROVE  NoGap'
BY DEF NoGap

LEMMA StepNoGap ==
    ASSUME NEW t \in Request, ThrottleTypeOK, NoGap, Start(t) \/ CallStep(t) \/ Drop(t)
    PROVE  NoGap'
<1> USE TimeAssumption
<1>1. CASE Reserve(t)
  <2>1. /\ wait'[t] = next /\ next' = next + MinInterval /\ next \in Nat
        /\ \A u \in Booking : u # t /\ wait'[u] = wait[u] /\ wait[u] \in Int
        /\ \A u \in Booking' : u \in Booking \/ (u = t /\ next > 0)
        /\ Booking \subseteq Booking' /\ (next > 0 => t \in Booking')
    BY <1>1 DEF Reserve, Booked, Booking, ThrottleTypeOK
  <2>2. next' > MinInterval => \E u \in Booking' : wait'[u] = next' - MinInterval
    BY <2>1
  <2>3. ASSUME NEW v \in Booking', wait'[v] > MinInterval
        PROVE  \E u \in Booking' : wait'[u] = wait'[v] - MinInterval
    <3>1. CASE v \in Booking
      <4>1. PICK u \in Booking : wait[u] = wait[v] - MinInterval
        BY <2>1, <2>3, <3>1 DEF NoGap
      <4> QED
        BY <2>1, <3>1, <4>1
    <3>2. CASE v = t
      <4>1. PICK u \in Booking : wait[u] = next - MinInterval
        BY <2>1, <2>3, <3>2 DEF NoGap
      <4> QED
        BY <2>1, <3>2, <4>1
    <3> QED
      BY <2>1, <3>1, <3>2
  <2> QED
    BY <2>2, <2>3 DEF NoGap
<1>2. CASE Start(t) \/ Send(t) \/ Answer(t) \/ Break(t) \/ Retry(t) \/ Drop(t)
  <2>1. next' = next
    BY <1>2 DEF Start, Send, Answer, Break, Retry, Drop
  <2>2. Booking' = Booking /\ \A u \in Booking : wait'[u] = wait[u]
    <3>1. CASE Start(t)
      BY <3>1 DEF Start, Ended, Booking, ThrottleTypeOK
    <3>2. CASE Send(t)
      BY <3>2 DEF Send, Booking, ThrottleTypeOK
    <3>3. CASE Answer(t)
      <4>1. /\ phase[t] = "sent" /\ phase'[t] \in {"done", "panic", "backoff", "failed"}
            /\ \A u \in Request \ {t} : phase'[u] = phase[u] /\ wait'[u] = wait[u]
        BY <3>3 DEF Answer, ThrottleTypeOK
      <4> QED
        BY <4>1 DEF Booking
    <3>4. CASE Break(t)
      BY <3>4 DEF Break, Booking, ThrottleTypeOK
    <3>5. CASE Retry(t)
      BY <3>5 DEF Retry, Booking, ThrottleTypeOK
    <3>6. CASE Drop(t)
      BY <3>6 DEF Drop, Ended, Booking, ThrottleTypeOK
    <3> QED
      BY <1>2, <3>1, <3>2, <3>3, <3>4, <3>5, <3>6
  <2> QED
    BY <2>1, <2>2, SameSlots
<1> QED
  BY <1>1, <1>2 DEF CallStep

LEMMA TickNoGap == ThrottleTypeOK /\ NoGap /\ Tick => NoGap'
<1> SUFFICES ASSUME ThrottleTypeOK, NoGap, Tick PROVE NoGap'
  OBVIOUS
<1> USE TimeAssumption
<1>1. /\ next \in Nat /\ next' = IF next > 0 THEN next - 1 ELSE 0
      /\ \A t \in Booking : wait[t] \in Int /\ wait[t] > 0 /\ wait'[t] = wait[t] - 1
      /\ Booking' \subseteq Booking /\ \A t \in Booking : wait[t] > 1 => t \in Booking'
  BY DEF Tick, Remaining, Booking, ThrottleTypeOK
<1>2. ASSUME next' > MinInterval PROVE \E t \in Booking' : wait'[t] = next' - MinInterval
  <2>1. next > MinInterval + 1 /\ next' = next - 1
    BY <1>1, <1>2
  <2>2. PICK t \in Booking : wait[t] = next - MinInterval
    BY <1>1, <2>1 DEF NoGap
  <2> QED
    BY <1>1, <2>1, <2>2
<1>3. ASSUME NEW v \in Booking', wait'[v] > MinInterval
      PROVE  \E u \in Booking' : wait'[u] = wait'[v] - MinInterval
  <2>1. v \in Booking /\ wait[v] > MinInterval + 1 /\ wait'[v] = wait[v] - 1
    BY <1>1, <1>3
  <2>2. PICK u \in Booking : wait[u] = wait[v] - MinInterval
    BY <1>1, <2>1 DEF NoGap
  <2> QED
    BY <1>1, <2>1, <2>2
<1> QED
  BY <1>2, <1>3 DEF NoGap

\* The slots booked ahead are as many as the intervals until the next one, but
\* for the first: a slot of a booked call for each would otherwise be missing.
LEMMA SlotsFillTheWait == ThrottleTypeOK /\ NoGap => NoNeedlessWait
<1> SUFFICES ASSUME ThrottleTypeOK, NoGap, ~NoNeedlessWait PROVE FALSE
  OBVIOUS
<1> DEFINE b == Cardinality(Booking)
           m == MinInterval
<1>1. IsFiniteSet(Booking) /\ b \in Nat
  <2>1. Booking \subseteq Request
    BY DEF Booking
  <2>2. IsFiniteSet(Booking)
    BY <2>1, RequestAssumption, FS_Subset
  <2> QED
    BY <2>2, FS_CardinalityType
<1>2. m \in Nat /\ m > 0 /\ next \in Nat
  BY TimeAssumption DEF ThrottleTypeOK
<1>3. next > m * (1 + b)
  BY <1>1, <1>2 DEF NoNeedlessWait
<1>4. \A t \in Booking : wait[t] \in Int
  BY DEF Booking, ThrottleTypeOK
<1> HIDE DEF b, m
<1>5. \A i, j \in Nat : i * m \in Nat /\ (i + 1) * m = i * m + m /\ (i < j => i * m < j * m)
  BY <1>2
<1>6. \A j \in 1 .. b + 1 : next > j * m
  BY <1>1, <1>2, <1>3, <1>5
<1>7. ASSUME NEW j \in 1 .. b + 1 PROVE \E t \in Booking : wait[t] = next - j * m
  <2> DEFINE T == {i \in 1 .. b + 1 : ~\E t \in Booking : wait[t] = next - i * m}
  <2>1. SUFFICES ASSUME T # {} PROVE FALSE
    OBVIOUS
  <2>2. T \in SUBSET Nat
    BY <1>1
  <2>3. PICK i \in T : \A k \in T : i <= k
    BY <2>1, <2>2, LeastElement
  <2>4. i \in 1 .. b + 1 /\ ~\E t \in Booking : wait[t] = next - i * m
    BY <2>3
  <2>5. CASE i = 1
    <3>1. i * m = m
      BY <1>2, <2>5
    <3>2. next > MinInterval /\ next - i * m = next - MinInterval
      BY <1>6, <2>4, <3>1 DEF m
    <3> QED
      BY <2>4, <3>2 DEF NoGap
  <2>6. CASE i # 1
    <3>1. i - 1 \in 1 .. b + 1 /\ i - 1 \in Nat /\ i = (i - 1) + 1 /\ ~(i <= i - 1)
      BY <1>1, <2>4, <2>6
    <3>2. PICK t \in Booking : wait[t] = next - (i - 1) * m
      BY <2>3, <3>1
    <3>3. i * m = (i - 1) * m + m /\ (i - 1) * m \in Nat
      BY <1>5, <3>1
    <3>4. next > i * m
      BY <1>6, <2>4
    <3>5. wait[t] > m /\ wait[t] - m = next - i * m
      BY <1>2, <3>2, <3>3, <3>4
    <3>6. \E u \in Booking : wait[u] = wait[t] - m
      BY <3>5 DEF NoGap, m
    <3> QED
      BY <2>4, <3>5, <3>6
  <2> QED
    BY <2>5, <2>6
<1> DEFINE f == [j \in 1 .. b + 1 |-> CHOOSE t \in Booking : wait[t] = next - j * m]
<1>8. \A j \in 1 .. b + 1 : f[j] \in Booking /\ wait[f[j]] = next - j * m
  BY <1>7
<1>9. f \in [1 .. b + 1 -> Booking]
  BY <1>7
<1>10. IsFiniteSet(1 .. b + 1) /\ Cardinality(1 .. b + 1) = b + 1
  <2>1. 1 \in Int /\ b + 1 \in Int /\ ~(1 > b + 1) /\ (b + 1) - 1 + 1 = b + 1
    BY <1>1
  <2> QED
    BY <2>1, FS_Interval
<1> HIDE DEF f
<1>11. PICK x, y \in 1 .. b + 1 : x # y /\ f[x] = f[y]
  <2>1. Cardinality(Booking) < Cardinality(1 .. b + 1)
    BY <1>1, <1>10 DEF b
  <2> QED
    BY <1>1, <1>9, <1>10, <2>1, FS_PigeonHole
<1>12. x * m = y * m
  <2>1. x \in Nat /\ y \in Nat /\ x * m \in Nat /\ y * m \in Nat
    BY <1>1, <1>5
  <2> QED
    BY <1>2, <1>8, <1>11, <2>1
<1> QED
  BY <1>1, <1>5, <1>11, <1>12

\* Nobody waits longer than for the slots booked ahead: the wait is never more
\* than an interval for each of them and one more, however calls start, retry,
\* come late and are dropped.
THEOREM WaitsAreNeeded == ThrottleSpec => []NoNeedlessWait
<1>1. ThrottleInit => NoGap
  BY TimeAssumption DEF ThrottleInit, NoGap, Booking
<1>2. ThrottleTypeOK /\ NoGap /\ [ThrottleNext]_throttleVars => NoGap'
  <2> SUFFICES ASSUME ThrottleTypeOK, NoGap, [ThrottleNext]_throttleVars PROVE NoGap'
    OBVIOUS
  <2>1. CASE UNCHANGED throttleVars
    BY <2>1 DEF throttleVars, NoGap, Booking
  <2> QED
    BY <2>1, StepNoGap, TickNoGap DEF ThrottleNext
<1> QED
  BY <1>1, <1>2, SlotsFillTheWait, ThrottleTypes, PTL DEF ThrottleSpec

=============================================================================
