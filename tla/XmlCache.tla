------------------------------ MODULE XmlCache ------------------------------
(***************************************************************************)
(* The two-level cache of Overpass responses (cache.rs) and the fetches    *)
(* that use it (poi.rs fetch_xml_cached, isochrone.rs                      *)
(* calculate_isochrones_from_point): a bounded memory cache in each        *)
(* process behind a mutex, and one directory of files that all processes   *)
(* write, read and delete without a lock.                                  *)
(*                                                                         *)
(* A response is [query, whole]: the query it answers, and whether all of  *)
(* it is there.  A file is [query, parts]: the parts present of those that *)
(* its writers write one after the other.  The same query is taken to get  *)
(* the same response.                                                      *)
(***************************************************************************)
EXTENDS Naturals, Sequences, SequencesExt

CONSTANTS
    Process,
    Python,     \* the processes that run the Python extension
    Task,       \* concurrent callers
    Home,       \* Home[t] is the process of task t
    Query,
    Path,       \* Path[q]: the file of query q
    Asks,       \* Asks[t]: the queries task t may make
    Capacity,   \* XML_CACHE_CAPACITY
    Parts,      \* the number of parts a file is written in
    None        \* no response

ASSUME ProcessAssumption ==
    /\ Python \subseteq Process
    /\ Home \in [Task -> Process]
    /\ Asks \in [Task -> (SUBSET Query) \ {{}}]

ASSUME CapacityAssumption == Capacity \in Nat \ {0} /\ Parts \in Nat \ {0}

\* The 64-bit FNV-1a hashes of the queries in use do not collide.
ASSUME PathAssumption == \A q, r \in Query : Path[q] = Path[r] => q = r

VARIABLES
    entries,    \* entries[p]: the memory cache, from queries to responses
    order,      \* order[p]: its queries in the order they came
    disk,       \* the cache directory, from paths to responses
    clearing,   \* the processes inside clear_cache
    cut,        \* history: a write was cut short, by an error or a crash
    query,      \* query[t]: what t asks for
    xml,        \* xml[t]: the response t holds
    linked,     \* the tasks whose open file is still at its path
    written,    \* written[t]: how many parts t has written
    pc          \* "idle", "disk", "fetch", "create", "write", "insert"

vars == <<entries, order, disk, clearing, cut, query, xml, linked,
          written, pc>>
memory == <<entries, order>>
task == <<query, xml, linked, written, pc>>
file == <<disk, linked, written, cut>>

Response == [query : Query, whole : BOOLEAN]
File == [query : Query, parts : SUBSET (1 .. Parts)]
IsWhole(f) == disk[f].parts = 1 .. Parts

Restricted(f, S) == [x \in S |-> f[x]]
Put(f, k, v) == [x \in DOMAIN f \cup {k} |-> IF x = k THEN v ELSE f[x]]

----------------------------------------------------------------------------

\* Mutants of Pushed: the key is pushed again when it is known already; the test
\* comes after the insert, so that no key is ever pushed.
AlwaysPushed(p, q) == Append(order[p], q)
NeverPushed(p, q) == order[p]

\* `if !self.entries.contains_key(&query) { self.order.push_back(query) }`.
Pushed(p, q) == IF q \in DOMAIN entries[p] THEN order[p] ELSE Append(order[p], q)

\* Keys left after the k oldest were popped.
Left(keys, queue, k) == keys \ {queue[i] : i \in 1 .. k}

\* The numbers of pops after which `while entries.len() > XML_CACHE_CAPACITY`
\* may stop.  With an empty set the loop spins for ever, holding the mutex.
Pops(keys, queue) ==
    {k \in 0 .. Len(queue) : Cardinality(Left(keys, queue, k)) <= Capacity}

\* XmlCache::put.
Insert(p, q, response) ==
    LET all == Put(entries[p], q, response)
        queue == Pushed(p, q)
    IN  \E k \in Pops(DOMAIN all, queue) :
          /\ \A j \in Pops(DOMAIN all, queue) : k <= j
          /\ entries' = [entries EXCEPT ![p] = Restricted(all, Left(DOMAIN all, queue, k))]
          /\ order' = [order EXCEPT ![p] = SubSeq(queue, k + 1, Len(queue))]

\* Mutant of FileOf: the query left out of the file name.
OneFile(q) == Path[CHOOSE r \in Query : TRUE]

\* disk_xml_path.
FileOf(q) == Path[q]

\* The tasks that have f's present file open for writing.
Writers(f) == {t \in linked : FileOf(query[t]) = f}

----------------------------------------------------------------------------

Init ==
    /\ entries = [p \in Process |-> << >>]
    /\ order = [p \in Process |-> << >>]
    /\ disk = << >>
    /\ clearing = {}
    /\ cut = FALSE
    /\ query = [t \in Task |-> None]
    /\ xml = [t \in Task |-> None]
    /\ linked = {}
    /\ written = [t \in Task |-> 0]
    /\ pc = [t \in Task |-> "idle"]

\* block_on keeps the GIL: a Python process runs one call at a time.
GilFree(p) ==
    p \in Python => p \notin clearing /\ \A t \in Task : Home[t] = p => pc[t] = "idle"

\* The call starts with check_xml_cache.  On a hit it returns what the memory
\* holds and changes nothing.
Miss(t, q) ==
    /\ pc[t] = "idle"
    /\ GilFree(Home[t])
    /\ q \in Asks[t]
    /\ q \notin DOMAIN entries[Home[t]]
    /\ query' = [query EXCEPT ![t] = q]
    /\ pc' = [pc EXCEPT ![t] = "disk"]
    /\ UNCHANGED <<memory, file, clearing, xml>>

\* check_disk_xml_cache finds a file and reads what is there.
ReadDisk(t) ==
    /\ pc[t] = "disk"
    /\ FileOf(query[t]) \in DOMAIN disk
    /\ LET f == FileOf(query[t]) IN
         xml' = [xml EXCEPT ![t] = [query |-> disk[f].query, whole |-> IsWhole(f)]]
    /\ pc' = [pc EXCEPT ![t] = "insert"]
    /\ UNCHANGED <<memory, file, clearing, query>>

\* There is no file, or reading it fails: an I/O error, text cut in the middle
\* of a character.
MissDisk(t) ==
    /\ pc[t] = "disk"
    /\ pc' = [pc EXCEPT ![t] = "fetch"]
    /\ UNCHANGED <<memory, file, clearing, query, xml>>

\* make_request answers.
Fetch(t) ==
    /\ pc[t] = "fetch"
    /\ xml' = [xml EXCEPT ![t] = [query |-> query[t], whole |-> TRUE]]
    /\ pc' = [pc EXCEPT ![t] = "create"]
    /\ UNCHANGED <<memory, file, clearing, query>>

Return(t) ==
    /\ query' = [query EXCEPT ![t] = None]
    /\ xml' = [xml EXCEPT ![t] = None]
    /\ pc' = [pc EXCEPT ![t] = "idle"]

\* make_request fails, and the error is returned, or panics (Answer of Throttle)
\* and the call unwinds; or the caller drops it, for which this await is the only
\* place.  No lock is held and nothing is left behind in any of the three.
FailFetch(t) ==
    /\ pc[t] = "fetch"
    /\ Return(t)
    /\ UNCHANGED <<memory, file, clearing>>

\* write_disk_xml_cache: create_dir_all, then fs::write opens the file, which
\* truncates it.
Create(t) ==
    /\ pc[t] = "create"
    /\ disk' = Put(disk, FileOf(query[t]), [query |-> query[t], parts |-> {}])
    /\ linked' = linked \cup {t}
    /\ pc' = [pc EXCEPT ![t] = "write"]
    /\ UNCHANGED <<memory, clearing, cut, query, xml, written>>

\* The directory or the file cannot be created: ignored.
FailCreate(t) ==
    /\ pc[t] = "create"
    /\ pc' = [pc EXCEPT ![t] = "insert"]
    /\ UNCHANGED <<memory, file, clearing, query, xml>>

\* Mutants of Finished: one write call, which may be short, and no second; one
\* write too many.
FinishedAtOnce(t) == TRUE
FinishedLate(t) == written[t] = Parts

\* Whether fs::write is done with the next part.
Finished(t) == written[t] + 1 = Parts

\* fs::write writes the next part where it has got to in its open file, whether
\* or not that was truncated meanwhile, or unlinked; then it closes the file.
Write(t) ==
    LET f == FileOf(query[t]) IN
    /\ pc[t] = "write"
    /\ IF t \in linked
         THEN disk' = [disk EXCEPT ![f].parts = @ \cup {written[t] + 1}]
         ELSE UNCHANGED disk
    /\ IF Finished(t)
         THEN /\ linked' = linked \ {t}
              /\ written' = [written EXCEPT ![t] = 0]
              /\ pc' = [pc EXCEPT ![t] = "insert"]
         ELSE /\ written' = [written EXCEPT ![t] = @ + 1]
              /\ UNCHANGED <<linked, pc>>
    /\ UNCHANGED <<memory, clearing, cut, query, xml>>

\* fs::write fails half-way (a full disk): ignored, and the file stays.
FailWrite(t) ==
    /\ pc[t] = "write"
    /\ cut' = TRUE
    /\ linked' = linked \ {t}
    /\ written' = [written EXCEPT ![t] = 0]
    /\ pc' = [pc EXCEPT ![t] = "insert"]
    /\ UNCHANGED <<memory, disk, clearing, query, xml>>

\* insert_into_xml_cache, after a disk hit or a fetch; the call returns.
Remember(t) ==
    /\ pc[t] = "insert"
    /\ Insert(Home[t], query[t], xml[t])
    /\ Return(t)
    /\ UNCHANGED <<file, clearing>>

\* clear_cache empties the memory first.
ClearMemory(p) ==
    /\ p \in Python
    /\ GilFree(p)
    /\ entries' = [entries EXCEPT ![p] = << >>]
    /\ order' = [order EXCEPT ![p] = << >>]
    /\ clearing' = clearing \cup {p}
    /\ UNCHANGED <<disk, cut, task>>

\* remove_dir_all unlinks one file.
ClearFile(p, f) ==
    /\ p \in clearing
    /\ f \in DOMAIN disk
    /\ disk' = Restricted(disk, DOMAIN disk \ {f})
    /\ linked' = linked \ Writers(f)
    /\ UNCHANGED <<memory, clearing, cut, query, xml, written, pc>>

\* clear_disk_cache returns, done or with an error on the way.
ClearReturns(p) ==
    /\ p \in clearing
    /\ clearing' = clearing \ {p}
    /\ UNCHANGED <<memory, disk, cut, task>>

\* The process dies and another takes its place.
Crash(p) ==
    LET own == {t \in Task : Home[t] = p} IN
    /\ entries' = [entries EXCEPT ![p] = << >>]
    /\ order' = [order EXCEPT ![p] = << >>]
    /\ clearing' = clearing \ {p}
    /\ cut' = (cut \/ \E t \in own : pc[t] = "write")
    /\ linked' = linked \ own
    /\ query' = [t \in Task |-> IF t \in own THEN None ELSE query[t]]
    /\ xml' = [t \in Task |-> IF t \in own THEN None ELSE xml[t]]
    /\ written' = [t \in Task |-> IF t \in own THEN 0 ELSE written[t]]
    /\ pc' = [t \in Task |-> IF t \in own THEN "idle" ELSE pc[t]]
    /\ UNCHANGED disk

\* What a call does once it has started.
Step(t) ==
    \/ ReadDisk(t) \/ MissDisk(t) \/ Fetch(t) \/ FailFetch(t)
    \/ Create(t) \/ FailCreate(t) \/ Write(t) \/ FailWrite(t) \/ Remember(t)

Next ==
    \/ \E t \in Task : Step(t) \/ \E q \in Query : Miss(t, q)
    \/ \E p \in Process : ClearMemory(p) \/ ClearReturns(p) \/ Crash(p)
    \/ \E p \in Process, f \in DOMAIN disk : ClearFile(p, f)

Spec == Init /\ [][Next]_vars

\* A started call runs on, and make_request answers or fails (see Throttle).
FairSpec == Spec /\ \A t \in Task : WF_vars(Step(t))

----------------------------------------------------------------------------

TypeOK ==
    /\ \A p \in Process :
         /\ DOMAIN entries[p] \subseteq Query
         /\ \A q \in DOMAIN entries[p] : entries[p][q] \in Response
         /\ order[p] \in Seq(Query)
    /\ DOMAIN disk \subseteq {Path[q] : q \in Query}
    /\ \A f \in DOMAIN disk : disk[f] \in File
    /\ clearing \subseteq Python
    /\ cut \in BOOLEAN
    /\ query \in [Task -> Query \cup {None}]
    /\ xml \in [Task -> Response \cup {None}]
    /\ linked \subseteq {t \in Task : pc[t] = "write"}
    /\ written \in [Task -> 0 .. Parts - 1]
    /\ pc \in [Task -> {"idle", "disk", "fetch", "create", "write", "insert"}]

\* Whatever two tasks of a process insert after missing the same query, the
\* eviction queue holds every cached query once and the cache stays within its
\* capacity.  It is what makes put's eviction loop end: with a queue that lost a
\* key the loop spins with the mutex held.
MemoryWellFormed ==
    \A p \in Process :
        /\ {order[p][i] : i \in DOMAIN order[p]} = DOMAIN entries[p]
        /\ \A i, j \in DOMAIN order[p] : order[p][i] = order[p][j] => i = j
        /\ Len(order[p]) <= Capacity

\* No interleaving of tasks, processes, evictions and deletions answers a query
\* with the response to another one.
OwnAnswer ==
    /\ \A t \in Task : xml[t] # None => xml[t].query = query[t]
    /\ \A p \in Process : \A q \in DOMAIN entries[p] : entries[p][q].query = q
    /\ \A q \in Query : Path[q] \in DOMAIN disk => disk[Path[q]].query = q

\* Torn files are transient: while no write was ever cut short, a file that
\* nobody is writing is whole, whoever wrote, truncated or deleted it meanwhile.
AtRestDiskIsWhole ==
    ~cut => \A f \in DOMAIN disk : Writers(f) = {} => IsWhole(f)

\* Every call returns (or dies with its process).
CallsReturn == \A t \in Task : pc[t] # "idle" ~> pc[t] = "idle"

\* "Returns None on any error — a cache miss is always safe" (cache.rs:105-106):
\* what a call is about to return, or a hit would, is a whole response.
ServedWhole ==
    /\ \A t \in Task : pc[t] = "insert" => xml[t].whole
    /\ \A p \in Process : \A q \in DOMAIN entries[p] : entries[p][q].whole

=============================================================================
