---------------------------- MODULE GpuMemoryPool ----------------------------
(***************************************************************************)
(* The pool of device blocks (GpuMemoryPool) and the table of buffers that *)
(* Python's DeviceTensor holds (DeviceBufferManager) above it.  Kernels    *)
(* and copies run later, in the order of their stream; a block goes back   *)
(* to the pool while work on it may still be queued.                       *)
(***************************************************************************)
EXTENDS Integers, FiniteSets, Sequences, SequencesExt, FiniteSetTheorems,
        WellFoundedInduction, TLAPS

CONSTANTS
  Thread,        \* host threads
  Block,         \* device addresses
  Size,          \* sizes in bytes a caller may ask for
  Stream,        \* streams kernels run on
  MaxPooled,     \* max_pooled_bytes_
  EventsFail,    \* cuEventCreate and cuEventRecord may fail
  MaxAcquisitions, \* calls of acquire over a behaviour
  MaxWork,       \* items in one stream
  MaxEvents      \* bounds the releases that are refused

NoEvent == 0
NoBlock == "none"

ConstantsAssumption ==
  /\ Size \subseteq Nat \ {0}
  /\ MaxPooled \in Nat /\ MaxAcquisitions \in Nat /\ MaxWork \in Nat /\ MaxEvents \in Nat
  /\ EventsFail \in BOOLEAN
  /\ NoBlock \notin Block
  /\ Thread \cap [id : Nat, block : Block \cup {NoBlock}, size : Nat] = {}

VARIABLES
  mutex,       \* thread inside the critical section of the pool
  freeLists,   \* [Size -> addresses, oldest first; some may be stale]
  sizes,       \* allocation_sizes_: [Block -> size, 0 when unknown]
  entries,     \* pooled_entries_: [Block -> [size, fence]], size 0 when not pooled
  order,       \* pooled_order_
  pooledBytes,
  live,        \* live_allocations_: set of handles [id, block, size]
  handles,     \* handles the program has been given
  nextId,      \* next_alloc_id_
  pc, want, block, event, victims, handle,  \* what each thread is doing
  awaited,     \* [Thread -> [Stream -> items a synchronization still waits for]]
  tried,       \* candidates the running acquisition looked at
  driver,      \* [Block -> size the driver has allocated at it, or 0]
  queue,       \* [Stream -> work not yet executed]
  signalled,   \* events that have been reached
  events,      \* events recorded so far
  holders,     \* [Block -> threads and handles that may use it]
  tenure,      \* [Block -> times it was handed out]
  acquisitions \* calls of acquire so far

pool == <<freeLists, sizes, entries, order, pooledBytes>>
table == <<live, handles, nextId>>
locals == <<want, block, event, victims, handle>>
gpu == <<queue, awaited, signalled, events>>
vars == <<mutex, pool, table, pc, locals, tried, driver, gpu, holders, tenure, acquisitions>>

NotPooled == [size |-> 0, fence |-> NoEvent]
NoHandle == [id |-> 0, block |-> NoBlock, size |-> 0]

Init ==
  /\ mutex = "free"
  /\ freeLists = [n \in Size |-> <<>>]
  /\ sizes = [b \in Block |-> 0]
  /\ entries = [b \in Block |-> NotPooled]
  /\ order = <<>> /\ pooledBytes = 0
  /\ live = {} /\ handles = {} /\ nextId = 1
  /\ pc = [t \in Thread |-> "idle"]
  /\ want = [t \in Thread |-> 0]
  /\ block = [t \in Thread |-> NoBlock]
  /\ event = [t \in Thread |-> NoEvent]
  /\ victims = [t \in Thread |-> <<>>]
  /\ handle = [t \in Thread |-> NoHandle]
  /\ tried = <<>>
  /\ driver = [b \in Block |-> 0]
  /\ queue = [s \in Stream |-> <<>>]
  /\ awaited = [t \in Thread |-> [s \in Stream |-> 0]]
  /\ signalled = {} /\ events = 0
  /\ holders = [b \in Block |-> {}]
  /\ tenure = [b \in Block |-> 0]
  /\ acquisitions = 0

Goto(t, next) == pc' = [pc EXCEPT ![t] = next]

------------------------------------------------------------------------------
(* acquire *)

\* A thread asks for a block, for itself or for a handle.
Acquire(t, n, forHandle) ==
  /\ pc[t] = "idle" /\ mutex = "free" /\ acquisitions < MaxAcquisitions
  /\ acquisitions' = acquisitions + 1
  /\ mutex' = t
  /\ want' = [want EXCEPT ![t] = n]
  /\ handle' = [handle EXCEPT ![t] = IF forHandle THEN [NoHandle EXCEPT !.size = n] ELSE NoHandle]
  /\ tried' = <<>>
  /\ Goto(t, "scan")
  /\ UNCHANGED <<pool, table, block, event, victims, driver, gpu, holders, tenure>>

\* The free list may hold addresses that were evicted or are in use again.
IsValidPooledEntry(b, n) == entries[b].size = n

\* Fault: a block is taken whatever its fence says.
FencePending_Never(b) == FALSE

\* cuEventQuery of the entry's fence answers NOT_READY.
FencePending(b) == entries[b].fence # NoEvent /\ entries[b].fence \notin signalled

\* What holds the block after it is handed out: a thread, or a buffer whose
\* handle is made next.
Grant(t, b) ==
  /\ holders' = [holders EXCEPT ![b] = @ \cup {t}]
  /\ tenure' = [tenure EXCEPT ![b] = @ + 1]
  /\ block' = [block EXCEPT ![t] = b]
  /\ Goto(t, IF handle[t] # NoHandle THEN "enter" ELSE "idle")

\* One turn of the loop over the free list, with the mutex held.
ScanStale(t) ==
  LET list == freeLists[want[t]]
  IN /\ pc[t] = "scan" /\ list # <<>>
     /\ ~IsValidPooledEntry(Last(list), want[t])
     /\ freeLists' = [freeLists EXCEPT ![want[t]] = Front(list)]
     /\ UNCHANGED <<mutex, sizes, entries, order, pooledBytes, table, pc, locals, tried,
                    driver, gpu, holders, tenure, acquisitions>>

ScanBusy(t) ==
  LET list == freeLists[want[t]]
  IN /\ pc[t] = "scan" /\ list # <<>>
     /\ IsValidPooledEntry(Last(list), want[t]) /\ FencePending(Last(list))
     /\ freeLists' = [freeLists EXCEPT ![want[t]] = <<Last(list)>> \o Front(list)]
     /\ tried' = IF Len(tried) > Cardinality(Block) THEN tried ELSE Append(tried, Last(list))
     /\ UNCHANGED <<mutex, sizes, entries, order, pooledBytes, table, pc, locals,
                    driver, gpu, holders, tenure, acquisitions>>
ScanTake(t) ==
  LET list == freeLists[want[t]]
      b == Last(list)
  IN /\ pc[t] = "scan" /\ list # <<>>
     /\ IsValidPooledEntry(b, want[t]) /\ ~FencePending(b)
     /\ freeLists' = [freeLists EXCEPT ![want[t]] = Front(list)]
     /\ \E i \in DOMAIN order : order[i] = b /\ order' = RemoveAt(order, i)
     /\ entries' = [entries EXCEPT ![b] = NotPooled]
     /\ pooledBytes' = pooledBytes - want[t]
     /\ mutex' = "free"
     /\ Grant(t, b)
     /\ tried' = <<>>
     /\ UNCHANGED <<sizes, table, want, event, victims, handle, driver, gpu, acquisitions>>

ScanNothing(t) ==
  /\ pc[t] = "scan" /\ freeLists[want[t]] = <<>>
  /\ mutex' = "free"
  /\ Goto(t, "alloc")
  /\ tried' = <<>>
  /\ UNCHANGED <<pool, table, locals, driver, gpu, holders, tenure, acquisitions>>

\* cuMemAlloc, outside the mutex; it may fail the call.
DriverAlloc(t) ==
  /\ pc[t] = "alloc"
  /\ \/ \E b \in Block :
          /\ driver[b] = 0
          /\ driver' = [driver EXCEPT ![b] = want[t]]
          /\ block' = [block EXCEPT ![t] = b]
          /\ Goto(t, "register")
          /\ UNCHANGED handle
     \/ /\ handle' = [handle EXCEPT ![t] = NoHandle]
        /\ Goto(t, "idle")
        /\ UNCHANGED <<driver, block>>
  /\ UNCHANGED <<mutex, pool, table, want, event, victims, tried, gpu, holders, tenure, acquisitions>>

RegisterSize(t) ==
  /\ pc[t] = "register" /\ mutex = "free"
  /\ sizes' = [sizes EXCEPT ![block[t]] = want[t]]
  /\ Grant(t, block[t])
  /\ UNCHANGED <<mutex, freeLists, entries, order, pooledBytes, table, want, event,
                 victims, handle, tried, driver, gpu, acquisitions>>

------------------------------------------------------------------------------
(* release *)

\* The caller is done with the block on stream s: mark the place in the stream.
\* An event that cannot be made or recorded leaves the block without a fence.
Release(t, b, s) ==
  /\ pc[t] = "idle" /\ t \in holders[b]
  /\ \A s2 \in Stream \ {s} : \A i \in DOMAIN queue[s2] : queue[s2][i].block # b
  /\ holders' = [holders EXCEPT ![b] = @ \ {t}]
  /\ block' = [block EXCEPT ![t] = b]
  /\ \/ /\ Len(queue[s]) < MaxWork
        /\ events' = events + 1
        /\ queue' = [queue EXCEPT ![s] = Append(@, [block |-> NoBlock, mark |-> events + 1])]
        /\ event' = [event EXCEPT ![t] = events + 1]
     \/ /\ EventsFail
        /\ event' = [event EXCEPT ![t] = NoEvent]
        /\ UNCHANGED <<queue, events>>
  /\ Goto(t, "release")
  /\ UNCHANGED <<mutex, pool, table, want, victims, handle, tried, driver, awaited, signalled, tenure, acquisitions>>

\* The bytes of a set of entries: a pair for every byte of every block.
BytesOf(S, e) == UNION {{b} \X (1..e[b].size) : b \in S}
Bytes(S, e) == Cardinality(BytesOf(S, e))

\* How many blocks leave the pool, oldest first, until it is within its limit.
Evict(newOrder, newEntries, bytes) ==
  LET gone(k) == ToSet(SubSeq(newOrder, 1, k))
      enough == {k \in 0..Len(newOrder) : bytes - Bytes(gone(k), newEntries) <= MaxPooled}
  IN IF enough = {} THEN Len(newOrder) ELSE CHOOSE i \in enough : \A j \in enough : i <= j

\* The critical section: unknown and pooled addresses are refused, the block
\* is pooled, and old blocks are chosen to be given back.  Their addresses
\* stay behind in the free lists.
Pool(t) ==
  LET b == block[t]
      n == sizes[b]
      newOrder == Append(order, b)
      newEntries == [entries EXCEPT ![b] = [size |-> n, fence |-> event[t]]]
      k == Evict(newOrder, newEntries, pooledBytes + n)
      gone == SubSeq(newOrder, 1, k)
      out == ToSet(gone)
  IN /\ pc[t] = "release" /\ mutex = "free"
     /\ n # 0 /\ entries[b] = NotPooled
     /\ freeLists' = [freeLists EXCEPT ![n] = Append(@, b)]
     /\ order' = SubSeq(newOrder, k + 1, Len(newOrder))
     /\ entries' = [x \in Block |-> IF x \in out THEN NotPooled ELSE newEntries[x]]
     /\ sizes' = [x \in Block |-> IF x \in out THEN 0 ELSE sizes[x]]
     /\ pooledBytes' = (pooledBytes + n) - Bytes(out, newEntries)
     /\ victims' = [victims EXCEPT ![t] = gone]
     /\ Goto(t, IF out = {} THEN "idle" ELSE "freeing")
     /\ event' = [event EXCEPT ![t] = NoEvent]
     /\ UNCHANGED <<mutex, table, want, block, handle, tried, driver, gpu, holders, tenure, acquisitions>>

\* Releasing an address the pool does not know, or has pooled already, fails
\* and leaves the pool alone; the event is in the stream by then.
PoolRefuses(t, b, s) ==
  /\ pc[t] = "idle" /\ mutex = "free" /\ holders[b] = {}
  /\ sizes[b] = 0 \/ entries[b] # NotPooled
  /\ Len(queue[s]) < MaxWork /\ events < MaxEvents
  /\ events' = events + 1
  /\ queue' = [queue EXCEPT ![s] = Append(@, [block |-> NoBlock, mark |-> events + 1])]
  /\ UNCHANGED <<mutex, pool, table, pc, locals, tried, driver, awaited, signalled, holders, tenure, acquisitions>>

\* cuMemFree waits for the work that uses the block.
DriverFree(t) ==
  LET b == Head(victims[t])
  IN /\ pc[t] = "freeing"
     /\ \A s \in Stream : \A i \in DOMAIN queue[s] : queue[s][i].block # b
     /\ driver' = [driver EXCEPT ![b] = 0]
     /\ victims' = [victims EXCEPT ![t] = Tail(@)]
     /\ Goto(t, IF Len(victims[t]) = 1 THEN "idle" ELSE "freeing")
     /\ UNCHANGED <<mutex, pool, table, want, block, event, handle, tried, gpu, holders, tenure, acquisitions>>

------------------------------------------------------------------------------
(* DeviceBufferManager *)

\* allocate, after acquire: the handle enters the table.
EnterHandle(t) ==
  LET h == [id |-> nextId, block |-> block[t], size |-> want[t]]
  IN /\ pc[t] = "enter"
     /\ nextId' = nextId + 1
     /\ live' = live \cup {h} /\ handles' = handles \cup {h}
     /\ holders' = [holders EXCEPT ![block[t]] = (@ \ {t}) \cup {h}]
     /\ handle' = [handle EXCEPT ![t] = NoHandle]
     /\ Goto(t, "idle")
     /\ UNCHANGED <<mutex, pool, want, block, event, victims, tried, driver, gpu, tenure, acquisitions>>

\* free: the handle leaves the table first; a handle that is not in it fails.
FreeHandle(t, h) ==
  /\ pc[t] = "idle" /\ h \in live
  /\ live' = live \ {h}
  /\ block' = [block EXCEPT ![t] = h.block]
  /\ holders' = [holders EXCEPT ![h.block] = @ \ {h}]
  /\ awaited' = [awaited EXCEPT ![t] = [s \in Stream |-> Len(queue[s])]]
  /\ Goto(t, "synchronize")
  /\ UNCHANGED <<mutex, pool, handles, nextId, want, event, victims, handle, tried, driver,
                 queue, signalled, events, tenure, acquisitions>>

\* cuCtxSynchronize waits for what was queued before it; then release without
\* a stream.
Synchronize(t) ==
  /\ pc[t] = "synchronize" /\ \A s \in Stream : awaited[t][s] = 0
  /\ event' = [event EXCEPT ![t] = NoEvent]
  /\ Goto(t, "release")
  /\ UNCHANGED <<mutex, pool, table, want, block, victims, handle, tried, driver, gpu, holders, tenure, acquisitions>>

\* validateLive: the handle is in the table with its address.
ValidateLive(h) == h \in live

\* upload and download: validateLive, then the copy, with the table's mutex
\* released in between.
StartCopy(t, h, direction) ==
  /\ pc[t] = "idle" /\ ValidateLive(h)
  /\ handle' = [handle EXCEPT ![t] = h]
  /\ Goto(t, direction)
  /\ UNCHANGED <<mutex, pool, table, want, block, event, victims, tried, driver, gpu,
                 holders, tenure, acquisitions>>

Upload(t, h) == StartCopy(t, h, "upload")

Download(t, h) == StartCopy(t, h, "download")

Copy(t) ==
  /\ pc[t] \in {"upload", "download"}
  /\ handle' = [handle EXCEPT ![t] = NoHandle]
  /\ Goto(t, "idle")
  /\ UNCHANGED <<mutex, pool, table, want, block, event, victims, tried, driver, gpu,
                 holders, tenure, acquisitions>>

------------------------------------------------------------------------------
(* The program's kernels, and the device. *)

\* A kernel or copy is queued that uses a block its issuer may use.
Launch(t, b, s) ==
  /\ pc[t] = "idle" /\ Len(queue[s]) < MaxWork
  /\ t \in holders[b] \/ \E h \in live : h \in holders[b]
  /\ queue' = [queue EXCEPT ![s] = Append(@, [block |-> b, mark |-> tenure[b]])]
  /\ UNCHANGED <<mutex, pool, table, pc, locals, tried, driver, awaited, signalled, events, holders, tenure, acquisitions>>

DeviceStep(s) ==
  /\ queue[s] # <<>>
  /\ queue' = [queue EXCEPT ![s] = Tail(@)]
  /\ awaited' = [t \in Thread |-> [awaited[t] EXCEPT ![s] = IF @ = 0 THEN 0 ELSE @ - 1]]
  /\ signalled' = IF Head(queue[s]).block = NoBlock
                    THEN signalled \cup {Head(queue[s]).mark} ELSE signalled
  /\ UNCHANGED <<mutex, pool, table, pc, locals, tried, driver, events, holders, tenure, acquisitions>>

PoolStep(t) ==
  \/ ScanStale(t) \/ ScanBusy(t) \/ ScanTake(t) \/ ScanNothing(t) \/ DriverAlloc(t)
  \/ RegisterSize(t) \/ Pool(t) \/ DriverFree(t) \/ EnterHandle(t)
  \/ Synchronize(t) \/ Copy(t)

Next ==
  \/ \E t \in Thread :
       \/ PoolStep(t)
       \/ \E n \in Size, forHandle \in BOOLEAN : Acquire(t, n, forHandle)
       \/ \E b \in Block, s \in Stream : Release(t, b, s) \/ PoolRefuses(t, b, s) \/ Launch(t, b, s)
       \/ \E h \in handles : FreeHandle(t, h) \/ Upload(t, h) \/ Download(t, h)
  \/ \E s \in Stream : DeviceStep(s)

Spec == Init /\ [][Next]_vars
------------------------------------------------------------------------------
(* Properties. *)

Pooled == {b \in Block : entries[b] # NotPooled}

\* The pool's tables agree: pooled blocks are the ordered ones, each is in the
\* free list of its size, the counter is their total, and the total is within
\* the limit.
PoolConsistent ==
  /\ ToSet(order) = Pooled /\ Len(order) = Cardinality(Pooled)
  /\ \A b \in Pooled : /\ sizes[b] = entries[b].size
                       /\ \E i \in DOMAIN freeLists[sizes[b]] : freeLists[sizes[b]][i] = b
  /\ pooledBytes = Bytes(Pooled, entries)
  /\ pooledBytes <= MaxPooled

\* No two holders have one block, nobody holds a block that is pooled or that
\* the driver has taken back.
OneHolder ==
  \A b \in Block :
    /\ Cardinality(holders[b]) <= 1
    /\ holders[b] # {} => entries[b] = NotPooled /\ driver[b] # 0 /\ sizes[b] = driver[b]

\* A thread inside a call has the block and has not handed it on yet.
Carried(t, b) ==
  \/ pc[t] \in {"register", "release", "synchronize"} /\ block[t] = b
  \/ pc[t] = "freeing" /\ b \in ToSet(victims[t])

\* Every block the driver gave is held, pooled, or in the hands of a thread
\* inside a call: none is lost.
NoBlockLost ==
  \A b \in Block : driver[b] # 0 =>
    \/ holders[b] # {} \/ entries[b] # NotPooled \/ \E t \in Thread : Carried(t, b)

\* Whoever is handed a block finds no work of an earlier holder still queued.
NoReuseWhileQueued ==
  \A b \in Block : holders[b] # {} =>
    \A s \in Stream : \A i \in DOMAIN queue[s] :
      queue[s][i].block = b => queue[s][i].mark = tenure[b]

------------------------------------------------------------------------------
(* Proofs, for any number of threads, blocks, sizes, streams and calls.  That *)
(* nothing is reused while it is queued needs events that are recorded.       *)

Places == {"idle", "scan", "alloc", "register", "enter", "release", "freeing",
           "synchronize", "upload", "download"}
Address == Block \cup {NoBlock}
Handle == [id : Nat, block : Address, size : Nat]

TypeInv ==
  /\ freeLists \in [Size -> Seq(Block)] /\ sizes \in [Block -> Nat]
  /\ entries \in [Block -> [size : Nat, fence : Nat]] /\ order \in Seq(Block)
  /\ live \subseteq [id : Nat, block : Block, size : Nat] /\ nextId \in Nat
  /\ pc \in [Thread -> Places] /\ want \in [Thread -> Nat] /\ block \in [Thread -> Address]
  /\ event \in [Thread -> Nat] /\ victims \in [Thread -> Seq(Block)]
  /\ handle \in [Thread -> Handle] /\ driver \in [Block -> Nat]
  /\ holders \in [Block -> SUBSET (Thread \cup Handle)]

QueueTypes ==
  /\ queue \in [Stream -> Seq([block : Address, mark : Nat])]
  /\ awaited \in [Thread -> [Stream -> Nat]]
  /\ events \in Nat /\ tenure \in [Block -> Nat]

\* What a thread knows at its place in a call.
PlaceInv ==
  \A t \in Thread :
    /\ pc[t] \in {"scan", "alloc", "register", "enter"} => want[t] \in Size
    /\ pc[t] \in {"register", "release", "synchronize", "enter"} => block[t] \in Block
    /\ pc[t] = "register" => driver[block[t]] = want[t]
    /\ pc[t] \in {"release", "synchronize"} => sizes[block[t]] = driver[block[t]]
    /\ pc[t] = "enter" => t \in holders[block[t]]
    /\ pc[t] = "freeing" => victims[t] # <<>>
    /\ \A i, j \in DOMAIN victims[t] : pc[t] = "freeing" /\ victims[t][i] = victims[t][j] => i = j

\* A held block has one holder and is nowhere else.
HolderInv ==
  /\ \A b \in Block : holders[b] # {} =>
       /\ \A x, y \in holders[b] : x = y
       /\ entries[b] = NotPooled /\ driver[b] # 0 /\ sizes[b] = driver[b]
  /\ \A h \in live : h \in holders[h.block]

\* So has a block in the hands of a thread.
CarryInv ==
  \A t \in Thread, b \in Block : Carried(t, b) =>
    /\ holders[b] = {} /\ entries[b] = NotPooled /\ driver[b] # 0
    /\ \A u \in Thread : Carried(u, b) => u = t

\* The order of the pool has each pooled block once.
PooledInv ==
  /\ \A b \in Block : entries[b] # NotPooled =>
       entries[b].size = sizes[b] /\ sizes[b] = driver[b] /\ driver[b] # 0
  /\ \A i, j \in DOMAIN order : order[i] = order[j] => i = j
  /\ \A b \in Block : entries[b] # NotPooled <=> \E i \in DOMAIN order : order[i] = b

\* A mark e stands in the stream's queue q after place i.
MarkedAfter(q, i, e) ==
  \E j \in DOMAIN q : j > i /\ q[j].block = NoBlock /\ q[j].mark = e

\* Work still queued for a block: its holder's own, or announced by a mark that the
\* pool or the releasing thread has, or counted by a synchronization.
Announced(s, i, b) ==
  /\ driver[b] # 0
  /\ holders[b] # {} => queue[s][i].mark = tenure[b]
  /\ entries[b] # NotPooled => MarkedAfter(queue[s], i, entries[b].fence)
  /\ \A t \in Thread : block[t] = b =>
       /\ pc[t] # "register"
       /\ pc[t] = "release" => MarkedAfter(queue[s], i, event[t])
       /\ pc[t] = "synchronize" => i <= awaited[t][s]

WorkInv ==
  \A s \in Stream : \A i \in DOMAIN queue[s] : \A b \in Block :
    queue[s][i].block = b => Announced(s, i, b)

Queued(b) == \E s \in Stream : \E i \in DOMAIN queue[s] : queue[s][i].block = b

\* A mark is recorded once and signalled when its stream reaches it.
MarkInv ==
  /\ signalled \subseteq 1..events
  /\ \A s \in Stream : \A i \in DOMAIN queue[s] : queue[s][i].block = NoBlock =>
       /\ queue[s][i].mark \in (1..events) \ signalled
       /\ \A r \in Stream : \A j \in DOMAIN queue[r] :
            queue[r][j].block = NoBlock /\ queue[r][j].mark = queue[s][i].mark => r = s /\ j = i

PoolInv == TypeInv /\ PlaceInv /\ HolderInv /\ CarryInv /\ PooledInv /\ NoBlockLost

FenceInv == PoolInv /\ QueueTypes /\ WorkInv /\ MarkInv

\* Only the threads' places change, and none takes or gives a block.
LEMMA QuietKeeps ==
  ASSUME PoolInv, TypeInv', PlaceInv',
         UNCHANGED <<sizes, entries, order, driver, holders, live, nextId>>,
         \A t \in Thread, b \in Block : Carried(t, b)' <=> Carried(t, b)
  PROVE  PoolInv'
<1>1. HolderInv' BY DEF PoolInv, HolderInv
<1>2. CarryInv' BY DEF PoolInv, CarryInv
<1>3. PooledInv' BY DEF PoolInv, PooledInv
<1>4. NoBlockLost' BY DEF PoolInv, NoBlockLost
<1> QED BY <1>1, <1>2, <1>3, <1>4 DEF PoolInv

\* An acquisition begins, and looks for a block without taking one.
LEMMA LookKeeps ==
  ASSUME ConstantsAssumption, PoolInv, NEW t \in Thread,
         \/ \E n \in Size, forHandle \in BOOLEAN : Acquire(t, n, forHandle)
         \/ ScanStale(t) \/ ScanBusy(t) \/ ScanNothing(t)
  PROVE  PoolInv'
<1>1. UNCHANGED <<sizes, entries, order, driver, holders, live, nextId, block, event, victims>>
  BY DEF Acquire, ScanStale, ScanBusy, ScanNothing, pool, table, locals
<1>2. CASE \E n \in Size, forHandle \in BOOLEAN : Acquire(t, n, forHandle)
  <2>1. PICK n \in Size, forHandle \in BOOLEAN : Acquire(t, n, forHandle) BY <1>2
  <2>2. pc[t] = "idle" /\ pc' = [pc EXCEPT ![t] = "scan"] /\ want' = [want EXCEPT ![t] = n]
        /\ UNCHANGED freeLists
    BY <2>1 DEF Acquire, Goto, pool
  <2>3. n \in Nat /\ NoHandle \in Handle /\ [NoHandle EXCEPT !.size = n] \in Handle
    BY DEF ConstantsAssumption, NoHandle, Handle, Address
  <2>4. handle' \in [Thread -> Handle]
    BY <2>1, <2>3 DEF Acquire, PoolInv, TypeInv
  <2>5. TypeInv' BY <1>1, <2>2, <2>3, <2>4 DEF PoolInv, TypeInv, Places
  <2>6. PlaceInv' BY <1>1, <2>2 DEF PoolInv, TypeInv, PlaceInv
  <2>7. \A u \in Thread, b \in Block : Carried(u, b)' <=> Carried(u, b)
    BY <1>1, <2>2 DEF PoolInv, TypeInv, Carried
  <2> QED BY <1>1, <2>5, <2>6, <2>7, QuietKeeps
<1>3. CASE ScanStale(t) \/ ScanBusy(t)
  <2>1. pc[t] = "scan" /\ UNCHANGED <<pc, want, handle>> /\ freeLists[want[t]] # <<>>
    BY <1>3 DEF ScanStale, ScanBusy, locals
  <2>2. want[t] \in Size BY <2>1 DEF PoolInv, PlaceInv
  <2> DEFINE list == freeLists[want[t]]
  <2>3. list \in Seq(Block) /\ list # <<>> BY <2>1, <2>2 DEF PoolInv, TypeInv
  <2>4. Len(list) \in Nat \ {0} /\ Last(list) \in Block /\ Front(list) \in Seq(Block)
        /\ <<Last(list)>> \o Front(list) \in Seq(Block)
    <3> HIDE DEF list
    <3>1. Len(list) \in Nat \ {0} /\ Last(list) \in Block BY <2>3 DEF Last
    <3>2. Front(list) \in Seq(Block) BY <2>3, <3>1 DEF Front
    <3>3. <<Last(list)>> \in Seq(Block) BY <3>1
    <3> QED BY <3>1, <3>2, <3>3
  <2>5. freeLists' \in [Size -> Seq(Block)]
    BY <1>3, <2>4 DEF ScanStale, ScanBusy, PoolInv, TypeInv
  <2>6. TypeInv' BY <1>1, <2>1, <2>5 DEF PoolInv, TypeInv
  <2>7. PlaceInv' BY <1>1, <2>1 DEF PoolInv, PlaceInv
  <2>8. \A u \in Thread, b \in Block : Carried(u, b)' <=> Carried(u, b)
    BY <1>1, <2>1 DEF Carried
  <2> QED BY <1>1, <2>6, <2>7, <2>8, QuietKeeps
<1>4. CASE ScanNothing(t)
  <2>1. pc[t] = "scan" /\ pc' = [pc EXCEPT ![t] = "alloc"] /\ UNCHANGED <<want, handle, freeLists>>
    BY <1>4 DEF ScanNothing, Goto, locals, pool
  <2>2. TypeInv' BY <1>1, <2>1 DEF PoolInv, TypeInv, Places
  <2>3. PlaceInv' BY <1>1, <2>1 DEF PoolInv, TypeInv, PlaceInv
  <2>4. \A u \in Thread, b \in Block : Carried(u, b)' <=> Carried(u, b)
    BY <1>1, <2>1 DEF PoolInv, TypeInv, Carried
  <2> QED BY <1>1, <2>2, <2>3, <2>4, QuietKeeps
<1> QED BY <1>2, <1>3, <1>4

\* A copy, whatever its direction.
LEMMA CopyKeeps ==
  ASSUME ConstantsAssumption, PoolInv, NEW t \in Thread,
         Copy(t) \/ \E h \in handles : Upload(t, h) \/ Download(t, h)
  PROVE  PoolInv'
<1>1. UNCHANGED <<freeLists, sizes, entries, order, driver, holders, live, nextId, want, block,
                  event, victims>>
  BY DEF Copy, Upload, Download, StartCopy, pool, table
<1>2. \E to \in {"idle", "upload", "download"} :
        pc' = [pc EXCEPT ![t] = to] /\ pc[t] \in {"idle", "upload", "download"}
  BY DEF Copy, Upload, Download, StartCopy, Goto
<1>3. NoHandle \in Handle /\ live \subseteq Handle
  BY DEF PoolInv, TypeInv, ConstantsAssumption, NoHandle, Handle, Address
<1>4. handle' \in [Thread -> Handle]
  BY <1>3 DEF Copy, Upload, Download, StartCopy, ValidateLive, PoolInv, TypeInv
<1>5. TypeInv' BY <1>1, <1>2, <1>4 DEF PoolInv, TypeInv, Places
<1>8. \A u \in Thread : pc'[u] = pc[u] \/ pc'[u] \in {"idle", "upload", "download"}
  BY <1>2 DEF PoolInv, TypeInv
<1>6. PlaceInv' BY <1>1, <1>8 DEF PoolInv, PlaceInv
<1>7. \A u \in Thread, b \in Block : Carried(u, b)' <=> Carried(u, b)
  BY <1>1, <1>2 DEF PoolInv, TypeInv, Carried
<1> QED BY <1>1, <1>5, <1>6, <1>7, QuietKeeps

\* What RemoveAt leaves, and where.
LEMMA RemoveAtParts ==
  ASSUME NEW S, NEW q \in Seq(S), NEW i \in DOMAIN q
  PROVE  /\ RemoveAt(q, i) \in Seq(S) /\ Len(RemoveAt(q, i)) = Len(q) - 1
         /\ \A j \in 1..Len(q) - 1 : RemoveAt(q, i)[j] = IF j < i THEN q[j] ELSE q[j + 1]
<1> DEFINE l == SubSeq(q, 1, i - 1)
           r == SubSeq(q, i + 1, Len(q))
<1>1. Len(q) \in Nat /\ i \in 1..Len(q) OBVIOUS
<1>2. l \in Seq(S) /\ Len(l) = i - 1 /\ \A j \in 1..i - 1 : l[j] = q[j]
  BY <1>1
<1>3. r \in Seq(S) /\ Len(r) = Len(q) - i /\ \A j \in 1..Len(q) - i : r[j] = q[j + i]
  BY <1>1
<1>4. RemoveAt(q, i) = l \o r BY DEF RemoveAt
<1> HIDE DEF l, r
<1>5. l \o r \in Seq(S) /\ Len(l \o r) = Len(q) - 1
  <2>1. l \in Seq(S) /\ r \in Seq(S) BY <1>2, <1>3
  <2>2. l \o r \in Seq(S) /\ Len(l \o r) = Len(l) + Len(r) BY <2>1
  <2> QED BY <1>1, <1>2, <1>3, <2>2
<1>6. ASSUME NEW j \in 1..Len(q) - 1 PROVE (l \o r)[j] = IF j < i THEN q[j] ELSE q[j + 1]
  <2>1. (l \o r)[j] = IF j <= Len(l) THEN l[j] ELSE r[j - Len(l)]
    <3>1. l \in Seq(S) /\ r \in Seq(S) BY <1>2, <1>3
    <3>2. \A k \in 1..Len(l) + Len(r) : (l \o r)[k] = IF k <= Len(l) THEN l[k] ELSE r[k - Len(l)]
      BY <3>1
    <3>3. j \in 1..Len(l) + Len(r) BY <1>1, <1>2, <1>3
    <3> QED BY <3>2, <3>3
  <2>2. CASE j < i BY <1>1, <1>2, <2>1, <2>2
  <2>3. CASE ~(j < i)
    <3>1. j - (i - 1) \in 1..Len(q) - i /\ j - (i - 1) + i = j + 1 BY <1>1, <2>3
    <3>2. r[j - (i - 1)] = q[j + 1] BY <1>3, <3>1
    <3> QED BY <1>1, <1>2, <2>1, <2>3, <3>2
  <2> QED BY <2>2, <2>3
<1> QED BY <1>4, <1>5, <1>6

\* Without one place the sequence has what it had, except what stood there.
LEMMA RemoveAtElements ==
  ASSUME NEW S, NEW q \in Seq(S), NEW i \in DOMAIN q,
         \A j, k \in DOMAIN q : q[j] = q[k] => j = k
  PROVE  /\ \A j, k \in DOMAIN RemoveAt(q, i) : RemoveAt(q, i)[j] = RemoveAt(q, i)[k] => j = k
         /\ \A c : (\E j \in DOMAIN RemoveAt(q, i) : RemoveAt(q, i)[j] = c) <=>
                     c # q[i] /\ \E k \in DOMAIN q : q[k] = c
<1> DEFINE p == RemoveAt(q, i)
<1>1. p \in Seq(S) /\ Len(p) = Len(q) - 1
      /\ \A j \in 1..Len(q) - 1 : p[j] = IF j < i THEN q[j] ELSE q[j + 1]
  BY RemoveAtParts
<1> HIDE DEF p
<1>2. Len(q) \in Nat /\ i \in 1..Len(q) /\ DOMAIN q = 1..Len(q) /\ DOMAIN p = 1..Len(q) - 1
  BY <1>1
<1>3. \A j, k \in DOMAIN p : p[j] = p[k] => j = k
  <2> SUFFICES ASSUME NEW j \in DOMAIN p, NEW k \in DOMAIN p, p[j] = p[k] PROVE j = k
    OBVIOUS
  <2> DEFINE at(x) == IF x < i THEN x ELSE x + 1
  <2>1. at(j) \in DOMAIN q /\ at(k) \in DOMAIN q BY <1>2
  <2>2. p[j] = q[at(j)] /\ p[k] = q[at(k)] BY <1>1, <1>2
  <2>3. at(j) = at(k) BY <2>1, <2>2
  <2> QED BY <1>2, <2>3
<1>4. ASSUME NEW c, NEW j \in DOMAIN p, p[j] = c
      PROVE  c # q[i] /\ \E k \in DOMAIN q : q[k] = c
  <2> DEFINE k == IF j < i THEN j ELSE j + 1
  <2>1. k \in DOMAIN q /\ k # i BY <1>2
  <2>2. c = q[k] BY <1>1, <1>2, <1>4
  <2> QED BY <1>2, <2>1, <2>2
<1>5. ASSUME NEW k \in DOMAIN q, q[k] # q[i] PROVE \E j \in DOMAIN p : p[j] = q[k]
  <2> DEFINE j == IF k < i THEN k ELSE k - 1
  <2>1. k # i BY <1>5
  <2>2. j \in DOMAIN p /\ (IF j < i THEN j ELSE j + 1) = k BY <1>2, <2>1
  <2>3. p[j] = q[k] BY <1>1, <1>2, <2>2
  <2> QED BY <2>2, <2>3
<1> QED BY <1>3, <1>4, <1>5 DEF p

\* A pooled block b goes from the tables to the thread.
LEMMA TakenKeeps ==
  ASSUME PoolInv, NEW t \in Thread, NEW b \in Block, NEW i \in DOMAIN order,
         pc[t] = "scan", entries[b] # NotPooled, want[t] \in Size,
         order[i] = b, order' = RemoveAt(order, i),
         UNCHANGED <<sizes, live, nextId, want, event, victims, handle, driver>>,
         freeLists' \in [Size -> Seq(Block)],
         entries' = [entries EXCEPT ![b] = NotPooled],
         holders' = [holders EXCEPT ![b] = {t}],
         block' = [block EXCEPT ![t] = b],
         NEW to \in {"enter", "idle"}, pc' = [pc EXCEPT ![t] = to]
  PROVE  PoolInv'
<1>6. entries[b].size = sizes[b] /\ sizes[b] = driver[b] /\ driver[b] # 0
  BY DEF PoolInv, PooledInv
<1>7. holders[b] = {} /\ \A u \in Thread : ~Carried(u, b)
  BY DEF PoolInv, HolderInv, CarryInv
<1>8. pc \in [Thread -> Places] /\ block \in [Thread -> Address] /\ victims \in [Thread -> Seq(Block)]
      /\ entries \in [Block -> [size : Nat, fence : Nat]]
      /\ holders \in [Block -> SUBSET (Thread \cup Handle)]
  BY DEF PoolInv, TypeInv
<1>9. \A u \in Thread, c \in Block : Carried(u, c)' <=> Carried(u, c)
  BY <1>8 DEF Carried
<1>10. /\ order' \in Seq(Block)
       /\ \A j, k \in DOMAIN order' : order'[j] = order'[k] => j = k
       /\ \A c : (\E j \in DOMAIN order' : order'[j] = c) <=>
                   c # b /\ \E k \in DOMAIN order : order[k] = c
  <2>1. order \in Seq(Block) /\ \A j, k \in DOMAIN order : order[j] = order[k] => j = k
    BY DEF PoolInv, TypeInv, PooledInv
  <2>2. RemoveAt(order, i) \in Seq(Block) BY <2>1, RemoveAtParts
  <2> DEFINE left == RemoveAt(order, i)
  <2>3. /\ \A j, k \in DOMAIN left : left[j] = left[k] => j = k
        /\ \A c : (\E j \in DOMAIN left : left[j] = c) <=>
                    c # order[i] /\ \E k \in DOMAIN order : order[k] = c
    BY <2>1, RemoveAtElements, Zenon
  <2> QED BY <2>2, <2>3
<1>11. TypeInv'
  <2>1. NotPooled \in [size : Nat, fence : Nat] BY DEF NotPooled, NoEvent
  <2>2. {t} \in SUBSET (Thread \cup Handle) /\ b \in Address BY DEF Address
  <2>3. entries' \in [Block -> [size : Nat, fence : Nat]] BY <1>8, <2>1
  <2>4. holders' \in [Block -> SUBSET (Thread \cup Handle)] BY <1>8, <2>2
  <2>5. pc' \in [Thread -> Places] /\ block' \in [Thread -> Address] BY <1>8, <2>2 DEF Places
  <2> QED BY <1>10, <2>3, <2>4, <2>5 DEF PoolInv, TypeInv
<1>12. PlaceInv'
  <2>1. \A u \in Thread \ {t} : pc'[u] = pc[u] /\ block'[u] = block[u]
    BY <1>8
  <2>2. \A u \in Thread \ {t} : pc[u] = "enter" => block[u] # b
    BY <1>7 DEF PoolInv, PlaceInv
  <2>3. \A c \in Block \ {b} : holders'[c] = holders[c] BY <1>8
  <2>4. pc'[t] \in {"enter", "idle"} /\ block'[t] = b /\ t \in holders'[b]
    BY <1>8
  <2> QED BY <2>1, <2>2, <2>3, <2>4 DEF PoolInv, PlaceInv
<1>13. HolderInv'
  <2>1. \A h \in live : h.block # b /\ h.block \in Block
    BY <1>7 DEF PoolInv, HolderInv, TypeInv
  <2>2. \A c \in Block \ {b} : holders'[c] = holders[c] /\ entries'[c] = entries[c] BY <1>8
  <2>3. holders'[b] = {t} /\ entries'[b] = NotPooled BY <1>8
  <2> QED BY <1>6, <2>1, <2>2, <2>3 DEF PoolInv, HolderInv
<1>14. CarryInv'
  <2>2. \A c \in Block \ {b} : holders'[c] = holders[c] /\ entries'[c] = entries[c] BY <1>8
  <2> QED BY <1>7, <1>9, <2>2 DEF PoolInv, CarryInv
<1>15. PooledInv'
  <2>1. \A c \in Block \ {b} : entries'[c] = entries[c] BY <1>8
  <2>2. entries'[b] = NotPooled BY <1>8
  <2>3. \A c \in Block : entries'[c] # NotPooled <=> \E j \in DOMAIN order' : order'[j] = c
    <3>1. \A c \in Block : entries[c] # NotPooled <=> \E j \in DOMAIN order : order[j] = c
      BY DEF PoolInv, PooledInv
    <3>2. \A c \in Block : entries'[c] # NotPooled <=> c # b /\ entries[c] # NotPooled
      BY <2>1, <2>2
    <3> QED BY <1>10, <3>1, <3>2, Zenon
  <2>4. \A c \in Block : entries'[c] # NotPooled =>
          entries'[c].size = sizes'[c] /\ sizes'[c] = driver'[c] /\ driver'[c] # 0
    BY <2>1, <2>2 DEF PoolInv, PooledInv
  <2> QED BY <1>10, <2>3, <2>4 DEF PooledInv
<1>16. NoBlockLost'
  <2>2. \A c \in Block \ {b} : holders'[c] = holders[c] /\ entries'[c] = entries[c] BY <1>8
  <2>3. holders'[b] = {t} BY <1>8
  <2> QED BY <1>9, <2>2, <2>3 DEF PoolInv, NoBlockLost
<1> QED BY <1>11, <1>12, <1>13, <1>14, <1>15, <1>16 DEF PoolInv

\* What the step takes: a pooled block whose fence does not wait.
LEMMA TakeTakes ==
  ASSUME ConstantsAssumption, PoolInv, NEW t \in Thread, ScanTake(t)
  PROVE  \E b \in Block :
           /\ entries[b] # NotPooled /\ ~FencePending(b) /\ holders[b] = {}
           /\ entries' = [entries EXCEPT ![b] = NotPooled]
           /\ holders' = [holders EXCEPT ![b] = {t}] /\ block' = [block EXCEPT ![t] = b]
           /\ tenure' = [tenure EXCEPT ![b] = @ + 1]
           /\ \E i \in DOMAIN order : order[i] = b /\ order' = RemoveAt(order, i)
<1>1. PICK b : b = Last(freeLists[want[t]]) OBVIOUS
<1>2. pc[t] = "scan" /\ freeLists[want[t]] # <<>> /\ entries[b].size = want[t] /\ ~FencePending(b)
  BY <1>1 DEF ScanTake, IsValidPooledEntry
<1>3. want[t] \in Size /\ want[t] # 0
  BY <1>2 DEF PoolInv, PlaceInv, ConstantsAssumption
<1>4. b \in Block
  <2>1. PICK list \in Seq(Block) : list = freeLists[want[t]] BY <1>3 DEF PoolInv, TypeInv
  <2>2. list # <<>> /\ b = list[Len(list)] BY <1>1, <1>2, <2>1 DEF Last
  <2>3. Len(list) \in DOMAIN list BY <2>1, <2>2
  <2> QED BY <2>2, <2>3
<1>5. entries[b] # NotPooled BY <1>2, <1>3 DEF NotPooled
<1>6. holders[b] = {} BY <1>4, <1>5 DEF PoolInv, HolderInv
<1>7. /\ entries' = [entries EXCEPT ![b] = NotPooled]
      /\ holders' = [holders EXCEPT ![b] = @ \cup {t}]
      /\ block' = [block EXCEPT ![t] = b]
      /\ tenure' = [tenure EXCEPT ![b] = @ + 1]
      /\ \E i \in DOMAIN order : order[i] = b /\ order' = RemoveAt(order, i)
  BY <1>1 DEF ScanTake, Grant
<1>8. holders' = [holders EXCEPT ![b] = {t}] BY <1>4, <1>6, <1>7 DEF PoolInv, TypeInv
<1> QED BY <1>2, <1>4, <1>5, <1>6, <1>7, <1>8

LEMMA TakeKeeps ==
  ASSUME ConstantsAssumption, PoolInv, NEW t \in Thread, ScanTake(t)
  PROVE  PoolInv'
<1>1. PICK b \in Block :
        /\ entries[b] # NotPooled
        /\ entries' = [entries EXCEPT ![b] = NotPooled]
        /\ holders' = [holders EXCEPT ![b] = {t}] /\ block' = [block EXCEPT ![t] = b]
        /\ \E i \in DOMAIN order : order[i] = b /\ order' = RemoveAt(order, i)
  BY TakeTakes
<1>2. pc[t] = "scan" /\ want[t] \in Size BY DEF ScanTake, PoolInv, PlaceInv
<1>3. UNCHANGED <<sizes, live, nextId, want, event, victims, handle, driver>>
      /\ \E to \in {"enter", "idle"} : pc' = [pc EXCEPT ![t] = to]
  BY DEF ScanTake, table, Grant, Goto
<1>4. freeLists' \in [Size -> Seq(Block)]
  <2>1. PICK list \in Seq(Block) : list = freeLists[want[t]] /\ list # <<>>
    BY <1>2 DEF PoolInv, TypeInv, ScanTake
  <2>2. Front(list) \in Seq(Block) BY <2>1 DEF Front
  <2>3. freeLists' = [freeLists EXCEPT ![want[t]] = Front(list)] BY <2>1 DEF ScanTake
  <2> QED BY <1>2, <2>2, <2>3 DEF PoolInv, TypeInv
<1> QED BY <1>1, <1>2, <1>3, <1>4, TakenKeeps

\* The driver gives an address it has not given to anybody, or fails the call.
LEMMA AllocKeeps ==
  ASSUME ConstantsAssumption, PoolInv, NEW t \in Thread, DriverAlloc(t)
  PROVE  PoolInv'
<1>1. /\ UNCHANGED <<freeLists, sizes, entries, order, live, nextId, want, event, victims, holders>>
      /\ pc[t] = "alloc" /\ want[t] \in Size
  BY DEF DriverAlloc, pool, table, PoolInv, PlaceInv
<1>2. pc \in [Thread -> Places] /\ block \in [Thread -> Address] /\ driver \in [Block -> Nat]
  BY DEF PoolInv, TypeInv
<1>3. CASE /\ handle' = [handle EXCEPT ![t] = NoHandle] /\ pc' = [pc EXCEPT ![t] = "idle"]
           /\ UNCHANGED <<driver, block>>
  <2>1. NoHandle \in Handle BY DEF NoHandle, Handle, Address
  <2>2. TypeInv' BY <1>1, <1>3, <2>1 DEF PoolInv, TypeInv, Places
  <2>3. PlaceInv' BY <1>1, <1>2, <1>3 DEF PoolInv, PlaceInv
  <2>4. \A u \in Thread, b \in Block : Carried(u, b)' <=> Carried(u, b)
    BY <1>1, <1>2, <1>3 DEF Carried
  <2> QED BY <1>1, <1>3, <2>2, <2>3, <2>4, QuietKeeps
<1>4. ASSUME NEW b \in Block, driver[b] = 0, driver' = [driver EXCEPT ![b] = want[t]],
             block' = [block EXCEPT ![t] = b], pc' = [pc EXCEPT ![t] = "register"],
             UNCHANGED handle
      PROVE  PoolInv'
  <2>1. holders[b] = {} /\ entries[b] = NotPooled /\ \A u \in Thread : ~Carried(u, b)
    BY <1>4 DEF PoolInv, HolderInv, PooledInv, CarryInv
  <2>2. want[t] \in Nat \ {0} /\ b \in Address BY <1>1 DEF ConstantsAssumption, Address
  <2>3. TypeInv' BY <1>1, <1>4, <2>2 DEF PoolInv, TypeInv, Places
  <2>4. \A u \in Thread, c \in Block :
          Carried(u, c)' <=> Carried(u, c) \/ (u = t /\ c = b)
    BY <1>1, <1>2, <1>4 DEF Carried
  <2>5. PlaceInv'
    <3>1. \A u \in Thread \ {t} : pc[u] \in {"register", "release", "synchronize"} => block[u] # b
      BY <2>1 DEF Carried
    <3>2. \A u \in Thread \ {t} : pc'[u] = pc[u] /\ block'[u] = block[u] BY <1>2, <1>4
    <3>3. pc'[t] = "register" /\ block'[t] = b /\ driver'[b] = want[t] BY <1>2, <1>4
    <3>4. \A c \in Block \ {b} : driver'[c] = driver[c] BY <1>2, <1>4
    <3> QED BY <1>1, <3>1, <3>2, <3>3, <3>4 DEF PoolInv, PlaceInv
  <2>6. HolderInv' BY <1>1, <1>2, <1>4, <2>1 DEF PoolInv, HolderInv
  <2>7. CarryInv' BY <1>1, <1>2, <1>4, <2>1, <2>2, <2>4 DEF PoolInv, CarryInv
  <2>8. PooledInv' BY <1>1, <1>2, <1>4, <2>1 DEF PoolInv, PooledInv
  <2>9. NoBlockLost' BY <1>1, <1>2, <1>4, <2>4 DEF PoolInv, NoBlockLost
  <2> QED BY <2>3, <2>5, <2>6, <2>7, <2>8, <2>9 DEF PoolInv
<1> QED BY <1>3, <1>4 DEF DriverAlloc, Goto

\* The size of a new block is known, and the block is handed out.
LEMMA RegisterKeeps ==
  ASSUME PoolInv, NEW t \in Thread, RegisterSize(t)
  PROVE  PoolInv'
<1>1. PICK b \in Block : b = block[t] /\ driver[b] = want[t] /\ want[t] \in Nat
  BY DEF RegisterSize, PoolInv, PlaceInv, TypeInv
<1>2. pc[t] = "register" /\ Carried(t, b) /\ want[t] \in Size
  BY <1>1 DEF RegisterSize, Carried, PoolInv, PlaceInv
<1>3. holders[b] = {} /\ entries[b] = NotPooled /\ driver[b] # 0
      /\ \A u \in Thread : Carried(u, b) => u = t
  BY <1>2 DEF PoolInv, CarryInv
<1>4. /\ UNCHANGED <<freeLists, entries, order, live, nextId, want, event, victims, handle, driver>>
      /\ sizes' = [sizes EXCEPT ![b] = want[t]] /\ holders' = [holders EXCEPT ![b] = @ \cup {t}]
      /\ block' = [block EXCEPT ![t] = b]
  BY <1>1 DEF RegisterSize, Grant, table
<1>5. PICK to \in {"enter", "idle"} : pc' = [pc EXCEPT ![t] = to]
  BY DEF RegisterSize, Grant, Goto
<1>6. /\ pc \in [Thread -> Places] /\ block \in [Thread -> Address] /\ sizes \in [Block -> Nat]
      /\ holders \in [Block -> SUBSET (Thread \cup Handle)] /\ block' = block
  BY <1>1, <1>4 DEF PoolInv, TypeInv
<1>7. holders'[b] = {t} /\ sizes'[b] = driver[b]
      /\ \A c \in Block \ {b} : holders'[c] = holders[c] /\ sizes'[c] = sizes[c]
  BY <1>1, <1>3, <1>4, <1>6
<1>8. TypeInv'
  <2>1. {t} \in SUBSET (Thread \cup Handle) OBVIOUS
  <2>2. holders' \in [Block -> SUBSET (Thread \cup Handle)] BY <1>3, <1>4, <1>6, <2>1
  <2> QED BY <1>1, <1>4, <1>5, <1>6, <2>2 DEF PoolInv, TypeInv, Places
<1>9. pc'[t] = to /\ \A u \in Thread \ {t} : pc'[u] = pc[u] BY <1>5, <1>6
<1>10. \A u \in Thread, c \in Block : Carried(u, c)' <=> Carried(u, c) /\ c # b
  <2>1. ASSUME NEW u \in Thread \ {t}, NEW c \in Block PROVE Carried(u, c)' <=> Carried(u, c) /\ c # b
    BY <1>3, <1>4, <1>6, <1>9 DEF Carried
  <2>2. ASSUME NEW c \in Block PROVE Carried(t, c)' <=> Carried(t, c) /\ c # b
    BY <1>1, <1>2, <1>5, <1>9 DEF Carried
  <2> QED BY <2>1, <2>2
<1>11. PlaceInv'
  <2>1. \A u \in Thread \ {t} : pc[u] \in {"release", "synchronize"} => block[u] # b
    BY <1>3 DEF Carried
  <2>2. \A u \in Thread \ {t} : pc[u] = "enter" => block[u] # b
    BY <1>3 DEF PoolInv, PlaceInv
  <2> QED BY <1>1, <1>2, <1>4, <1>5, <1>6, <1>7, <1>9, <2>1, <2>2 DEF PoolInv, PlaceInv
<1>12. HolderInv'
  <2>1. \A h \in live : h.block # b /\ h.block \in Block
    BY <1>3 DEF PoolInv, HolderInv, TypeInv
  <2> QED BY <1>3, <1>4, <1>7, <2>1 DEF PoolInv, HolderInv
<1>13. CarryInv' BY <1>4, <1>7, <1>10 DEF PoolInv, CarryInv
<1>14. PooledInv' BY <1>3, <1>4, <1>7 DEF PoolInv, PooledInv
<1>15. NoBlockLost' BY <1>4, <1>7, <1>10 DEF PoolInv, NoBlockLost
<1> QED BY <1>8, <1>11, <1>12, <1>13, <1>14, <1>15 DEF PoolInv

\* A holder gives a block up: a thread, or a handle that leaves the table.
LEMMA GiveUpKeeps ==
  ASSUME PoolInv, NEW t \in Thread, NEW b \in Block, NEW x \in holders[b],
         pc[t] = "idle", NEW to \in {"release", "synchronize"}, pc' = [pc EXCEPT ![t] = to],
         holders' = [holders EXCEPT ![b] = @ \ {x}], block' = [block EXCEPT ![t] = b],
         UNCHANGED <<freeLists, sizes, entries, order, nextId, want, victims, handle, driver>>,
         event' \in [Thread -> Nat], live' \subseteq live, \A h \in live' : h # x,
         \A u \in Thread : u # t => u # x
  PROVE  PoolInv'
<1>1. /\ pc \in [Thread -> Places] /\ block \in [Thread -> Address]
      /\ holders \in [Block -> SUBSET (Thread \cup Handle)]
  BY DEF PoolInv, TypeInv
<1>2. holders[b] = {x} /\ entries[b] = NotPooled /\ driver[b] # 0 /\ sizes[b] = driver[b]
  BY DEF PoolInv, HolderInv
<1>3. \A u \in Thread : ~Carried(u, b) BY <1>2 DEF PoolInv, CarryInv
<1>4. holders'[b] = {} /\ \A c \in Block \ {b} : holders'[c] = holders[c] BY <1>1, <1>2
<1>5. TypeInv'
  <2>1. b \in Address BY DEF Address
  <2>2. holders' \in [Block -> SUBSET (Thread \cup Handle)] BY <1>1
  <2>3. pc' \in [Thread -> Places] /\ block' \in [Thread -> Address] BY <1>1, <2>1 DEF Places
  <2> QED BY <2>2, <2>3 DEF PoolInv, TypeInv
<1>6. pc'[t] = to /\ block'[t] = b
      /\ \A u \in Thread \ {t} : pc'[u] = pc[u] /\ block'[u] = block[u]
  BY <1>1
<1>7. \A u \in Thread, c \in Block : Carried(u, c)' <=> Carried(u, c) \/ (u = t /\ c = b)
  <2>1. ASSUME NEW u \in Thread \ {t}, NEW c \in Block PROVE Carried(u, c)' <=> Carried(u, c)
    BY <1>6 DEF Carried
  <2>2. ASSUME NEW c \in Block PROVE Carried(t, c)' <=> c = b
    BY <1>6 DEF Carried
  <2>3. \A c \in Block : ~Carried(t, c) BY DEF Carried
  <2> QED BY <2>1, <2>2, <2>3
<1>8. PlaceInv'
  <2>1. \A u \in Thread \ {t} : pc[u] = "enter" => u \in holders[block[u]] /\ block[u] \in Block
    BY DEF PoolInv, PlaceInv
  <2>2. ASSUME NEW u \in Thread \ {t}, pc[u] = "enter" PROVE u \in holders'[block[u]]
    <3>1. CASE block[u] # b BY <1>4, <2>1, <2>2, <3>1
    <3>2. CASE block[u] = b /\ u # x BY <1>2, <2>1, <2>2, <3>2
    <3> QED BY <3>1, <3>2, <2>2
  <2> QED BY <1>2, <1>6, <2>1, <2>2 DEF PoolInv, PlaceInv
<1>9. HolderInv'
  <2>1. \A h \in live' : h.block # b /\ h.block \in Block /\ h \in holders[h.block]
    BY <1>2 DEF PoolInv, HolderInv, TypeInv
  <2>2. \A h \in live' : h \in holders'[h.block] BY <1>4, <2>1
  <2> QED BY <1>4, <2>2 DEF PoolInv, HolderInv
<1>10. CarryInv' BY <1>2, <1>3, <1>4, <1>7 DEF PoolInv, CarryInv
<1>11. PooledInv' BY DEF PoolInv, PooledInv
<1>12. NoBlockLost' BY <1>4, <1>7 DEF PoolInv, NoBlockLost
<1> QED BY <1>5, <1>8, <1>9, <1>10, <1>11, <1>12 DEF PoolInv

\* A thread's own block, or a buffer's.
LEMMA ReleaseKeeps ==
  ASSUME ConstantsAssumption, PoolInv, QueueTypes, NEW t \in Thread,
         \/ \E b \in Block, s \in Stream : Release(t, b, s)
         \/ \E h \in handles : FreeHandle(t, h)
  PROVE  PoolInv'
<1>1. \A u \in Thread, h \in live : u # h
  BY DEF ConstantsAssumption, PoolInv, TypeInv
<1>2. CASE \E b \in Block, s \in Stream : Release(t, b, s)
  <2>1. PICK b \in Block, s \in Stream : Release(t, b, s) BY <1>2
  <2>2. /\ pc[t] = "idle" /\ t \in holders[b] /\ pc' = [pc EXCEPT ![t] = "release"]
        /\ holders' = [holders EXCEPT ![b] = @ \ {t}] /\ block' = [block EXCEPT ![t] = b]
        /\ UNCHANGED <<freeLists, sizes, entries, order, live, nextId, want, victims, handle, driver>>
    BY <2>1 DEF Release, Goto, pool, table
  <2>3. event' \in [Thread -> Nat]
    <3>1. event' = [event EXCEPT ![t] = events + 1] \/ event' = [event EXCEPT ![t] = 0]
      BY <2>1 DEF Release, NoEvent
    <3>2. event \in [Thread -> Nat] /\ events + 1 \in Nat BY DEF PoolInv, TypeInv, QueueTypes
    <3> QED BY <3>1, <3>2
  <2>4. /\ \A h \in live' : h # t
        /\ live' \subseteq live
        /\ \A u \in Thread : u # t => u # t
    BY <1>1, <2>2
  <2> QED BY <2>2, <2>3, <2>4, GiveUpKeeps
<1>3. CASE \E h \in handles : FreeHandle(t, h)
  <2>1. PICK h \in live : FreeHandle(t, h) BY <1>3 DEF FreeHandle
  <2>2. /\ pc[t] = "idle" /\ pc' = [pc EXCEPT ![t] = "synchronize"] /\ live' = live \ {h}
        /\ holders' = [holders EXCEPT ![h.block] = @ \ {h}] /\ block' = [block EXCEPT ![t] = h.block]
        /\ UNCHANGED <<freeLists, sizes, entries, order, nextId, want, event, victims, handle, driver>>
    BY <2>1 DEF FreeHandle, Goto, pool
  <2>3. h.block \in Block /\ h \in holders[h.block] /\ event' \in [Thread -> Nat]
    BY <2>2 DEF PoolInv, TypeInv, HolderInv
  <2>4. /\ \A g \in live' : g # h
        /\ live' \subseteq live
        /\ \A u \in Thread : u # t => u # h
    BY <1>1, <2>2
  <2> QED BY <2>2, <2>3, <2>4, GiveUpKeeps
<1> QED BY <1>2, <1>3

\* The handle takes the block over from the thread that asked for it.
LEMMA EnterKeeps ==
  ASSUME ConstantsAssumption, PoolInv, NEW t \in Thread, EnterHandle(t)
  PROVE  PoolInv'
<1>1. PICK b \in Block : b = block[t] /\ t \in holders[b] /\ pc[t] = "enter" /\ want[t] \in Size
  BY DEF EnterHandle, PoolInv, PlaceInv
<1>2. PICK h : h = [id |-> nextId, block |-> b, size |-> want[t]] OBVIOUS
<1>3. /\ UNCHANGED <<freeLists, sizes, entries, order, want, block, event, victims, driver>>
      /\ nextId' = nextId + 1 /\ live' = live \cup {h} /\ pc' = [pc EXCEPT ![t] = "idle"]
      /\ holders' = [holders EXCEPT ![b] = (@ \ {t}) \cup {h}]
      /\ handle' = [handle EXCEPT ![t] = NoHandle]
  BY <1>1, <1>2 DEF EnterHandle, Goto, pool
<1>4. h \in [id : Nat, block : Block, size : Nat] /\ h.block = b /\ h \in Handle /\ NoHandle \in Handle
      /\ h \in [id : Nat, block : Block, size : Size]
  BY <1>1, <1>2 DEF PoolInv, TypeInv, ConstantsAssumption, Handle, Address, NoHandle
<1>5. holders[b] = {t} /\ entries[b] = NotPooled /\ driver[b] # 0 /\ sizes[b] = driver[b]
      /\ \A u \in Thread : ~Carried(u, b)
  BY <1>1 DEF PoolInv, HolderInv, CarryInv
<1>6. /\ pc \in [Thread -> Places] /\ holders \in [Block -> SUBSET (Thread \cup Handle)]
  BY DEF PoolInv, TypeInv
<1>7. holders'[b] = {h} /\ \A c \in Block \ {b} : holders'[c] = holders[c]
  BY <1>3, <1>5, <1>6
<1>8. pc'[t] = "idle" /\ \A u \in Thread \ {t} : pc'[u] = pc[u] BY <1>3, <1>6
<1>9. \A u \in Thread, c \in Block : Carried(u, c)' <=> Carried(u, c)
  BY <1>1, <1>3, <1>8 DEF Carried
<1>10. TypeInv'
  <2>1. holders' \in [Block -> SUBSET (Thread \cup Handle)] BY <1>3, <1>4, <1>6
  <2>2. pc' \in [Thread -> Places] BY <1>3, <1>6 DEF Places
  <2>3. handle' \in [Thread -> Handle] BY <1>3, <1>4 DEF PoolInv, TypeInv
  <2>4. live' \subseteq [id : Nat, block : Block, size : Nat] BY <1>3, <1>4 DEF PoolInv, TypeInv
  <2>5. nextId' \in Nat BY <1>3 DEF PoolInv, TypeInv
  <2> QED BY <1>3, <2>1, <2>2, <2>3, <2>4, <2>5 DEF PoolInv, TypeInv
<1>11. PlaceInv'
  <2>1. \A u \in Thread \ {t} : pc[u] = "enter" => block[u] # b
    BY <1>5 DEF PoolInv, PlaceInv
  <2> QED BY <1>3, <1>7, <1>8, <2>1 DEF PoolInv, PlaceInv
<1>12. HolderInv'
  <2>1. \A g \in live : g.block # b /\ g.block \in Block
    BY <1>5 DEF PoolInv, HolderInv, TypeInv, ConstantsAssumption
  <2> QED BY <1>3, <1>4, <1>5, <1>7, <2>1 DEF PoolInv, HolderInv
<1>13. CarryInv' BY <1>3, <1>5, <1>7, <1>9 DEF PoolInv, CarryInv
<1>14. PooledInv' BY <1>3 DEF PoolInv, PooledInv
<1>15. NoBlockLost' BY <1>3, <1>7, <1>9 DEF PoolInv, NoBlockLost
<1> QED BY <1>10, <1>11, <1>12, <1>13, <1>14, <1>15 DEF PoolInv

\* The device is done with what was queued; the release goes on.
LEMMA SynchronizeKeeps ==
  ASSUME PoolInv, NEW t \in Thread, Synchronize(t)
  PROVE  PoolInv'
<1>1. /\ UNCHANGED <<freeLists, sizes, entries, order, live, nextId, want, block, victims, handle,
                      driver, holders>>
      /\ pc[t] = "synchronize" /\ pc' = [pc EXCEPT ![t] = "release"]
      /\ event' = [event EXCEPT ![t] = NoEvent]
  BY DEF Synchronize, Goto, pool, table
<1>3. pc \in [Thread -> Places] /\ event \in [Thread -> Nat] BY DEF PoolInv, TypeInv
<1>2. TypeInv'
  <2>1. event' \in [Thread -> Nat] BY <1>1, <1>3 DEF NoEvent
  <2>2. pc' \in [Thread -> Places] BY <1>1, <1>3 DEF Places
  <2> QED BY <1>1, <2>1, <2>2 DEF PoolInv, TypeInv
<1>4. PlaceInv' BY <1>1, <1>3 DEF PoolInv, PlaceInv
<1>5. \A u \in Thread, c \in Block : Carried(u, c)' <=> Carried(u, c)
  BY <1>1, <1>3 DEF Carried
<1> QED BY <1>1, <1>2, <1>4, <1>5, QuietKeeps

\* A sequence without its first element.
LEMMA TailElements ==
  ASSUME NEW S, NEW q \in Seq(S), q # <<>>,
         \A j, k \in DOMAIN q : q[j] = q[k] => j = k
  PROVE  /\ Head(q) \in S /\ Tail(q) \in Seq(S)
         /\ \A j, k \in DOMAIN Tail(q) : Tail(q)[j] = Tail(q)[k] => j = k
         /\ \A c : (\E j \in DOMAIN Tail(q) : Tail(q)[j] = c) <=>
                     c # Head(q) /\ \E k \in DOMAIN q : q[k] = c
         /\ Len(q) = 1 <=> Tail(q) = <<>>
<1>1. Len(q) \in Nat /\ Len(q) >= 1 /\ Head(q) = q[1] /\ DOMAIN q = 1..Len(q) OBVIOUS
<1>2. Tail(q) \in Seq(S) /\ Len(Tail(q)) = Len(q) - 1 /\ DOMAIN Tail(q) = 1..Len(q) - 1
      /\ \A j \in 1..Len(q) - 1 : Tail(q)[j] = q[j + 1]
  BY <1>1
<1>3. \A c : (\E j \in DOMAIN Tail(q) : Tail(q)[j] = c) <=>
               c # Head(q) /\ \E k \in DOMAIN q : q[k] = c
  <2>1. ASSUME NEW c, NEW j \in DOMAIN Tail(q), Tail(q)[j] = c
        PROVE  c # Head(q) /\ \E k \in DOMAIN q : q[k] = c
    <3>1. j + 1 \in DOMAIN q /\ j + 1 # 1 /\ q[j + 1] = c BY <1>1, <1>2, <2>1
    <3> QED BY <1>1, <3>1
  <2>2. ASSUME NEW k \in DOMAIN q, q[k] # Head(q)
        PROVE  \E j \in DOMAIN Tail(q) : Tail(q)[j] = q[k]
    <3>1. k # 1 BY <1>1, <2>2
    <3>2. k - 1 \in DOMAIN Tail(q) /\ k - 1 + 1 = k BY <1>1, <1>2, <3>1
    <3> QED BY <1>2, <3>2
  <2> QED BY <2>1, <2>2
<1>4. \A j, k \in DOMAIN Tail(q) : Tail(q)[j] = Tail(q)[k] => j = k
  BY <1>1, <1>2
<1> QED BY <1>1, <1>2, <1>3, <1>4

\* The driver takes an evicted block back.
LEMMA FreeKeeps ==
  ASSUME PoolInv, NEW t \in Thread, DriverFree(t)
  PROVE  /\ PoolInv'
         /\ \E b \in Block : /\ driver' = [driver EXCEPT ![b] = 0] /\ UNCHANGED <<holders, entries>>
                             /\ \A s \in Stream : \A i \in DOMAIN queue[s] : queue[s][i].block # b
                             /\ pc' = [pc EXCEPT ![t] = pc'[t]] /\ pc'[t] \in {"idle", "freeing"}
<1> DEFINE gone == victims[t]
<1>1. pc[t] = "freeing" /\ gone \in Seq(Block) /\ gone # <<>>
      /\ \A i, j \in DOMAIN gone : gone[i] = gone[j] => i = j
  BY DEF DriverFree, PoolInv, TypeInv, PlaceInv
<1>2. /\ Head(gone) \in Block /\ Tail(gone) \in Seq(Block)
      /\ \A j, k \in DOMAIN Tail(gone) : Tail(gone)[j] = Tail(gone)[k] => j = k
      /\ \A c : (\E j \in DOMAIN Tail(gone) : Tail(gone)[j] = c) <=>
                  c # Head(gone) /\ \E k \in DOMAIN gone : gone[k] = c
      /\ Len(gone) = 1 <=> Tail(gone) = <<>>
  <2> HIDE DEF gone
  <2> QED BY <1>1, TailElements
<1>3. PICK b \in Block : b = Head(gone) BY <1>2
<1>4. /\ UNCHANGED <<freeLists, sizes, entries, order, live, nextId, want, block, event, handle, holders>>
      /\ driver' = [driver EXCEPT ![b] = 0] /\ victims' = [victims EXCEPT ![t] = Tail(gone)]
      /\ \A s \in Stream : \A i \in DOMAIN queue[s] : queue[s][i].block # b
      /\ pc' = [pc EXCEPT ![t] = IF Len(gone) = 1 THEN "idle" ELSE "freeing"]
  BY <1>3 DEF DriverFree, Goto, pool, table
<1>5. /\ pc \in [Thread -> Places] /\ victims \in [Thread -> Seq(Block)] /\ driver \in [Block -> Nat]
  BY DEF PoolInv, TypeInv
<1>6. /\ pc'[t] = (IF Len(gone) = 1 THEN "idle" ELSE "freeing") /\ victims'[t] = Tail(gone)
      /\ \A u \in Thread \ {t} : pc'[u] = pc[u] /\ victims'[u] = victims[u]
  BY <1>4, <1>5
<1>7. Carried(t, b)
  <2>1. 1 \in DOMAIN gone /\ gone[1] = b BY <1>1, <1>3
  <2> QED BY <1>1, <2>1 DEF Carried, ToSet
<1>8. holders[b] = {} /\ entries[b] = NotPooled /\ \A u \in Thread : Carried(u, b) => u = t
  BY <1>7 DEF PoolInv, CarryInv
<1>9. \A u \in Thread, c \in Block : Carried(u, c)' <=> Carried(u, c) /\ c # b
  <2>1. ASSUME NEW u \in Thread \ {t}, NEW c \in Block PROVE Carried(u, c)' <=> Carried(u, c) /\ c # b
    BY <1>4, <1>6, <1>8 DEF Carried
  <2>2. ASSUME NEW c \in Block PROVE Carried(t, c)' <=> Carried(t, c) /\ c # b
    <3>1. Carried(t, c) <=> \E k \in DOMAIN gone : gone[k] = c
      BY <1>1 DEF Carried, ToSet
    <3>2. Carried(t, c)' <=> \E j \in DOMAIN Tail(gone) : Tail(gone)[j] = c
      <4>1. CASE Len(gone) = 1
        <5>1. Tail(gone) = <<>> /\ pc'[t] = "idle" BY <1>2, <1>6, <4>1
        <5>2. ~\E j \in DOMAIN Tail(gone) : Tail(gone)[j] = c BY <5>1
        <5> QED BY <5>1, <5>2 DEF Carried
      <4>2. CASE Len(gone) # 1
        <5>1. pc'[t] = "freeing" BY <1>6, <4>2
        <5> QED BY <1>6, <5>1 DEF Carried, ToSet
      <4> QED BY <4>1, <4>2
    <3> QED BY <1>2, <1>3, <3>1, <3>2
  <2> QED BY <2>1, <2>2
<1>10. TypeInv'
  <2>1. pc' \in [Thread -> Places] BY <1>4, <1>5 DEF Places
  <2>2. victims' \in [Thread -> Seq(Block)] BY <1>2, <1>4, <1>5
  <2>3. driver' \in [Block -> Nat] BY <1>4, <1>5
  <2> QED BY <1>4, <2>1, <2>2, <2>3 DEF PoolInv, TypeInv
<1>11. PlaceInv'
  <2>1. \A u \in Thread \ {t} : pc[u] \in {"register", "release", "synchronize"} => block[u] # b
    BY <1>8 DEF Carried
  <2>2. \A c \in Block \ {b} : driver'[c] = driver[c] BY <1>4, <1>5
  <2>3. pc'[t] \in {"idle", "freeing"} /\ (pc'[t] = "freeing" => victims'[t] # <<>>)
    BY <1>2, <1>6
  <2>4. \A i, j \in DOMAIN victims'[t] : victims'[t][i] = victims'[t][j] => i = j
    BY <1>2, <1>6
  <2> HIDE DEF gone
  <2> QED BY <1>4, <1>6, <2>1, <2>2, <2>3, <2>4 DEF PoolInv, PlaceInv
<1>12. HolderInv' BY <1>4, <1>5, <1>8 DEF PoolInv, HolderInv
<1>13. CarryInv' BY <1>4, <1>5, <1>9 DEF PoolInv, CarryInv
<1>14. PooledInv' BY <1>4, <1>5, <1>8 DEF PoolInv, PooledInv
<1>15. NoBlockLost' BY <1>4, <1>5, <1>9 DEF PoolInv, NoBlockLost
<1>16. pc' = [pc EXCEPT ![t] = pc'[t]] /\ pc'[t] \in {"idle", "freeing"} BY <1>4, <1>5, <1>6
<1> QED BY <1>4, <1>10, <1>11, <1>12, <1>13, <1>14, <1>15, <1>16 DEF PoolInv

\* A nonempty set of natural numbers has a least element.
LEMMA LeastNatural ==
  ASSUME NEW S \in SUBSET Nat, S # {}
  PROVE  \E i \in S : \A j \in S : i <= j
<1>1. PICK i \in S : \A j \in S : ~(<<j, i>> \in OpToRel(<, Nat))
  BY NatLessThanWellFounded, WFMin
<1>2. \A j \in S : i <= j
  <2> TAKE j \in S
  <2>1. ~(j < i) BY <1>1 DEF OpToRel
  <2> QED BY <2>1
<1> QED BY <1>2

\* Whatever the sizes are, a number of blocks in the queue leaves it; and when all of them
\* would be enough, that number is.
LEMMA EvictInRange ==
  ASSUME NEW q \in Seq(Block), NEW e, NEW bytes
  PROVE  /\ Evict(q, e, bytes) \in 0..Len(q)
         /\ bytes - Bytes(ToSet(q), e) <= MaxPooled =>
              bytes - Bytes(ToSet(SubSeq(q, 1, Evict(q, e, bytes))), e) <= MaxPooled
<1> DEFINE left(k) == bytes - Bytes(ToSet(SubSeq(q, 1, k)), e)
           enough == {k \in 0..Len(q) : left(k) <= MaxPooled}
           least == CHOOSE i \in enough : \A j \in enough : i <= j
<1> HIDE DEF left
<1>1. Len(q) \in 0..Len(q) /\ enough \in SUBSET Nat /\ enough \subseteq 0..Len(q) OBVIOUS
<1>2. CASE enough = {}
  <2>1. Evict(q, e, bytes) = Len(q) BY <1>2 DEF Evict, left
  <2>2. SubSeq(q, 1, Len(q)) = q OBVIOUS
  <2> QED BY <1>1, <2>1, <2>2
<1>3. CASE enough # {}
  <2>1. \E i \in enough : \A j \in enough : i <= j
    <3> HIDE DEF enough
    <3> QED BY <1>1, <1>3, LeastNatural
  <2>2. least \in enough
    <3> HIDE DEF enough
    <3> QED BY <2>1
  <2>3. Evict(q, e, bytes) = least BY <1>3 DEF Evict, left
  <2>4. left(least) <= MaxPooled BY <2>2
  <2> HIDE DEF enough, least
  <2> QED BY <1>1, <2>2, <2>3, <2>4 DEF left
<1> QED BY <1>2, <1>3

\* The two parts of a sequence without repetitions share nothing.
LEMMA SplitElements ==
  ASSUME NEW S, NEW q \in Seq(S), NEW k \in 0..Len(q),
         \A i, j \in DOMAIN q : q[i] = q[j] => i = j
  PROVE  /\ SubSeq(q, 1, k) \in Seq(S) /\ SubSeq(q, k + 1, Len(q)) \in Seq(S)
         /\ \A i, j \in DOMAIN SubSeq(q, 1, k) : SubSeq(q, 1, k)[i] = SubSeq(q, 1, k)[j] => i = j
         /\ \A i, j \in DOMAIN SubSeq(q, k + 1, Len(q)) :
              SubSeq(q, k + 1, Len(q))[i] = SubSeq(q, k + 1, Len(q))[j] => i = j
         /\ \A c : (\E j \in DOMAIN SubSeq(q, k + 1, Len(q)) : SubSeq(q, k + 1, Len(q))[j] = c) <=>
                   /\ \E i \in DOMAIN q : q[i] = c
                   /\ c \notin ToSet(SubSeq(q, 1, k))
         /\ \A c \in ToSet(SubSeq(q, 1, k)) : \E i \in DOMAIN q : q[i] = c
         /\ SubSeq(q, 1, k) = <<>> <=> ToSet(SubSeq(q, 1, k)) = {}
<1> DEFINE l == SubSeq(q, 1, k)
           r == SubSeq(q, k + 1, Len(q))
<1>1. Len(q) \in Nat /\ k \in Nat /\ k <= Len(q) /\ DOMAIN q = 1..Len(q) OBVIOUS
<1>2. l \in Seq(S) /\ DOMAIN l = 1..k /\ \A i \in 1..k : l[i] = q[i] BY <1>1
<1>3. r \in Seq(S) /\ DOMAIN r = 1..Len(q) - k /\ \A i \in 1..Len(q) - k : r[i] = q[i + k] BY <1>1
<1> HIDE DEF l, r
<1>4. \A i, j \in DOMAIN l : l[i] = l[j] => i = j BY <1>1, <1>2
<1>5. \A i, j \in DOMAIN r : r[i] = r[j] => i = j
  <2> SUFFICES ASSUME NEW i \in DOMAIN r, NEW j \in DOMAIN r, r[i] = r[j] PROVE i = j OBVIOUS
  <2>1. i + k \in DOMAIN q /\ j + k \in DOMAIN q BY <1>1, <1>3
  <2>2. i + k = j + k BY <1>3, <2>1
  <2> QED BY <1>1, <1>3, <2>2
<1>6. ASSUME NEW c PROVE (\E j \in DOMAIN r : r[j] = c) <=>
                            (\E i \in DOMAIN q : q[i] = c) /\ c \notin ToSet(l)
  <2>1. ASSUME NEW j \in DOMAIN r, r[j] = c
        PROVE  (\E i \in DOMAIN q : q[i] = c) /\ c \notin ToSet(l)
    <3>1. j + k \in DOMAIN q /\ j + k > k /\ q[j + k] = c BY <1>1, <1>3, <2>1
    <3>2. ASSUME NEW i \in DOMAIN l, l[i] = c PROVE FALSE
      <4>1. i \in DOMAIN q /\ i <= k /\ q[i] = c BY <1>1, <1>2, <3>2
      <4> QED BY <3>1, <4>1
    <3> QED BY <3>1, <3>2 DEF ToSet
  <2>2. ASSUME NEW i \in DOMAIN q, q[i] = c, c \notin ToSet(l) PROVE \E j \in DOMAIN r : r[j] = c
    <3>1. ~(i \in 1..k) BY <1>2, <2>2 DEF ToSet
    <3>2. i - k \in DOMAIN r /\ i - k + k = i BY <1>1, <1>3, <3>1
    <3> QED BY <1>3, <2>2, <3>2
  <2> QED BY <2>1, <2>2
<1>7. \A c \in ToSet(l) : \E i \in DOMAIN q : q[i] = c BY <1>1, <1>2 DEF ToSet
<1>8. l = <<>> <=> ToSet(l) = {}
  <2>1. l = <<>> => ToSet(l) = {} BY DEF ToSet
  <2>2. ASSUME l # <<>> PROVE ToSet(l) # {}
    <3>1. 1 \in DOMAIN l BY <1>2, <2>2
    <3> QED BY <3>1 DEF ToSet
  <2> QED BY <2>1, <2>2
<1> QED BY <1>2, <1>3, <1>4, <1>5, <1>6, <1>7, <1>8 DEF l, r

\* A new last element.
LEMMA AppendElements ==
  ASSUME NEW S, NEW q \in Seq(S), NEW x \in S, ~\E i \in DOMAIN q : q[i] = x,
         \A i, j \in DOMAIN q : q[i] = q[j] => i = j
  PROVE  /\ Append(q, x) \in Seq(S)
         /\ \A i, j \in DOMAIN Append(q, x) : Append(q, x)[i] = Append(q, x)[j] => i = j
         /\ \A c : (\E i \in DOMAIN Append(q, x) : Append(q, x)[i] = c) <=>
                   c = x \/ \E i \in DOMAIN q : q[i] = c
<1>1. Len(q) \in Nat /\ DOMAIN q = 1..Len(q) /\ DOMAIN Append(q, x) = 1..Len(q) + 1
      /\ Append(q, x)[Len(q) + 1] = x /\ \A i \in 1..Len(q) : Append(q, x)[i] = q[i]
  OBVIOUS
<1>2. \A i \in 1..Len(q) + 1 : i \in 1..Len(q) \/ i = Len(q) + 1 BY <1>1
<1>3. \A i, j \in DOMAIN Append(q, x) : Append(q, x)[i] = Append(q, x)[j] => i = j
  BY <1>1, <1>2
<1>4. \A c : (\E i \in DOMAIN Append(q, x) : Append(q, x)[i] = c) <=>
              c = x \/ \E i \in DOMAIN q : q[i] = c
  BY <1>1, <1>2
<1> QED BY <1>3, <1>4

\* What the critical section of release does: the block joins the pool, and the first of
\* the order leave it.
PoolMove(t, b, gone) ==
  /\ b = block[t] /\ pc[t] = "release" /\ sizes[b] # 0 /\ entries[b] = NotPooled
  /\ freeLists' = [freeLists EXCEPT ![sizes[b]] = Append(@, b)]
  /\ \A i, j \in DOMAIN gone : gone[i] = gone[j] => i = j
  /\ gone = <<>> <=> ToSet(gone) = {}
  /\ \A c \in ToSet(gone) : c \in Block /\ (c = b \/ entries[c] # NotPooled)
  /\ order' \in Seq(Block)
  /\ \A i, j \in DOMAIN order' : order'[i] = order'[j] => i = j
  /\ \A c \in Block : (\E j \in DOMAIN order' : order'[j] = c) <=>
       (c = b \/ entries[c] # NotPooled) /\ c \notin ToSet(gone)
  /\ entries' = [x \in Block |->
                   IF x \in ToSet(gone) THEN NotPooled
                   ELSE IF x = b THEN [size |-> sizes[b], fence |-> event[t]] ELSE entries[x]]
  /\ sizes' = [x \in Block |-> IF x \in ToSet(gone) THEN 0 ELSE sizes[x]]
  /\ victims' = [victims EXCEPT ![t] = gone]
  /\ pc' = [pc EXCEPT ![t] = IF gone = <<>> THEN "idle" ELSE "freeing"]

\* What leaves is counted, and is enough when all of them would be.
PoolCount(t, b, gone) ==
  LET joined == [entries EXCEPT ![b] = [size |-> sizes[b], fence |-> event[t]]]
  IN /\ pooledBytes' = (pooledBytes + sizes[b]) - Bytes(ToSet(gone), joined)
     /\ (pooledBytes + sizes[b]) - Bytes(Pooled \cup {b}, joined) <= MaxPooled =>
          pooledBytes' <= MaxPooled

LEMMA PoolMoves ==
  ASSUME PoolInv, NEW t \in Thread, Pool(t)
  PROVE  \E b \in Block, gone \in Seq(Block) : PoolMove(t, b, gone) /\ PoolCount(t, b, gone)
<1> DEFINE b == block[t]
           newOrder == Append(order, b)
           newEntries == [entries EXCEPT ![b] = [size |-> sizes[b], fence |-> event[t]]]
           k == Evict(newOrder, newEntries, pooledBytes + sizes[b])
           gone == SubSeq(newOrder, 1, k)
<1>1. b \in Block /\ pc[t] = "release" /\ sizes[b] # 0 /\ entries[b] = NotPooled
  BY DEF Pool, PoolInv, PlaceInv
<1>2. order \in Seq(Block) /\ (~\E i \in DOMAIN order : order[i] = b)
      /\ \A i, j \in DOMAIN order : order[i] = order[j] => i = j
  BY <1>1 DEF PoolInv, TypeInv, PooledInv
<1>3. /\ newOrder \in Seq(Block)
      /\ \A i, j \in DOMAIN newOrder : newOrder[i] = newOrder[j] => i = j
      /\ \A c : (\E i \in DOMAIN newOrder : newOrder[i] = c) <=>
                c = b \/ \E i \in DOMAIN order : order[i] = c
  <2> HIDE DEF b
  <2> QED BY <1>1, <1>2, AppendElements
<1>4. /\ k \in 0..Len(newOrder)
      /\ (pooledBytes + sizes[b]) - Bytes(ToSet(newOrder), newEntries) <= MaxPooled =>
           (pooledBytes + sizes[b]) - Bytes(ToSet(SubSeq(newOrder, 1, k)), newEntries) <= MaxPooled
  <2> HIDE DEF newOrder, newEntries, b
  <2> QED BY <1>3, EvictInRange
<1>5. /\ freeLists' = [freeLists EXCEPT ![sizes[b]] = Append(@, b)]
      /\ order' = SubSeq(newOrder, k + 1, Len(newOrder))
      /\ entries' = [x \in Block |-> IF x \in ToSet(gone) THEN NotPooled ELSE newEntries[x]]
      /\ sizes' = [x \in Block |-> IF x \in ToSet(gone) THEN 0 ELSE sizes[x]]
      /\ victims' = [victims EXCEPT ![t] = gone]
      /\ pc' = [pc EXCEPT ![t] = IF ToSet(gone) = {} THEN "idle" ELSE "freeing"]
      /\ pooledBytes' = (pooledBytes + sizes[b]) - Bytes(ToSet(gone), newEntries)
  BY DEF Pool, Goto
<1>12. (pooledBytes + sizes[b]) - Bytes(ToSet(newOrder), newEntries) <= MaxPooled =>
         pooledBytes' <= MaxPooled
  <2> HIDE DEF newOrder, newEntries, b, k
  <2> QED BY <1>4, <1>5
<1>13. ToSet(newOrder) = Pooled \cup {b}
  <2> HIDE DEF newOrder, b
  <2>1. \A c : c \in ToSet(newOrder) <=> c = b \/ \E i \in DOMAIN order : order[i] = c
    BY <1>3 DEF ToSet
  <2>2. \A c : c \in Pooled <=> \E i \in DOMAIN order : order[i] = c
    BY <1>2 DEF PoolInv, PooledInv, Pooled
  <2> QED BY <2>1, <2>2
<1> HIDE DEF k
<1>6. /\ gone \in Seq(Block) /\ order' \in Seq(Block)
      /\ \A i, j \in DOMAIN gone : gone[i] = gone[j] => i = j
      /\ \A i, j \in DOMAIN order' : order'[i] = order'[j] => i = j
      /\ \A c : (\E j \in DOMAIN order' : order'[j] = c) <=>
                (\E i \in DOMAIN newOrder : newOrder[i] = c) /\ c \notin ToSet(gone)
      /\ \A c \in ToSet(gone) : \E i \in DOMAIN newOrder : newOrder[i] = c
      /\ gone = <<>> <=> ToSet(gone) = {}
  <2> HIDE DEF newOrder
  <2> DEFINE rest == SubSeq(newOrder, k + 1, Len(newOrder))
  <2>1. /\ gone \in Seq(Block) /\ rest \in Seq(Block)
        /\ \A i, j \in DOMAIN gone : gone[i] = gone[j] => i = j
        /\ \A i, j \in DOMAIN rest : rest[i] = rest[j] => i = j
        /\ \A c : (\E j \in DOMAIN rest : rest[j] = c) <=>
                  (\E i \in DOMAIN newOrder : newOrder[i] = c) /\ c \notin ToSet(gone)
        /\ \A c \in ToSet(gone) : \E i \in DOMAIN newOrder : newOrder[i] = c
        /\ gone = <<>> <=> ToSet(gone) = {}
    BY <1>3, <1>4, SplitElements, Zenon
  <2>2. order' = rest BY <1>5
  <2> HIDE DEF rest, gone
  <2> QED BY <2>1, <2>2
<1> HIDE DEF gone, newOrder
<1>7. \A c \in ToSet(gone) : c \in Block /\ (c = b \/ entries[c] # NotPooled)
  <2>1. \A c \in ToSet(gone) : c \in Block BY <1>6 DEF ToSet
  <2> QED BY <1>3, <1>6, <2>1 DEF PoolInv, PooledInv
<1>8. \A c \in Block : (\E j \in DOMAIN order' : order'[j] = c) <=>
        (c = b \/ entries[c] # NotPooled) /\ c \notin ToSet(gone)
  BY <1>3, <1>6 DEF PoolInv, PooledInv
<1>9. entries' = [x \in Block |->
                   IF x \in ToSet(gone) THEN NotPooled
                   ELSE IF x = b THEN [size |-> sizes[b], fence |-> event[t]] ELSE entries[x]]
  BY <1>1, <1>5 DEF PoolInv, TypeInv
<1>10. pc' = [pc EXCEPT ![t] = IF gone = <<>> THEN "idle" ELSE "freeing"]
  BY <1>5, <1>6
<1> HIDE DEF newEntries
<1>11. b = block[t] OBVIOUS
<1> HIDE DEF b
<1> QED
  <2>1. PoolMove(t, b, gone)
    BY <1>1, <1>5, <1>6, <1>7, <1>8, <1>9, <1>10, <1>11 DEF PoolMove
  <2>2. PoolCount(t, b, gone) BY <1>5, <1>12, <1>13 DEF PoolCount, newEntries
  <2> QED BY <1>1, <1>6, <2>1, <2>2

\* A released block joins the pool; what leaves it is in the hands of the thread.
LEMMA PoolKeeps ==
  ASSUME PoolInv, NEW t \in Thread, Pool(t)
  PROVE  PoolInv'
<1>17. PICK b \in Block, gone \in Seq(Block) : PoolMove(t, b, gone) BY PoolMoves
<1>1. /\ b = block[t] /\ pc[t] = "release" /\ sizes[b] # 0 /\ entries[b] = NotPooled
      /\ freeLists' = [freeLists EXCEPT ![sizes[b]] = Append(@, b)]
      /\ \A i, j \in DOMAIN gone : gone[i] = gone[j] => i = j
      /\ gone = <<>> <=> ToSet(gone) = {}
      /\ \A c \in ToSet(gone) : c \in Block /\ (c = b \/ entries[c] # NotPooled)
      /\ order' \in Seq(Block)
      /\ \A i, j \in DOMAIN order' : order'[i] = order'[j] => i = j
      /\ \A c \in Block : (\E j \in DOMAIN order' : order'[j] = c) <=>
           (c = b \/ entries[c] # NotPooled) /\ c \notin ToSet(gone)
      /\ entries' = [x \in Block |->
                       IF x \in ToSet(gone) THEN NotPooled
                       ELSE IF x = b THEN [size |-> sizes[b], fence |-> event[t]] ELSE entries[x]]
      /\ sizes' = [x \in Block |-> IF x \in ToSet(gone) THEN 0 ELSE sizes[x]]
      /\ victims' = [victims EXCEPT ![t] = gone]
      /\ pc' = [pc EXCEPT ![t] = IF gone = <<>> THEN "idle" ELSE "freeing"]
  BY <1>17 DEF PoolMove
<1>2. UNCHANGED <<live, nextId, want, block, handle, driver, holders>>
      /\ event' = [event EXCEPT ![t] = 0]
  BY DEF Pool, table, NoEvent
<1>3. /\ pc \in [Thread -> Places] /\ victims \in [Thread -> Seq(Block)] /\ event \in [Thread -> Nat]
      /\ sizes \in [Block -> Nat] /\ entries \in [Block -> [size : Nat, fence : Nat]]
      /\ freeLists \in [Size -> Seq(Block)]
  BY DEF PoolInv, TypeInv
<1>4. Carried(t, b) BY <1>1 DEF Carried
<1>5. holders[b] = {} /\ driver[b] # 0 /\ sizes[b] = driver[b]
      /\ \A u \in Thread : Carried(u, b) => u = t
  BY <1>1, <1>4 DEF PoolInv, CarryInv, PlaceInv
<1>6. \A c \in Block : c = b \/ entries[c] # NotPooled =>
        holders[c] = {} /\ driver[c] # 0 /\ sizes[c] = driver[c]
        /\ \A u \in Thread \ {t} : ~Carried(u, c)
  BY <1>5 DEF PoolInv, HolderInv, CarryInv, PooledInv
<1>7. /\ pc'[t] = (IF gone = <<>> THEN "idle" ELSE "freeing") /\ victims'[t] = gone
      /\ \A u \in Thread \ {t} : pc'[u] = pc[u] /\ victims'[u] = victims[u]
  BY <1>1, <1>3
<1>8. \A c \in Block :
        /\ c \in ToSet(gone) => entries'[c] = NotPooled /\ sizes'[c] = 0
        /\ c \notin ToSet(gone) => sizes'[c] = sizes[c]
        /\ c \notin ToSet(gone) /\ c # b => entries'[c] = entries[c]
        /\ c \notin ToSet(gone) /\ c = b =>
             entries'[c].size = sizes[b] /\ entries'[c] # NotPooled
  <2>1. [size |-> sizes[b], fence |-> event[t]] # NotPooled
    BY <1>1 DEF NotPooled
  <2> QED BY <1>1, <2>1
<1>9. /\ \A u \in Thread \ {t}, c \in Block : Carried(u, c)' <=> Carried(u, c)
      /\ \A c \in Block : Carried(t, c)' <=> c \in ToSet(gone)
  <2>1. ASSUME NEW u \in Thread \ {t}, NEW c \in Block PROVE Carried(u, c)' <=> Carried(u, c)
    BY <1>2, <1>7 DEF Carried
  <2>2. ASSUME NEW c \in Block PROVE Carried(t, c)' <=> c \in ToSet(gone)
    BY <1>1, <1>7 DEF Carried
  <2> QED BY <2>1, <2>2
<1>10. TypeInv'
  <2>1. [size |-> sizes[b], fence |-> event[t]] \in [size : Nat, fence : Nat]
        /\ NotPooled \in [size : Nat, fence : Nat]
    BY <1>3 DEF NotPooled, NoEvent
  <2>2. entries' \in [Block -> [size : Nat, fence : Nat]]
    <3>1. \A x \in Block : entries[x] \in [size : Nat, fence : Nat] BY <1>3
    <3> QED BY <1>1, <2>1, <3>1
  <2>3. sizes' \in [Block -> Nat] BY <1>1, <1>3
  <2>4. victims' \in [Thread -> Seq(Block)] /\ event' \in [Thread -> Nat] BY <1>1, <1>2, <1>3
  <2>5. pc' \in [Thread -> Places] BY <1>1, <1>3 DEF Places
  <2>6. freeLists' \in [Size -> Seq(Block)]
    <3>1. \A n \in Size : Append(freeLists[n], b) \in Seq(Block) BY <1>3
    <3> QED BY <1>1, <1>3, <3>1
  <2> QED BY <1>1, <1>2, <2>2, <2>3, <2>4, <2>5, <2>6 DEF PoolInv, TypeInv
<1>11. PlaceInv'
  <2>1. \A u \in Thread \ {t} : pc[u] \in {"release", "synchronize"} => block[u] \notin ToSet(gone)
    BY <1>1, <1>6 DEF Carried
  <2>2. \A u \in Thread \ {t} : pc[u] \in {"release", "synchronize"} =>
          block[u] \in Block /\ sizes'[block[u]] = sizes[block[u]]
    BY <1>8, <2>1 DEF PoolInv, PlaceInv
  <2>3. /\ pc'[t] \in {"idle", "freeing"} /\ (pc'[t] = "freeing" => victims'[t] # <<>>)
        /\ \A i, j \in DOMAIN victims'[t] : victims'[t][i] = victims'[t][j] => i = j
    BY <1>1, <1>7
  <2>4. \A u \in Thread \ {t} : pc'[u] = pc[u] /\ victims'[u] = victims[u] BY <1>7
  <2> QED BY <1>2, <2>2, <2>3, <2>4 DEF PoolInv, PlaceInv
<1>12. HolderInv'
  <2>1. \A c \in Block : holders[c] # {} => c \notin ToSet(gone) /\ c # b
    BY <1>1, <1>6
  <2> QED BY <1>2, <1>8, <2>1 DEF PoolInv, HolderInv
<1>13. CarryInv'
  <2>1. ASSUME NEW u \in Thread \ {t}, NEW c \in Block, Carried(u, c)
        PROVE  c \notin ToSet(gone) /\ c # b /\ entries'[c] = NotPooled
    BY <1>1, <1>6, <1>8, <2>1 DEF PoolInv, CarryInv
  <2>2. ASSUME NEW c \in ToSet(gone)
        PROVE  c \in Block /\ holders[c] = {} /\ driver[c] # 0 /\ entries'[c] = NotPooled
               /\ \A u \in Thread \ {t} : ~Carried(u, c)
    BY <1>1, <1>6, <1>8
  <2> QED BY <1>2, <1>9, <2>1, <2>2 DEF PoolInv, CarryInv
<1>14. PooledInv'
  <2>1. \A c \in Block : entries'[c] # NotPooled <=>
          (c = b \/ entries[c] # NotPooled) /\ c \notin ToSet(gone)
    BY <1>8
  <2>2. \A c \in Block : entries'[c] # NotPooled =>
          entries'[c].size = sizes'[c] /\ sizes'[c] = driver[c] /\ driver[c] # 0
    BY <1>6, <1>8, <2>1 DEF PoolInv, PooledInv
  <2> QED BY <1>1, <1>2, <2>1, <2>2 DEF PooledInv
<1>15. NoBlockLost'
  <2> SUFFICES ASSUME NEW c \in Block, driver[c] # 0
      PROVE  holders[c] # {} \/ entries'[c] # NotPooled \/ \E u \in Thread : Carried(u, c)'
    BY <1>2 DEF NoBlockLost
  <2>1. CASE c \in ToSet(gone) BY <1>9, <2>1
  <2>2. CASE c \notin ToSet(gone) /\ c = b BY <1>8, <2>2
  <2>3. CASE c \notin ToSet(gone) /\ c # b
    <3>1. ~Carried(t, c) BY <1>1, <2>3 DEF Carried
    <3> QED BY <1>8, <1>9, <2>3, <3>1 DEF PoolInv, NoBlockLost
  <2> QED BY <2>1, <2>2, <2>3
<1> QED BY <1>10, <1>11, <1>12, <1>13, <1>14, <1>15 DEF PoolInv

------------------------------------------------------------------------------
(* The bytes the pool has. *)

\* The counter is the bytes of the pooled blocks and within the limit, a size the pool knows
\* is a size it serves, and every pooled block is in the list of its size.
ByteInv ==
  /\ IsFiniteSet(BytesOf(Pooled, entries))
  /\ pooledBytes = Bytes(Pooled, entries) /\ pooledBytes <= MaxPooled
  /\ \A b \in Block : sizes[b] = 0 \/ sizes[b] \in Size
  /\ \A b \in Pooled : \E i \in DOMAIN freeLists[sizes[b]] : freeLists[sizes[b]][i] = b

\* Blocks of the same sizes have the same bytes.
LEMMA SameBytes ==
  ASSUME NEW S, NEW d, NEW e, \A b \in S : d[b].size = e[b].size
  PROVE  BytesOf(S, d) = BytesOf(S, e)
BY DEF BytesOf

\* The bytes of one block more.
LEMMA BytesJoin ==
  ASSUME NEW S, NEW e, IsFiniteSet(BytesOf(S, e)), NEW b, b \notin S, e[b].size \in Nat
  PROVE  /\ IsFiniteSet(BytesOf(S \cup {b}, e)) /\ Bytes(S, e) \in Nat
         /\ Bytes(S \cup {b}, e) = Bytes(S, e) + e[b].size
<1> DEFINE its == {b} \X (1..e[b].size)
<1>1. IsFiniteSet(its) /\ Cardinality(its) = e[b].size
  <2>1. IsFiniteSet({b}) /\ Cardinality({b}) = 1 BY FS_Singleton
  <2>2. IsFiniteSet(1..e[b].size) /\ Cardinality(1..e[b].size) = e[b].size
    <3>1. \A n \in Nat : IsFiniteSet(1..n) /\ Cardinality(1..n) = IF 1 > n THEN 0 ELSE n - 1 + 1
      BY FS_Interval
    <3> QED BY <3>1
  <2>3. IsFiniteSet(its) /\ Cardinality(its) = Cardinality({b}) * Cardinality(1..e[b].size)
    BY <2>1, <2>2, FS_Product
  <2> QED BY <2>1, <2>2, <2>3
<1>2. BytesOf(S \cup {b}, e) = BytesOf(S, e) \cup its BY DEF BytesOf
<1>3. BytesOf(S, e) \cap its = {} BY DEF BytesOf
<1>4. Cardinality(BytesOf(S, e)) \in Nat /\ Cardinality({}) = 0
  BY FS_CardinalityType, FS_EmptySet
<1> DEFINE old == BytesOf(S, e)
<1> HIDE DEF its, old
<1>5. IsFiniteSet(old \cup its)
      /\ Cardinality(old \cup its) = Cardinality(old) + Cardinality(its) - Cardinality(old \cap its)
  BY <1>1, FS_Union DEF old
<1>6. Cardinality(old \cup its) = Cardinality(old) + e[b].size
  <2>1. Cardinality(old) \in Nat /\ old \cap its = {} BY <1>3, <1>4 DEF old
  <2>2. Cardinality(old \cap its) = 0 BY <1>4, <2>1
  <2> QED BY <1>1, <1>5, <2>1, <2>2
<1> QED BY <1>2, <1>4, <1>5, <1>6 DEF Bytes, old

\* The bytes without some of the blocks.
LEMMA BytesLeave ==
  ASSUME NEW S, NEW e, IsFiniteSet(BytesOf(S, e)), NEW T \in SUBSET S
  PROVE  /\ IsFiniteSet(BytesOf(S \ T, e)) /\ Bytes(S, e) \in Nat /\ Bytes(T, e) \in Nat
         /\ Bytes(S \ T, e) = Bytes(S, e) - Bytes(T, e)
<1>1. BytesOf(S \ T, e) = BytesOf(S, e) \ BytesOf(T, e)
  <2>1. ASSUME NEW p \in BytesOf(S \ T, e) PROVE p \in BytesOf(S, e) /\ p \notin BytesOf(T, e)
    <3>1. PICK b \in S \ T : p \in {b} \X (1..e[b].size) BY DEF BytesOf
    <3>2. p[1] = b BY <3>1
    <3>3. \A c \in T : p \notin {c} \X (1..e[c].size) BY <3>2
    <3> QED BY <3>1, <3>3 DEF BytesOf
  <2>2. ASSUME NEW p \in BytesOf(S, e), p \notin BytesOf(T, e) PROVE p \in BytesOf(S \ T, e)
    BY <2>2 DEF BytesOf
  <2> QED BY <2>1, <2>2
<1>2. BytesOf(S, e) \cap BytesOf(T, e) = BytesOf(T, e) BY DEF BytesOf
<1>3. BytesOf(T, e) \in SUBSET BytesOf(S, e) BY <1>2
<1>4. IsFiniteSet(BytesOf(T, e)) BY <1>3, FS_Subset, Zenon
<1>5. /\ IsFiniteSet(BytesOf(S, e) \ BytesOf(T, e))
      /\ Cardinality(BytesOf(S, e) \ BytesOf(T, e)) =
           Cardinality(BytesOf(S, e)) - Cardinality(BytesOf(S, e) \cap BytesOf(T, e))
  BY FS_Difference, Zenon
<1>6. Bytes(S, e) \in Nat /\ Bytes(T, e) \in Nat BY <1>4, FS_CardinalityType, Zenon DEF Bytes
<1> QED BY <1>1, <1>2, <1>5, <1>6, Zenon DEF Bytes

\* Steps that leave the pool alone.
LEMMA QuietBytes ==
  ASSUME ByteInv, UNCHANGED <<freeLists, sizes, entries, pooledBytes>>
  PROVE  ByteInv'
<1>1. Pooled' = Pooled BY DEF Pooled
<1>2. BytesOf(Pooled, entries)' = BytesOf(Pooled, entries) BY <1>1 DEF BytesOf
<1> QED BY <1>1, <1>2 DEF ByteInv, Bytes

\* A list without its last element has the others, and so has the list turned by one.
LEMMA ListElements ==
  ASSUME NEW S, NEW q \in Seq(S), q # <<>>, NEW i \in DOMAIN q
  PROVE  /\ q[i] # Last(q) => \E j \in DOMAIN Front(q) : Front(q)[j] = q[i]
         /\ LET turned == <<Last(q)>> \o Front(q)
            IN \E j \in DOMAIN turned : turned[j] = q[i]
<1>1. Len(q) \in Nat \ {0} /\ DOMAIN q = 1..Len(q) /\ Last(q) = q[Len(q)] /\ Last(q) \in S
  BY DEF Last
<1>2. Front(q) \in Seq(S) /\ Len(Front(q)) = Len(q) - 1
      /\ \A j \in 1..Len(q) - 1 : Front(q)[j] = q[j]
  BY <1>1 DEF Front
<1> DEFINE l == <<Last(q)>>
           r == Front(q)
<1>3. l \in Seq(S) /\ Len(l) = 1 /\ l[1] = Last(q) BY <1>1
<1>4. r \in Seq(S) /\ Len(r) = Len(q) - 1 /\ DOMAIN r = 1..Len(q) - 1 BY <1>1, <1>2
<1> HIDE DEF l, r
<1>7. l \o r \in Seq(S) /\ Len(l \o r) = Len(l) + Len(r)
      /\ \A k \in 1..Len(l) + Len(r) : (l \o r)[k] = IF k <= Len(l) THEN l[k] ELSE r[k - Len(l)]
  <2>1. l \in Seq(S) /\ r \in Seq(S) BY <1>3, <1>4
  <2> QED BY <2>1
<1>8. Len(l) = 1 /\ Len(r) = Len(q) - 1 /\ Len(q) \in Nat /\ Len(q) >= 1 /\ i \in 1..Len(q)
  BY <1>1, <1>3, <1>4
<1>9. DOMAIN (l \o r) = 1..Len(q) BY <1>7, <1>8
<1>5. CASE i = Len(q)
  <2>1. 1 \in DOMAIN (l \o r) /\ (l \o r)[1] = l[1] BY <1>7, <1>8, <1>9
  <2> QED BY <1>1, <1>3, <1>5, <2>1 DEF l, r
<1>6. CASE i # Len(q)
  <2>1. i \in DOMAIN r /\ r[i] = q[i] BY <1>1, <1>2, <1>4, <1>6 DEF r
  <2>2. i + 1 \in DOMAIN (l \o r) /\ (l \o r)[i + 1] = r[i] BY <1>6, <1>7, <1>8, <1>9
  <2> QED BY <2>1, <2>2 DEF l, r
<1> QED BY <1>5, <1>6

\* An acquisition looks at the list of its size and drops only what is not pooled there.
LEMMA ScanBytes ==
  ASSUME ConstantsAssumption, PoolInv, ByteInv, NEW t \in Thread, ScanStale(t) \/ ScanBusy(t)
  PROVE  ByteInv'
<1> DEFINE n == want[t]
<1>1. UNCHANGED <<sizes, entries, pooledBytes>> /\ pc[t] = "scan" /\ freeLists[n] # <<>>
  BY DEF ScanStale, ScanBusy
<1>2. n \in Size /\ n # 0 BY <1>1 DEF PoolInv, PlaceInv, ConstantsAssumption
<1>3. PICK list \in Seq(Block) : list = freeLists[n] /\ list # <<>>
  BY <1>1, <1>2 DEF PoolInv, TypeInv
<1>4. Pooled' = Pooled BY <1>1 DEF Pooled
<1>5. BytesOf(Pooled, entries)' = BytesOf(Pooled, entries) BY <1>1, <1>4 DEF BytesOf
<1>6. ASSUME NEW b \in Pooled
      PROVE  \E j \in DOMAIN freeLists'[sizes[b]] : freeLists'[sizes[b]][j] = b
  <2>1. b \in Block /\ entries[b].size = sizes[b] BY DEF PoolInv, PooledInv, Pooled
  <2>2. PICK i \in DOMAIN freeLists[sizes[b]] : freeLists[sizes[b]][i] = b BY DEF ByteInv
  <2>3. CASE sizes[b] # n
    <3>1. \E l : freeLists' = [freeLists EXCEPT ![n] = l] BY DEF ScanStale, ScanBusy
    <3>2. sizes[b] \in Size BY <2>1 DEF ByteInv, PoolInv, PooledInv, Pooled
    <3> QED BY <2>2, <2>3, <3>1, <3>2 DEF PoolInv, TypeInv
  <2>4. CASE sizes[b] = n
    <3>1. /\ b # Last(list) => \E j \in DOMAIN Front(list) : Front(list)[j] = b
          /\ LET turned == <<Last(list)>> \o Front(list)
             IN \E j \in DOMAIN turned : turned[j] = b
      BY <1>3, <2>2, <2>4, ListElements
    <3>2. CASE ScanStale(t)
      <4>1. b # Last(list) /\ freeLists'[n] = Front(list)
        BY <1>2, <1>3, <2>1, <2>4, <3>2 DEF ScanStale, IsValidPooledEntry, PoolInv, TypeInv
      <4> QED BY <2>4, <3>1, <4>1
    <3>3. CASE ScanBusy(t)
      <4>1. freeLists'[n] = <<Last(list)>> \o Front(list)
        BY <1>2, <1>3, <3>3 DEF ScanBusy, PoolInv, TypeInv
      <4> QED BY <2>4, <3>1, <4>1
    <3> QED BY <3>2, <3>3
  <2> QED BY <2>3, <2>4
<1> QED BY <1>1, <1>4, <1>5, <1>6 DEF ByteInv, Bytes

\* A block that is handed out takes its bytes and its place in the list with it.
LEMMA TakeBytes ==
  ASSUME ConstantsAssumption, PoolInv, ByteInv, NEW t \in Thread, ScanTake(t)
  PROVE  ByteInv'
<1> DEFINE n == want[t]
<1>1. UNCHANGED sizes /\ pooledBytes' = pooledBytes - n /\ pc[t] = "scan" /\ freeLists[n] # <<>>
  BY DEF ScanTake
<1>2. n \in Size /\ n \in Nat /\ n # 0 BY <1>1 DEF PoolInv, PlaceInv, ConstantsAssumption
<1>3. PICK list \in Seq(Block) : list = freeLists[n] /\ list # <<>>
  BY <1>1, <1>2 DEF PoolInv, TypeInv
<1>4. PICK b \in Block : b = Last(list)
  <2>1. Len(list) \in DOMAIN list BY <1>3
  <2> QED BY <1>3, <2>1 DEF Last
<1>5. /\ entries[b].size = n /\ entries' = [entries EXCEPT ![b] = NotPooled]
      /\ freeLists' = [freeLists EXCEPT ![n] = Front(list)]
  BY <1>3, <1>4 DEF ScanTake, IsValidPooledEntry
<1>6. entries \in [Block -> [size : Nat, fence : Nat]] /\ b \in Pooled
  BY <1>2, <1>5 DEF PoolInv, TypeInv, Pooled, NotPooled
<1> DEFINE left == Pooled \ {b}
<1>7. Pooled' = left BY <1>5, <1>6 DEF Pooled
<1>8. IsFiniteSet(BytesOf(left, entries)) /\ Bytes(left, entries) \in Nat
      /\ Bytes(Pooled, entries) = Bytes(left, entries) + n
  <2>1. IsFiniteSet(BytesOf(left, entries)) BY <1>6, BytesLeave DEF ByteInv
  <2>2. b \notin left /\ entries[b].size \in Nat /\ left \cup {b} = Pooled BY <1>2, <1>5, <1>6
  <2> HIDE DEF left
  <2>3. Bytes(left, entries) \in Nat
        /\ Bytes(left \cup {b}, entries) = Bytes(left, entries) + entries[b].size
    BY <2>1, <2>2, BytesJoin
  <2> QED BY <1>5, <2>1, <2>2, <2>3
<1>9. BytesOf(left, entries') = BytesOf(left, entries)
  <2>1. \A c \in left : entries'[c].size = entries[c].size BY <1>5, <1>6 DEF Pooled
  <2> HIDE DEF left
  <2> QED BY <2>1, SameBytes
<1>10. /\ IsFiniteSet(BytesOf(Pooled, entries)')
       /\ pooledBytes' = Bytes(Pooled, entries)' /\ pooledBytes' <= MaxPooled
  <2>1. BytesOf(Pooled, entries)' = BytesOf(left, entries) BY <1>7, <1>9 DEF BytesOf
  <2>2. pooledBytes = Bytes(Pooled, entries) /\ pooledBytes <= MaxPooled BY DEF ByteInv
  <2>3. Bytes(Pooled, entries)' = Bytes(left, entries) BY <2>1 DEF Bytes
  <2>4. pooledBytes' = Bytes(left, entries) /\ pooledBytes' <= pooledBytes
    BY <1>1, <1>2, <1>8, <2>2
  <2> QED BY <1>2, <1>8, <2>1, <2>2, <2>3, <2>4 DEF ConstantsAssumption
<1>11. ASSUME NEW c \in left
       PROVE  \E j \in DOMAIN freeLists'[sizes[c]] : freeLists'[sizes[c]][j] = c
  <2>1. c \in Block /\ c \in Pooled /\ sizes[c] \in Size
    BY DEF ByteInv, PoolInv, PooledInv, Pooled
  <2>2. PICK i \in DOMAIN freeLists[sizes[c]] : freeLists[sizes[c]][i] = c BY <2>1 DEF ByteInv
  <2>3. CASE sizes[c] # n BY <1>5, <2>1, <2>2, <2>3 DEF PoolInv, TypeInv
  <2>4. CASE sizes[c] = n
    <3>1. c # Last(list) => \E j \in DOMAIN Front(list) : Front(list)[j] = c
      <4>1. i \in DOMAIN list /\ list[i] = c BY <1>3, <2>2, <2>4
      <4> HIDE DEF n
      <4> QED BY <1>3, <4>1, ListElements
    <3>2. freeLists'[n] = Front(list) BY <1>2, <1>5 DEF PoolInv, TypeInv
    <3> QED BY <1>4, <2>4, <3>1, <3>2
  <2> QED BY <2>3, <2>4
<1>12. \A c \in Block : sizes'[c] = 0 \/ sizes'[c] \in Size BY <1>1 DEF ByteInv
<1> QED BY <1>1, <1>7, <1>10, <1>11, <1>12 DEF ByteInv

\* A block that joins the pool brings its bytes; what is evicted makes room for them.
LEMMA PoolBytes ==
  ASSUME ConstantsAssumption, PoolInv, ByteInv, NEW t \in Thread, Pool(t)
  PROVE  ByteInv'
<1>1. PICK b \in Block, gone \in Seq(Block) : PoolMove(t, b, gone) /\ PoolCount(t, b, gone)
  BY PoolMoves
<1> DEFINE joined == [entries EXCEPT ![b] = [size |-> sizes[b], fence |-> event[t]]]
           all == Pooled \cup {b}
           out == ToSet(gone)
<1>2. /\ sizes \in [Block -> Nat] /\ entries \in [Block -> [size : Nat, fence : Nat]]
      /\ freeLists \in [Size -> Seq(Block)]
  BY DEF PoolInv, TypeInv
<1>3. /\ sizes[b] # 0 /\ sizes[b] \in Size /\ sizes[b] \in Nat /\ b \notin Pooled
      /\ out \subseteq all
      /\ joined[b].size = sizes[b] /\ joined[b] # NotPooled
      /\ \A c \in Block : c # b => joined[c] = entries[c]
  BY <1>1, <1>2 DEF PoolMove, ByteInv, Pooled, NotPooled
<1>4. entries' = [x \in Block |-> IF x \in out THEN NotPooled ELSE joined[x]]
  BY <1>1, <1>2 DEF PoolMove
<1>5. Pooled' = all \ out
  BY <1>3, <1>4 DEF Pooled
<1>6. IsFiniteSet(BytesOf(all, joined)) /\ Bytes(all, joined) = pooledBytes + sizes[b]
      /\ pooledBytes \in Nat
  <2>1. \A c \in Pooled : joined[c].size = entries[c].size BY <1>3 DEF Pooled
  <2> HIDE DEF joined
  <2>2. BytesOf(Pooled, joined) = BytesOf(Pooled, entries) BY <2>1, SameBytes
  <2>3. IsFiniteSet(BytesOf(Pooled, joined)) /\ Bytes(Pooled, joined) = pooledBytes
    BY <2>2 DEF ByteInv, Bytes
  <2> QED BY <1>3, <2>3, BytesJoin
<1>7. /\ IsFiniteSet(BytesOf(all \ out, joined)) /\ Bytes(out, joined) \in Nat
      /\ Bytes(all \ out, joined) = Bytes(all, joined) - Bytes(out, joined)
  <2> HIDE DEF all, out, joined
  <2> QED BY <1>3, <1>6, BytesLeave
<1>8. BytesOf(all \ out, entries') = BytesOf(all \ out, joined)
  <2>1. \A c \in all \ out : entries'[c].size = joined[c].size BY <1>4 DEF Pooled
  <2> HIDE DEF all, out, joined
  <2> QED BY <2>1, SameBytes
<1>9. /\ IsFiniteSet(BytesOf(Pooled, entries)')
      /\ pooledBytes' = Bytes(Pooled, entries)' /\ pooledBytes' <= MaxPooled
  <2>1. BytesOf(Pooled, entries)' = BytesOf(all \ out, joined) BY <1>5, <1>8 DEF BytesOf
  <2>2. Bytes(Pooled, entries)' = Bytes(all \ out, joined) BY <2>1 DEF Bytes
  <2>3. /\ pooledBytes' = (pooledBytes + sizes[b]) - Bytes(out, joined)
        /\ (pooledBytes + sizes[b]) - Bytes(all, joined) <= MaxPooled => pooledBytes' <= MaxPooled
    BY <1>1 DEF PoolCount
  <2>4. (pooledBytes + sizes[b]) - Bytes(all, joined) = 0 BY <1>3, <1>6
  <2>5. 0 <= MaxPooled BY DEF ConstantsAssumption
  <2>6. pooledBytes' <= MaxPooled BY <2>3, <2>4, <2>5
  <2> HIDE DEF all, out, joined
  <2> QED BY <1>6, <1>7, <2>1, <2>2, <2>3, <2>6
<1>10. ASSUME NEW c \in Pooled'
       PROVE  \E j \in DOMAIN freeLists'[sizes'[c]] : freeLists'[sizes'[c]][j] = c
  <2>1. c \in Block /\ (c = b \/ c \in Pooled) /\ c \notin out BY <1>5 DEF Pooled
  <2>2. sizes'[c] = sizes[c] BY <1>1, <2>1 DEF PoolMove
  <2>3. freeLists' = [freeLists EXCEPT ![sizes[b]] = Append(@, b)] BY <1>1 DEF PoolMove
  <2>4. PICK list \in Seq(Block) : list = freeLists[sizes[b]] BY <1>2, <1>3
  <2>5. freeLists'[sizes[b]] = Append(list, b) BY <1>2, <1>3, <2>3, <2>4
  <2>6. Append(list, b)[Len(list) + 1] = b /\ Len(list) + 1 \in DOMAIN Append(list, b)
        /\ \A i \in DOMAIN list : i \in DOMAIN Append(list, b) /\ Append(list, b)[i] = list[i]
    BY <2>4
  <2>7. CASE c = b BY <2>2, <2>5, <2>6, <2>7
  <2>8. CASE c # b
    <3>1. c \in Pooled /\ sizes[c] \in Size
      BY <2>1, <2>8 DEF ByteInv, PoolInv, PooledInv, Pooled
    <3>2. PICK i \in DOMAIN freeLists[sizes[c]] : freeLists[sizes[c]][i] = c
      BY <3>1 DEF ByteInv
    <3>3. CASE sizes[c] = sizes[b]
      <4>1. i \in DOMAIN list /\ list[i] = c BY <2>4, <3>2, <3>3
      <4>2. i \in DOMAIN Append(list, b) /\ Append(list, b)[i] = c BY <2>6, <4>1
      <4> QED BY <2>2, <2>5, <3>3, <4>2
    <3>4. CASE sizes[c] # sizes[b] BY <1>2, <2>2, <2>3, <3>1, <3>2, <3>4
    <3> QED BY <3>3, <3>4
  <2> QED BY <2>7, <2>8
<1>11. \A c \in Block : sizes'[c] = 0 \/ sizes'[c] \in Size BY <1>1 DEF ByteInv, PoolMove
<1> QED BY <1>9, <1>10, <1>11 DEF ByteInv

\* A new block is not pooled yet.
LEMMA RegisterBytes ==
  ASSUME PoolInv, ByteInv, NEW t \in Thread, RegisterSize(t)
  PROVE  ByteInv'
<1>1. PICK b \in Block : b = block[t] /\ want[t] \in Size
  BY DEF RegisterSize, PoolInv, PlaceInv
<1>2. Carried(t, b) BY <1>1 DEF RegisterSize, Carried
<1>3. b \notin Pooled BY <1>2 DEF PoolInv, CarryInv, Pooled
<1>4. UNCHANGED <<freeLists, entries, pooledBytes>> /\ sizes' = [sizes EXCEPT ![b] = want[t]]
  BY <1>1 DEF RegisterSize
<1>5. Pooled' = Pooled /\ Pooled \subseteq Block BY <1>4 DEF Pooled
<1>6. BytesOf(Pooled, entries)' = BytesOf(Pooled, entries) BY <1>4, <1>5 DEF BytesOf
<1>7. \A c \in Block : c # b => sizes'[c] = sizes[c] BY <1>4 DEF PoolInv, TypeInv
<1>8. sizes'[b] = want[t] BY <1>4 DEF PoolInv, TypeInv
<1>9. \A c \in Pooled : c \in Block /\ sizes'[c] = sizes[c] BY <1>3, <1>5, <1>7
<1>10. \A c \in Block : sizes'[c] = 0 \/ sizes'[c] \in Size BY <1>1, <1>7, <1>8 DEF ByteInv
<1> QED BY <1>4, <1>5, <1>6, <1>9, <1>10 DEF ByteInv, Bytes

\* Every step keeps the bytes and the lists.
LEMMA ByteStepKeeps ==
  ASSUME ConstantsAssumption, PoolInv, ByteInv, [Next]_vars
  PROVE  ByteInv'
<1> DEFINE quiet == UNCHANGED <<freeLists, sizes, entries, pooledBytes>>
<1>1. ASSUME NEW t \in Thread, PoolStep(t) PROVE ByteInv'
  <2>1. CASE ScanNothing(t) \/ DriverAlloc(t) \/ DriverFree(t) \/ EnterHandle(t) \/ Synchronize(t)
             \/ Copy(t)
    <3>1. quiet
      BY <2>1 DEF ScanNothing, DriverAlloc, DriverFree, EnterHandle, Synchronize, Copy, pool
    <3> QED BY <3>1, QuietBytes
  <2> QED BY <1>1, <2>1, ScanBytes, TakeBytes, RegisterBytes, PoolBytes DEF PoolStep
<1>2. ASSUME NEW t \in Thread, NEW n \in Size, NEW forHandle \in BOOLEAN, Acquire(t, n, forHandle)
      PROVE  quiet
  BY <1>2 DEF Acquire, pool
<1>3. ASSUME NEW t \in Thread, NEW b \in Block, NEW s \in Stream,
             Release(t, b, s) \/ PoolRefuses(t, b, s) \/ Launch(t, b, s)
      PROVE  quiet
  BY <1>3 DEF Release, PoolRefuses, Launch, pool
<1>4. ASSUME NEW t \in Thread, NEW h \in handles, FreeHandle(t, h) \/ Upload(t, h) \/ Download(t, h)
      PROVE  quiet
  BY <1>4 DEF FreeHandle, Upload, Download, StartCopy, pool
<1>5. ASSUME NEW s \in Stream, DeviceStep(s) PROVE quiet
  BY <1>5 DEF DeviceStep, pool
<1>6. CASE UNCHANGED vars
  <2>1. quiet BY <1>6 DEF vars, pool
  <2> QED BY <2>1, QuietBytes
<1> HIDE DEF quiet
<1>7. quiet => ByteInv' BY QuietBytes DEF quiet
<1> QED BY <1>1, <1>2, <1>3, <1>4, <1>5, <1>6, <1>7 DEF Next

\* The order lists the pooled blocks once each.
LEMMA TablesMatch ==
  ASSUME PoolInv, ByteInv
  PROVE  PoolConsistent
<1>1. order \in Seq(Block) /\ Len(order) \in Nat /\ DOMAIN order = 1..Len(order)
  BY DEF PoolInv, TypeInv
<1>2. \A b : b \in Pooled <=> \E i \in DOMAIN order : order[i] = b
  BY <1>1 DEF PoolInv, PooledInv, Pooled
<1>3. ToSet(order) = Pooled BY <1>2 DEF ToSet
<1>4. Len(order) = Cardinality(Pooled)
  <2>1. order \in [1..Len(order) -> Pooled] BY <1>1, <1>2
  <2>2. \A i, j \in 1..Len(order) : order[i] = order[j] => i = j BY <1>1 DEF PoolInv, PooledInv
  <2>3. \A b \in Pooled : \E i \in 1..Len(order) : order[i] = b BY <1>1, <1>2
  <2>4. ExistsBijection(1..Len(order), Pooled)
    BY <2>1, <2>2, <2>3
    DEF ExistsBijection, Bijection, Injection, Surjection, IsInjective
  <2>5. IsFiniteSet(1..Len(order)) /\ Cardinality(1..Len(order)) = Len(order)
    <3>1. \A n \in Nat : IsFiniteSet(1..n) /\ Cardinality(1..n) = IF 1 > n THEN 0 ELSE n - 1 + 1
      BY FS_Interval
    <3> QED BY <1>1, <3>1
  <2> QED BY <2>4, <2>5, FS_Bijection
<1>5. \A b \in Pooled : sizes[b] = entries[b].size BY DEF PoolInv, PooledInv, Pooled
<1> QED BY <1>3, <1>4, <1>5 DEF PoolConsistent, ByteInv

------------------------------------------------------------------------------
(* The work on the device. *)

\* What no step of the pool touches, the device and the program's kernels do.
LEMMA DeviceKeepsPool ==
  ASSUME PoolInv,
         \/ \E t \in Thread, b \in Block, s \in Stream : Launch(t, b, s) \/ PoolRefuses(t, b, s)
         \/ \E s \in Stream : DeviceStep(s)
         \/ UNCHANGED vars
  PROVE  PoolInv'
<1>1. UNCHANGED <<freeLists, sizes, entries, order, live, nextId, pc, want, block, event, victims,
                  handle, driver, holders>>
  BY DEF Launch, PoolRefuses, DeviceStep, pool, table, locals, vars
<1>2. TypeInv' BY <1>1 DEF PoolInv, TypeInv
<1>3. PlaceInv' BY <1>1 DEF PoolInv, PlaceInv
<1>4. \A u \in Thread, c \in Block : Carried(u, c)' <=> Carried(u, c)
  BY <1>1 DEF Carried
<1> QED BY <1>1, <1>2, <1>3, <1>4, QuietKeeps

\* Every step keeps who has which block.
LEMMA PoolStepKeeps ==
  ASSUME ConstantsAssumption, PoolInv, QueueTypes, [Next]_vars
  PROVE  PoolInv'
<1>1. ASSUME NEW t \in Thread, PoolStep(t) PROVE PoolInv'
  BY <1>1, LookKeeps, TakeKeeps, AllocKeeps, RegisterKeeps, PoolKeeps, FreeKeeps, EnterKeeps,
     SynchronizeKeeps, CopyKeeps DEF PoolStep
<1>2. ASSUME NEW t \in Thread, NEW n \in Size, NEW forHandle \in BOOLEAN, Acquire(t, n, forHandle)
      PROVE  PoolInv'
  BY <1>2, LookKeeps
<1>3. ASSUME NEW t \in Thread, NEW b \in Block, NEW s \in Stream,
             Release(t, b, s) \/ PoolRefuses(t, b, s) \/ Launch(t, b, s)
      PROVE  PoolInv'
  BY <1>3, ReleaseKeeps, DeviceKeepsPool
<1>4. ASSUME NEW t \in Thread, NEW h \in handles, FreeHandle(t, h) \/ Upload(t, h) \/ Download(t, h)
      PROVE  PoolInv'
  BY <1>4, ReleaseKeeps, CopyKeeps
<1>5. ASSUME NEW s \in Stream, DeviceStep(s) PROVE PoolInv'
  BY <1>5, DeviceKeepsPool
<1> QED BY <1>1, <1>2, <1>3, <1>4, <1>5, DeviceKeepsPool DEF Next

\* Steps that leave the work where it is, and queue at most a mark behind it: what is
\* announced stays announced when no block with queued work is handed out or given back.
LEMMA AnnouncedStays ==
  ASSUME WorkInv,
         \A s \in Stream : \A i \in DOMAIN queue[s] :
           i \in DOMAIN queue'[s] /\ queue'[s][i] = queue[s][i],
         \A s \in Stream : \A i \in DOMAIN queue'[s] :
           i \in DOMAIN queue[s] \/ queue'[s][i].block \notin Block,
         \A b \in Block : Queued(b) =>
           /\ driver'[b] # 0
           /\ holders'[b] # {} => holders[b] # {} /\ tenure'[b] = tenure[b]
           /\ entries'[b] # NotPooled =>
                \/ entries[b] # NotPooled /\ entries'[b].fence = entries[b].fence
                \/ \E t \in Thread : pc[t] = "release" /\ block[t] = b /\ entries'[b].fence = event[t]
           /\ \A t \in Thread : block'[t] = b =>
                /\ pc'[t] # "register"
                /\ pc'[t] = "release" =>
                     \/ pc[t] = "release" /\ block[t] = b /\ event'[t] = event[t]
                     \/ \A s \in Stream : \A i \in DOMAIN queue[s] :
                          queue[s][i].block = b => MarkedAfter(queue'[s], i, event'[t])
                /\ pc'[t] = "synchronize" =>
                     \/ pc[t] = "synchronize" /\ block[t] = b /\ awaited'[t] = awaited[t]
                     \/ \A s \in Stream : \A i \in DOMAIN queue[s] : i <= awaited'[t][s]
  PROVE  WorkInv'
<1> SUFFICES ASSUME NEW s \in Stream, NEW i \in DOMAIN queue'[s], NEW b \in Block,
                    queue'[s][i].block = b
             PROVE  Announced(s, i, b)'
  BY DEF WorkInv
<1>1. i \in DOMAIN queue[s] /\ queue[s][i].block = b /\ queue'[s][i] = queue[s][i] OBVIOUS
<1>2. Queued(b) /\ Announced(s, i, b) BY <1>1 DEF Queued, WorkInv
<1>3. ASSUME NEW e, MarkedAfter(queue[s], i, e) PROVE MarkedAfter(queue'[s], i, e)
  BY <1>3 DEF MarkedAfter
<1>4. driver'[b] # 0 BY <1>2
<1>5. holders'[b] # {} => queue'[s][i].mark = tenure'[b] BY <1>1, <1>2 DEF Announced
<1>6. ASSUME entries'[b] # NotPooled PROVE MarkedAfter(queue'[s], i, entries'[b].fence)
  <2>1. CASE entries[b] # NotPooled /\ entries'[b].fence = entries[b].fence
    <3>1. MarkedAfter(queue[s], i, entries[b].fence) BY <1>2, <2>1 DEF Announced
    <3> QED BY <1>3, <2>1, <3>1
  <2>2. ASSUME NEW t \in Thread, pc[t] = "release", block[t] = b, entries'[b].fence = event[t]
        PROVE  MarkedAfter(queue'[s], i, entries'[b].fence)
    <3>1. MarkedAfter(queue[s], i, event[t]) BY <1>2, <2>2 DEF Announced
    <3> QED BY <1>3, <2>2, <3>1
  <2> QED BY <1>2, <1>6, <2>1, <2>2
<1>7. ASSUME NEW t \in Thread, block'[t] = b
      PROVE  /\ pc'[t] # "register"
             /\ pc'[t] = "release" => MarkedAfter(queue'[s], i, event'[t])
             /\ pc'[t] = "synchronize" => i <= awaited'[t][s]
  <2>1. pc'[t] # "register" BY <1>2, <1>7
  <2>2. ASSUME pc'[t] = "release" PROVE MarkedAfter(queue'[s], i, event'[t])
    <3>1. CASE pc[t] = "release" /\ block[t] = b /\ event'[t] = event[t]
      <4>1. MarkedAfter(queue[s], i, event[t]) BY <1>2, <3>1 DEF Announced
      <4> QED BY <1>3, <3>1, <4>1
    <3> QED BY <1>1, <1>2, <1>7, <2>2, <3>1
  <2>3. pc'[t] = "synchronize" => i <= awaited'[t][s]
    BY <1>1, <1>2, <1>7 DEF Announced
  <2> QED BY <2>1, <2>2, <2>3
<1> QED BY <1>4, <1>5, <1>6, <1>7 DEF Announced

\* Blocks without queued work: those the driver has not given, those a thread registers,
\* those whose fence does not wait, those a synchronization has waited for.
LEMMA NothingQueued ==
  ASSUME FenceInv, NEW b \in Block, Queued(b)
  PROVE  /\ driver[b] # 0
         /\ entries[b] # NotPooled => FencePending(b)
         /\ \A t \in Thread : block[t] = b =>
              /\ pc[t] # "register"
              /\ pc[t] = "synchronize" => \E s \in Stream : awaited[t][s] # 0
<1>1. PICK s \in Stream : \E i \in DOMAIN queue[s] : queue[s][i].block = b BY DEF Queued
<1>2. PICK i \in DOMAIN queue[s] : queue[s][i].block = b BY <1>1
<1>3. Announced(s, i, b) BY <1>2 DEF FenceInv, WorkInv
<1>4. ASSUME entries[b] # NotPooled PROVE FencePending(b)
  <2>1. PICK j \in DOMAIN queue[s] : queue[s][j].block = NoBlock /\ queue[s][j].mark = entries[b].fence
    BY <1>3, <1>4 DEF Announced, MarkedAfter
  <2>2. entries[b].fence \in (1..events) \ signalled BY <2>1 DEF FenceInv, MarkInv
  <2> QED BY <2>2 DEF FencePending, NoEvent, FenceInv, QueueTypes
<1>5. ASSUME NEW t \in Thread, block[t] = b, pc[t] = "synchronize" PROVE awaited[t][s] # 0
  <2>1. i <= awaited[t][s] BY <1>3, <1>5 DEF Announced
  <2>2. queue[s] \in Seq([block : Address, mark : Nat]) /\ awaited[t][s] \in Nat
    BY <1>5 DEF FenceInv, QueueTypes
  <2>3. i >= 1 BY <1>2, <2>2
  <2> QED BY <2>1, <2>2, <2>3
<1> QED BY <1>3, <1>4, <1>5 DEF Announced

\* A mark joins a stream: what was there stays, and the mark is after all of it.
LEMMA MarkJoins ==
  ASSUME ConstantsAssumption, QueueTypes, NEW s \in Stream, NEW e,
         queue' = [queue EXCEPT ![s] = Append(@, [block |-> NoBlock, mark |-> e])]
  PROVE  /\ \A r \in Stream : \A i \in DOMAIN queue[r] :
              i \in DOMAIN queue'[r] /\ queue'[r][i] = queue[r][i]
         /\ \A r \in Stream : \A i \in DOMAIN queue'[r] :
              i \in DOMAIN queue[r] \/ queue'[r][i].block \notin Block
         /\ \A i \in DOMAIN queue[s] : MarkedAfter(queue'[s], i, e)
<1>1. queue[s] \in Seq([block : Address, mark : Nat]) BY DEF QueueTypes
<1>2. /\ queue'[s] = Append(queue[s], [block |-> NoBlock, mark |-> e])
      /\ \A r \in Stream \ {s} : queue'[r] = queue[r]
  BY DEF QueueTypes
<1>3. /\ Len(queue[s]) \in Nat /\ DOMAIN queue[s] = 1..Len(queue[s])
      /\ DOMAIN queue'[s] = 1..Len(queue[s]) + 1
      /\ \A i \in 1..Len(queue[s]) : queue'[s][i] = queue[s][i]
      /\ queue'[s][Len(queue[s]) + 1] = [block |-> NoBlock, mark |-> e]
  BY <1>1, <1>2
<1>4. ASSUME NEW i \in DOMAIN queue'[s] PROVE i \in DOMAIN queue[s] \/ queue'[s][i].block \notin Block
  <2>1. i \in 1..Len(queue[s]) \/ i = Len(queue[s]) + 1 BY <1>3, <1>4
  <2> QED BY <1>3, <2>1 DEF ConstantsAssumption
<1>5. ASSUME NEW i \in DOMAIN queue[s] PROVE MarkedAfter(queue'[s], i, e)
  BY <1>3 DEF MarkedAfter
<1>6. \A i \in DOMAIN queue[s] : i \in DOMAIN queue'[s] /\ queue'[s][i] = queue[s][i]
  BY <1>3
<1> QED BY <1>2, <1>4, <1>5, <1>6

\* Steps that neither give a block nor take one from its holder.
LEMMA QuietWork ==
  ASSUME ConstantsAssumption, FenceInv, NEW t \in Thread,
         \/ \E n \in Size, forHandle \in BOOLEAN : Acquire(t, n, forHandle)
         \/ ScanStale(t) \/ ScanBusy(t) \/ ScanNothing(t) \/ EnterHandle(t) \/ Copy(t)
         \/ \E h \in handles : Upload(t, h) \/ Download(t, h)
  PROVE  WorkInv'
<1>1. UNCHANGED <<entries, driver, block, event, queue, awaited, tenure>>
  BY DEF Acquire, ScanStale, ScanBusy, ScanNothing, EnterHandle, Copy, Upload, Download, StartCopy,
         pool, locals, gpu
<1>2. \E to \in {"scan", "alloc", "idle", "upload", "download"} :
        pc' = [pc EXCEPT ![t] = to] \/ pc' = pc
  BY DEF Acquire, ScanStale, ScanBusy, ScanNothing, EnterHandle, Copy, Upload, Download, StartCopy,
         Goto, locals
<1>3. \A u \in Thread : pc'[u] = pc[u] \/ pc'[u] \in {"scan", "alloc", "idle", "upload", "download"}
  BY <1>2 DEF FenceInv, PoolInv, TypeInv
<1>4. \A b \in Block : holders'[b] # {} => holders[b] # {}
  <2>1. CASE EnterHandle(t)
    <3>1. pc[t] = "enter" /\ t \in holders[block[t]] /\ block[t] \in Block
      BY <2>1 DEF EnterHandle, FenceInv, PoolInv, PlaceInv
    <3>2. \A b \in Block \ {block[t]} : holders'[b] = holders[b]
      BY <2>1 DEF EnterHandle, FenceInv, PoolInv, TypeInv
    <3> QED BY <3>1, <3>2
  <2>2. CASE ~EnterHandle(t)
    BY <2>2 DEF Acquire, ScanStale, ScanBusy, ScanNothing, Copy, Upload, Download, StartCopy
  <2> QED BY <2>1, <2>2
<1>5. WorkInv BY DEF FenceInv
<1>6. \A b \in Block : Queued(b) =>
         driver[b] # 0 /\ \A u \in Thread : block[u] = b => pc[u] # "register"
  BY NothingQueued
<1> QED BY <1>1, <1>3, <1>4, <1>5, <1>6, AnnouncedStays

\* A block with queued work is not taken from the pool.
LEMMA TakeWork ==
  ASSUME ConstantsAssumption, FenceInv, NEW t \in Thread, ScanTake(t)
  PROVE  WorkInv'
<1>1. PICK b \in Block :
           /\ entries[b] # NotPooled /\ ~FencePending(b) /\ holders[b] = {}
           /\ entries' = [entries EXCEPT ![b] = NotPooled]
           /\ holders' = [holders EXCEPT ![b] = {t}] /\ block' = [block EXCEPT ![t] = b]
           /\ tenure' = [tenure EXCEPT ![b] = @ + 1]
  BY TakeTakes DEF FenceInv
<1>2. UNCHANGED <<driver, event, queue, awaited>> /\ \E to \in {"enter", "idle"} : pc' = [pc EXCEPT ![t] = to]
  BY DEF ScanTake, Grant, Goto, gpu
<1>3. ~Queued(b) BY <1>1, NothingQueued
<1>4. \A c \in Block \ {b} : holders'[c] = holders[c] /\ tenure'[c] = tenure[c] /\ entries'[c] = entries[c]
  BY <1>1 DEF FenceInv, PoolInv, TypeInv, QueueTypes
<1>5. \A u \in Thread \ {t} : pc'[u] = pc[u] /\ block'[u] = block[u]
  BY <1>1, <1>2 DEF FenceInv, PoolInv, TypeInv
<1>6. pc'[t] \in {"enter", "idle"} BY <1>2 DEF FenceInv, PoolInv, TypeInv
<1>7. WorkInv BY DEF FenceInv
<1>8. \A c \in Block : Queued(c) =>
         c # b /\ driver[c] # 0 /\ \A u \in Thread : block[u] = c => pc[u] # "register"
  BY <1>3, NothingQueued
<1> QED BY <1>2, <1>4, <1>5, <1>6, <1>7, <1>8, AnnouncedStays

\* The driver gives an address it has taken back, and its size is registered: nothing that
\* was launched on it is left.
LEMMA NewBlockWork ==
  ASSUME ConstantsAssumption, FenceInv, NEW t \in Thread, DriverAlloc(t) \/ RegisterSize(t)
  PROVE  WorkInv'
<1>1. /\ pc \in [Thread -> Places] /\ block \in [Thread -> Address] /\ driver \in [Block -> Nat]
      /\ tenure \in [Block -> Nat] /\ holders \in [Block -> SUBSET (Thread \cup Handle)]
  BY DEF FenceInv, PoolInv, TypeInv, QueueTypes
<1>2. WorkInv BY DEF FenceInv
<1>3. \A c \in Block : Queued(c) =>
         driver[c] # 0 /\ \A u \in Thread : block[u] = c => pc[u] # "register"
  BY NothingQueued
<1>4. UNCHANGED <<entries, event, queue, awaited>>
  BY DEF DriverAlloc, RegisterSize, pool, gpu
<1>5. CASE DriverAlloc(t)
  <2>1. UNCHANGED <<holders, tenure>> BY <1>5 DEF DriverAlloc
  <2>2. CASE pc' = [pc EXCEPT ![t] = "idle"] /\ UNCHANGED <<driver, block>>
    BY <1>1, <1>2, <1>3, <1>4, <2>1, <2>2, AnnouncedStays
  <2>3. ASSUME NEW b \in Block, driver[b] = 0, driver' = [driver EXCEPT ![b] = want[t]],
               block' = [block EXCEPT ![t] = b], pc' = [pc EXCEPT ![t] = "register"]
        PROVE  WorkInv'
    <3>1. ~Queued(b) BY <1>3, <2>3
    <3>2. \A c \in Block \ {b} : driver'[c] = driver[c] BY <1>1, <2>3
    <3>3. block'[t] = b /\ \A u \in Thread \ {t} : block'[u] = block[u] /\ pc'[u] = pc[u]
      BY <1>1, <2>3
    <3>4. \A c \in Block : Queued(c) => c # b BY <3>1
    <3> QED BY <1>2, <1>3, <1>4, <2>1, <3>2, <3>3, <3>4, AnnouncedStays
  <2> QED BY <1>5, <2>2, <2>3 DEF DriverAlloc, Goto
<1>6. CASE RegisterSize(t)
  <2>1. PICK b \in Block : b = block[t]
    BY <1>6 DEF RegisterSize, FenceInv, PoolInv, PlaceInv
  <2>2. pc[t] = "register" /\ ~Queued(b) BY <1>3, <1>6, <2>1 DEF RegisterSize
  <2>3. UNCHANGED <<driver, block>> /\ \E to \in {"enter", "idle"} : pc' = [pc EXCEPT ![t] = to]
    BY <1>1, <1>6 DEF RegisterSize, Grant, Goto
  <2>4. \A c \in Block \ {b} : holders'[c] = holders[c] /\ tenure'[c] = tenure[c]
    BY <1>1, <1>6, <2>1 DEF RegisterSize, Grant
  <2>5. \A c \in Block : Queued(c) => c # b BY <2>2
  <2> QED BY <1>1, <1>2, <1>3, <1>4, <2>3, <2>4, <2>5, AnnouncedStays
<1> QED BY <1>5, <1>6

\* A block that joins the pool has the fence its release recorded.
LEMMA PoolWork ==
  ASSUME ConstantsAssumption, FenceInv, NEW t \in Thread, Pool(t)
  PROVE  WorkInv'
<1>9. PICK b \in Block, gone \in Seq(Block) : PoolMove(t, b, gone) BY PoolMoves DEF FenceInv
<1>1. /\ b = block[t] /\ pc[t] = "release"
      /\ entries' = [x \in Block |->
                       IF x \in ToSet(gone) THEN NotPooled
                       ELSE IF x = b THEN [size |-> sizes[b], fence |-> event[t]] ELSE entries[x]]
      /\ pc' = [pc EXCEPT ![t] = IF gone = <<>> THEN "idle" ELSE "freeing"]
  BY <1>9 DEF PoolMove
<1>2. UNCHANGED <<driver, holders, tenure, block, queue, awaited>> /\ event' = [event EXCEPT ![t] = 0]
  BY DEF Pool, gpu, NoEvent
<1>3. pc \in [Thread -> Places] /\ event \in [Thread -> Nat]
  BY DEF FenceInv, PoolInv, TypeInv
<1>4. /\ pc'[t] \in {"idle", "freeing"}
      /\ \A u \in Thread \ {t} : pc'[u] = pc[u] /\ event'[u] = event[u]
  BY <1>1, <1>2, <1>3
<1>5. \A c \in Block : entries'[c] # NotPooled =>
         entries'[c] = entries[c] \/ (c = b /\ entries'[c].fence = event[t])
  BY <1>1
<1>6. \A c \in Block : entries'[c] # NotPooled =>
         \/ entries[c] # NotPooled /\ entries'[c].fence = entries[c].fence
         \/ \E u \in Thread : pc[u] = "release" /\ block[u] = c /\ entries'[c].fence = event[u]
  BY <1>1, <1>5
<1>7. WorkInv BY DEF FenceInv
<1>8. \A c \in Block : Queued(c) =>
         driver[c] # 0 /\ \A u \in Thread : block[u] = c => pc[u] # "register"
  BY NothingQueued
<1> QED BY <1>2, <1>4, <1>6, <1>7, <1>8, AnnouncedStays

\* The driver takes back a block whose work is done.
LEMMA FreeWork ==
  ASSUME ConstantsAssumption, FenceInv, NEW t \in Thread, DriverFree(t)
  PROVE  WorkInv'
<1>1. PICK b \in Block : /\ driver' = [driver EXCEPT ![b] = 0] /\ UNCHANGED <<holders, entries>>
                         /\ \A s \in Stream : \A i \in DOMAIN queue[s] : queue[s][i].block # b
                         /\ pc' = [pc EXCEPT ![t] = pc'[t]] /\ pc'[t] \in {"idle", "freeing"}
  BY FreeKeeps DEF FenceInv
<1>2. UNCHANGED <<tenure, block, event, queue, awaited>> BY DEF DriverFree, gpu
<1>3. pc \in [Thread -> Places] /\ driver \in [Block -> Nat]
  BY DEF FenceInv, PoolInv, TypeInv
<1>4. \A u \in Thread \ {t} : pc'[u] = pc[u] BY <1>1, <1>3
<1>5. \A c \in Block : Queued(c) => c # b BY <1>1 DEF Queued
<1>6. \A c \in Block \ {b} : driver'[c] = driver[c] BY <1>1, <1>3
<1>7. WorkInv BY DEF FenceInv
<1>8. \A c \in Block : Queued(c) =>
         driver[c] # 0 /\ \A u \in Thread : block[u] = c => pc[u] # "register"
  BY NothingQueued
<1> QED BY <1>1, <1>2, <1>4, <1>5, <1>6, <1>7, <1>8, AnnouncedStays

\* A synchronization counts everything that is queued, and a release follows it when
\* nothing of that is left.
LEMMA SynchronizeWork ==
  ASSUME ConstantsAssumption, FenceInv, NEW t \in Thread,
         Synchronize(t) \/ \E h \in handles : FreeHandle(t, h)
  PROVE  WorkInv'
<1>1. /\ pc \in [Thread -> Places] /\ block \in [Thread -> Address] /\ event \in [Thread -> Nat]
      /\ awaited \in [Thread -> [Stream -> Nat]] /\ queue \in [Stream -> Seq([block : Address, mark : Nat])]
      /\ holders \in [Block -> SUBSET (Thread \cup Handle)]
  BY DEF FenceInv, PoolInv, TypeInv, QueueTypes
<1>2. WorkInv BY DEF FenceInv
<1>3. \A c \in Block : Queued(c) =>
         /\ driver[c] # 0
         /\ \A u \in Thread : block[u] = c =>
              pc[u] # "register" /\ (pc[u] = "synchronize" => \E s \in Stream : awaited[u][s] # 0)
  BY NothingQueued
<1>4. CASE Synchronize(t)
  <2>1. UNCHANGED <<entries, driver, holders, tenure, block, queue, awaited>>
    BY <1>4 DEF Synchronize, pool, gpu
  <2>2. /\ pc[t] = "synchronize" /\ pc' = [pc EXCEPT ![t] = "release"] /\ \A s \in Stream : awaited[t][s] = 0
        /\ event' = [event EXCEPT ![t] = NoEvent]
    BY <1>4 DEF Synchronize, Goto
  <2>3. \A u \in Thread \ {t} : pc'[u] = pc[u] /\ event'[u] = event[u] BY <1>1, <2>2
  <2>4. \A c \in Block : Queued(c) => c # block[t] BY <1>3, <2>2
  <2> QED BY <1>2, <1>3, <2>1, <2>3, <2>4, AnnouncedStays
<1>5. ASSUME NEW h \in handles, FreeHandle(t, h) PROVE WorkInv'
  <2>1. UNCHANGED <<entries, driver, event, tenure, queue>>
    BY <1>5 DEF FreeHandle, pool
  <2>2. /\ pc' = [pc EXCEPT ![t] = "synchronize"] /\ block' = [block EXCEPT ![t] = h.block]
        /\ awaited' = [awaited EXCEPT ![t] = [s \in Stream |-> Len(queue[s])]]
        /\ holders' = [holders EXCEPT ![h.block] = @ \ {h}]
    BY <1>5 DEF FreeHandle, Goto
  <2>3. \A u \in Thread \ {t} : pc'[u] = pc[u] /\ block'[u] = block[u] /\ awaited'[u] = awaited[u]
    BY <1>1, <2>2
  <2>4. pc'[t] = "synchronize" /\ \A s \in Stream : awaited'[t][s] = Len(queue[s]) BY <1>1, <2>2
  <2>5. ASSUME NEW s \in Stream, NEW i \in DOMAIN queue[s] PROVE i <= awaited'[t][s]
    <3>1. queue[s] \in Seq([block : Address, mark : Nat]) /\ awaited'[t][s] = Len(queue[s])
      BY <1>1, <2>4
    <3> QED BY <3>1
  <2>6. \A c \in Block : holders'[c] # {} => holders[c] # {} BY <1>1, <2>2
  <2> QED BY <1>2, <1>3, <2>1, <2>3, <2>4, <2>5, <2>6, AnnouncedStays
<1> QED BY <1>4, <1>5

\* A release records its mark after the work of its stream, and a refused one leaves
\* nothing but a mark.
LEMMA ReleaseWork ==
  ASSUME ConstantsAssumption, FenceInv, ~EventsFail,
         NEW t \in Thread, NEW b \in Block, NEW s \in Stream,
         Release(t, b, s) \/ PoolRefuses(t, b, s)
  PROVE  WorkInv'
<1>1. /\ pc \in [Thread -> Places] /\ block \in [Thread -> Address] /\ event \in [Thread -> Nat]
      /\ holders \in [Block -> SUBSET (Thread \cup Handle)] /\ QueueTypes
  BY DEF FenceInv, PoolInv, TypeInv
<1>2. WorkInv BY DEF FenceInv
<1>3. \A c \in Block : Queued(c) =>
         driver[c] # 0 /\ \A u \in Thread : block[u] = c => pc[u] # "register"
  BY NothingQueued
<1>4. queue' = [queue EXCEPT ![s] = Append(@, [block |-> NoBlock, mark |-> events + 1])]
      /\ UNCHANGED <<entries, driver, tenure, awaited>>
  BY DEF Release, PoolRefuses, pool
<1>5. /\ \A r \in Stream : \A i \in DOMAIN queue[r] :
            i \in DOMAIN queue'[r] /\ queue'[r][i] = queue[r][i]
      /\ \A r \in Stream : \A i \in DOMAIN queue'[r] :
            i \in DOMAIN queue[r] \/ queue'[r][i].block \notin Block
      /\ \A i \in DOMAIN queue[s] : MarkedAfter(queue'[s], i, events + 1)
  BY <1>1, <1>4, MarkJoins
<1>6. CASE PoolRefuses(t, b, s)
  <2>1. UNCHANGED <<holders, pc, block, event>> BY <1>6 DEF PoolRefuses, locals
  <2> QED BY <1>2, <1>3, <1>4, <1>5, <2>1, AnnouncedStays
<1>7. CASE Release(t, b, s)
  <2>1. /\ holders' = [holders EXCEPT ![b] = @ \ {t}] /\ block' = [block EXCEPT ![t] = b]
        /\ event' = [event EXCEPT ![t] = events + 1] /\ pc' = [pc EXCEPT ![t] = "release"]
        /\ \A r \in Stream \ {s} : \A i \in DOMAIN queue[r] : queue[r][i].block # b
    BY <1>7 DEF Release, Goto
  <2>2. block'[t] = b /\ event'[t] = events + 1 /\ pc'[t] = "release" BY <1>1, <2>1
  <2>3. \A u \in Thread \ {t} : pc'[u] = pc[u] /\ block'[u] = block[u] /\ event'[u] = event[u]
    BY <1>1, <2>1
  <2>4. \A c \in Block : holders'[c] # {} => holders[c] # {} BY <1>1, <2>1
  <2>5. \A r \in Stream : \A i \in DOMAIN queue[r] :
          queue[r][i].block = b => MarkedAfter(queue'[r], i, event'[t])
    BY <1>5, <2>1, <2>2
  <2> QED BY <1>2, <1>3, <1>4, <1>5, <2>2, <2>3, <2>4, <2>5, AnnouncedStays
<1> QED BY <1>6, <1>7

\* Work is launched for whoever holds the block.
LEMMA LaunchWork ==
  ASSUME ConstantsAssumption, FenceInv, NEW t \in Thread, NEW b \in Block, NEW s \in Stream,
         Launch(t, b, s)
  PROVE  WorkInv'
<1>1. UNCHANGED <<driver, holders, tenure, entries, block, pc, event, awaited>>
  BY DEF Launch, pool, locals
<1>2. PICK x : x = [block |-> b, mark |-> tenure[b]] OBVIOUS
<1>3. queue[s] \in Seq([block : Address, mark : Nat])
      /\ queue'[s] = Append(queue[s], x) /\ \A r \in Stream \ {s} : queue'[r] = queue[r]
  BY <1>2 DEF Launch, FenceInv, QueueTypes
<1>4. /\ Len(queue[s]) \in Nat /\ DOMAIN queue[s] = 1..Len(queue[s])
      /\ DOMAIN queue'[s] = 1..Len(queue[s]) + 1
      /\ \A i \in 1..Len(queue[s]) : queue'[s][i] = queue[s][i]
      /\ queue'[s][Len(queue[s]) + 1] = x
  BY <1>3
<1>5. holders[b] # {} BY DEF Launch
<1>6. driver[b] # 0 /\ entries[b] = NotPooled /\ \A u \in Thread : ~Carried(u, b)
  BY <1>5 DEF FenceInv, PoolInv, HolderInv, CarryInv
<1> SUFFICES ASSUME NEW r \in Stream, NEW i \in DOMAIN queue'[r], NEW c \in Block,
                    queue'[r][i].block = c
             PROVE  Announced(r, i, c)'
  BY DEF WorkInv
<1>7. CASE i \in DOMAIN queue[r] /\ queue'[r][i] = queue[r][i]
  <2>1. Announced(r, i, c) BY <1>7 DEF FenceInv, WorkInv
  <2>2. ASSUME NEW e, MarkedAfter(queue[r], i, e) PROVE MarkedAfter(queue'[r], i, e)
    <3>1. \A j \in DOMAIN queue[r] : j \in DOMAIN queue'[r] /\ queue'[r][j] = queue[r][j]
      <4>1. CASE r = s BY <1>4, <4>1
      <4>2. CASE r # s BY <1>3, <4>2
      <4> QED BY <4>1, <4>2
    <3> QED BY <2>2, <3>1 DEF MarkedAfter
  <2> QED BY <1>1, <1>7, <2>1, <2>2 DEF Announced
<1>8. CASE r = s /\ i = Len(queue[s]) + 1
  <2>1. queue'[r][i] = x /\ c = b BY <1>2, <1>4, <1>8
  <2>2. \A u \in Thread : block[u] = b => pc[u] \notin {"register", "release", "synchronize"}
    BY <1>6 DEF Carried
  <2> QED BY <1>1, <1>2, <1>6, <2>1, <2>2 DEF Announced
<1>9. (i \in DOMAIN queue[r] /\ queue'[r][i] = queue[r][i]) \/ (r = s /\ i = Len(queue[s]) + 1)
  <2>1. CASE r = s
    <3>1. i \in 1..Len(queue[s]) \/ i = Len(queue[s]) + 1 BY <1>4, <2>1
    <3> QED BY <1>4, <2>1, <3>1
  <2>2. CASE r # s BY <1>3, <2>2
  <2> QED BY <2>1, <2>2
<1> QED BY <1>7, <1>8, <1>9

\* The head of a stream leaves it: every place behind it is one less.
LEMMA TailPlaces ==
  ASSUME QueueTypes, NEW s \in Stream, DeviceStep(s)
  PROVE  /\ \A r \in Stream \ {s} : queue'[r] = queue[r]
         /\ \A i \in DOMAIN queue'[s] :
              i \in Nat \ {0} /\ i + 1 \in DOMAIN queue[s] /\ queue'[s][i] = queue[s][i + 1]
         /\ \A j \in DOMAIN queue[s] : j # 1 =>
              j - 1 \in DOMAIN queue'[s] /\ queue'[s][j - 1] = queue[s][j] /\ j \in Nat
         /\ queue[s][1] = Head(queue[s]) /\ 1 \in DOMAIN queue[s]
         /\ queue' \in [Stream -> Seq([block : Address, mark : Nat])]
<1> DEFINE q == queue[s]
<1>1. q \in Seq([block : Address, mark : Nat]) /\ q # <<>>
      /\ queue' = [queue EXCEPT ![s] = Tail(q)]
      /\ queue \in [Stream -> Seq([block : Address, mark : Nat])]
  BY DEF QueueTypes, DeviceStep
<1>2. queue'[s] = Tail(q) /\ \A r \in Stream \ {s} : queue'[r] = queue[r] BY <1>1
<1> HIDE DEF q
<1>3. Len(q) \in Nat /\ Len(q) >= 1 /\ Head(q) = q[1] /\ DOMAIN q = 1..Len(q) BY <1>1
<1>4. Tail(q) \in Seq([block : Address, mark : Nat]) /\ DOMAIN Tail(q) = 1..Len(q) - 1
      /\ \A j \in 1..Len(q) - 1 : Tail(q)[j] = q[j + 1]
  BY <1>1, <1>3
<1>5. \A i \in DOMAIN Tail(q) : i \in Nat \ {0} /\ i + 1 \in DOMAIN q /\ Tail(q)[i] = q[i + 1]
  BY <1>3, <1>4
<1>6. ASSUME NEW j \in DOMAIN q, j # 1
      PROVE  j - 1 \in DOMAIN Tail(q) /\ Tail(q)[j - 1] = q[j] /\ j \in Nat
  <2>1. j - 1 \in 1..Len(q) - 1 /\ (j - 1) + 1 = j BY <1>3, <1>6
  <2> QED BY <1>4, <2>1
<1>7. 1 \in DOMAIN q BY <1>3
<1>8. queue' \in [Stream -> Seq([block : Address, mark : Nat])] BY <1>1, <1>4
<1> QED BY <1>2, <1>3, <1>5, <1>6, <1>7, <1>8 DEF q

\* The device runs the first item of a stream.
LEMMA DeviceWork ==
  ASSUME ConstantsAssumption, FenceInv, NEW s \in Stream, DeviceStep(s)
  PROVE  WorkInv'
<1>1. UNCHANGED <<driver, holders, tenure, entries, block, pc, event>>
  BY DEF DeviceStep, pool, locals
<1>2. /\ \A r \in Stream \ {s} : queue'[r] = queue[r]
      /\ \A i \in DOMAIN queue'[s] :
           i \in Nat \ {0} /\ i + 1 \in DOMAIN queue[s] /\ queue'[s][i] = queue[s][i + 1]
      /\ \A j \in DOMAIN queue[s] : j # 1 =>
           j - 1 \in DOMAIN queue'[s] /\ queue'[s][j - 1] = queue[s][j] /\ j \in Nat
  BY TailPlaces DEF FenceInv
<1>3. \A u \in Thread : /\ \A r \in Stream \ {s} : awaited'[u][r] = awaited[u][r]
                        /\ awaited[u][s] \in Nat
                        /\ awaited[u][s] # 0 => awaited'[u][s] = awaited[u][s] - 1
  BY DEF DeviceStep, FenceInv, QueueTypes
<1> SUFFICES ASSUME NEW r \in Stream, NEW i \in DOMAIN queue'[r], NEW b \in Block,
                    queue'[r][i].block = b
             PROVE  Announced(r, i, b)'
  BY DEF WorkInv
<1>4. CASE r # s
  <2>1. Announced(r, i, b) BY <1>2, <1>4 DEF FenceInv, WorkInv
  <2> QED BY <1>1, <1>2, <1>3, <1>4, <2>1 DEF Announced
<1>5. CASE r = s
  <2>1. i \in Nat \ {0} /\ i + 1 \in DOMAIN queue[s] /\ queue'[s][i] = queue[s][i + 1] BY <1>2, <1>5
  <2>2. Announced(s, i + 1, b) BY <1>5, <2>1 DEF FenceInv, WorkInv
  <2>3. ASSUME NEW e, MarkedAfter(queue[s], i + 1, e) PROVE MarkedAfter(queue'[s], i, e)
    <3>1. PICK j \in DOMAIN queue[s] :
            j > i + 1 /\ queue[s][j].block = NoBlock /\ queue[s][j].mark = e
      BY <2>3 DEF MarkedAfter
    <3>2. j # 1 BY <2>1, <3>1
    <3>3. j - 1 \in DOMAIN queue'[s] /\ queue'[s][j - 1] = queue[s][j] /\ j \in Nat BY <1>2, <3>2
    <3>4. j - 1 > i BY <2>1, <3>1, <3>3
    <3> QED BY <3>1, <3>3, <3>4 DEF MarkedAfter
  <2>4. \A u \in Thread : i + 1 <= awaited[u][s] => i <= awaited'[u][s]
    <3> TAKE u \in Thread
    <3>1. awaited[u][s] \in Nat /\ (awaited[u][s] # 0 => awaited'[u][s] = awaited[u][s] - 1)
      BY <1>3
    <3> QED BY <2>1, <3>1
  <2> QED BY <1>1, <1>5, <2>1, <2>2, <2>3, <2>4 DEF Announced
<1> QED BY <1>4, <1>5

\* An item joins a stream: a mark that is new, or work.
LEMMA MarksJoin ==
  ASSUME QueueTypes, MarkInv, NEW s \in Stream, NEW x \in [block : Address, mark : Nat],
         queue' = [queue EXCEPT ![s] = Append(@, x)], UNCHANGED signalled,
         events' \in Nat, events <= events',
         x.block = NoBlock => x.mark \in (1..events') \ (1..events)
  PROVE  MarkInv'
<1>1. /\ queue[s] \in Seq([block : Address, mark : Nat]) /\ events \in Nat
      /\ queue'[s] = Append(queue[s], x) /\ \A r \in Stream \ {s} : queue'[r] = queue[r]
  BY DEF QueueTypes
<1>2. /\ Len(queue[s]) \in Nat /\ DOMAIN queue[s] = 1..Len(queue[s])
      /\ DOMAIN queue'[s] = 1..Len(queue[s]) + 1
      /\ \A i \in 1..Len(queue[s]) : queue'[s][i] = queue[s][i]
      /\ queue'[s][Len(queue[s]) + 1] = x
  BY <1>1
<1>3. ASSUME NEW r \in Stream, NEW i \in DOMAIN queue'[r]
      PROVE  \/ i \in DOMAIN queue[r] /\ queue'[r][i] = queue[r][i]
             \/ r = s /\ i = Len(queue[s]) + 1 /\ queue'[r][i] = x
  <2>1. CASE r = s
    <3>1. i \in 1..Len(queue[s]) \/ i = Len(queue[s]) + 1 BY <1>2, <1>3, <2>1
    <3> QED BY <1>2, <2>1, <3>1
  <2>2. CASE r # s BY <1>1, <1>3, <2>2
  <2> QED BY <2>1, <2>2
<1>4. \A n \in 1..events : n \in 1..events' BY <1>1
<1>8. signalled' \subseteq 1..events'
  <2>1. signalled \subseteq 1..events BY DEF MarkInv
  <2> QED BY <1>4, <2>1
<1>5. ASSUME NEW r \in Stream, NEW i \in DOMAIN queue[r], queue[r][i].block = NoBlock
      PROVE  queue[r][i].mark \in (1..events) \ signalled
  BY <1>5 DEF MarkInv
<1>6. ASSUME NEW r \in Stream, NEW i \in DOMAIN queue'[r], queue'[r][i].block = NoBlock
      PROVE  queue'[r][i].mark \in (1..events') \ signalled'
  <2>1. CASE i \in DOMAIN queue[r] /\ queue'[r][i] = queue[r][i]
    <3>1. queue'[r][i].mark \in (1..events) \ signalled BY <1>5, <1>6, <2>1
    <3> QED BY <1>4, <3>1
  <2>2. CASE r = s /\ i = Len(queue[s]) + 1 /\ queue'[r][i] = x
    <3>1. x.mark \in (1..events') \ (1..events) BY <1>6, <2>2
    <3>2. signalled' \subseteq 1..events BY DEF MarkInv
    <3> QED BY <2>2, <3>1, <3>2
  <2> QED BY <1>3, <2>1, <2>2
<1>7. ASSUME NEW r \in Stream, NEW i \in DOMAIN queue'[r], NEW o \in Stream, NEW j \in DOMAIN queue'[o],
             queue'[r][i].block = NoBlock, queue'[o][j].block = NoBlock,
             queue'[o][j].mark = queue'[r][i].mark
      PROVE  o = r /\ j = i
  <2>1. CASE i \in DOMAIN queue[r] /\ queue'[r][i] = queue[r][i]
    <3>1. CASE j \in DOMAIN queue[o] /\ queue'[o][j] = queue[o][j]
      BY <1>7, <2>1, <3>1 DEF MarkInv
    <3>2. CASE o = s /\ j = Len(queue[s]) + 1 /\ queue'[o][j] = x
      BY <1>5, <1>7, <2>1, <3>2
    <3> QED BY <1>3, <3>1, <3>2
  <2>2. CASE r = s /\ i = Len(queue[s]) + 1 /\ queue'[r][i] = x
    <3>1. CASE j \in DOMAIN queue[o] /\ queue'[o][j] = queue[o][j]
      BY <1>5, <1>7, <2>2, <3>1
    <3>2. CASE o = s /\ j = Len(queue[s]) + 1
      BY <2>2, <3>2
    <3> QED BY <1>3, <3>1, <3>2
  <2> QED BY <1>3, <2>1, <2>2
<1> QED BY <1>4, <1>6, <1>7, <1>8 DEF MarkInv

\* The mark at the head of a stream is signalled and leaves it.
LEMMA MarksLeave ==
  ASSUME QueueTypes, MarkInv, NEW s \in Stream, DeviceStep(s)
  PROVE  MarkInv'
<1>1. /\ \A r \in Stream \ {s} : queue'[r] = queue[r]
      /\ \A i \in DOMAIN queue'[s] :
           i \in Nat \ {0} /\ i + 1 \in DOMAIN queue[s] /\ queue'[s][i] = queue[s][i + 1]
      /\ queue[s][1] = Head(queue[s]) /\ 1 \in DOMAIN queue[s]
  BY TailPlaces
<1>2. events' = events
      /\ signalled' = IF queue[s][1].block = NoBlock THEN signalled \cup {queue[s][1].mark} ELSE signalled
  BY <1>1 DEF DeviceStep
<1>3. signalled' \subseteq 1..events'
  <2>1. signalled \subseteq 1..events
        /\ (queue[s][1].block = NoBlock => queue[s][1].mark \in 1..events)
    BY <1>1 DEF MarkInv
  <2> QED BY <1>2, <2>1
<1> DEFINE Was(r, i) == IF r = s THEN i + 1 ELSE i
<1>4. ASSUME NEW r \in Stream, NEW i \in DOMAIN queue'[r]
      PROVE  /\ Was(r, i) \in DOMAIN queue[r] /\ queue'[r][i] = queue[r][Was(r, i)]
             /\ r = s => Was(r, i) # 1 /\ i \in Nat
  <2>1. CASE r = s
    <3>1. i \in Nat \ {0} /\ i + 1 \in DOMAIN queue[r] /\ queue'[r][i] = queue[r][i + 1]
      BY <1>1, <1>4, <2>1
    <3>2. Was(r, i) = i + 1 /\ i + 1 # 1 BY <2>1, <3>1
    <3> QED BY <1>1, <2>1, <3>1, <3>2
  <2>2. CASE r # s
    <3>1. queue'[r] = queue[r] /\ Was(r, i) = i BY <1>1, <2>2
    <3> QED BY <1>4, <2>2, <3>1
  <2> QED BY <2>1, <2>2
<1>5. ASSUME NEW r \in Stream, NEW i \in DOMAIN queue'[r], queue'[r][i].block = NoBlock
      PROVE  queue'[r][i].mark \in (1..events') \ signalled'
  <2> DEFINE k == Was(r, i)
  <2>1. k \in DOMAIN queue[r] /\ queue'[r][i] = queue[r][k] /\ (r = s => k # 1) BY <1>4
  <2> HIDE DEF k, Was
  <2>2. queue[r][k].block = NoBlock BY <1>5, <2>1
  <2>3. queue[r][k].mark \in (1..events) \ signalled BY <2>1, <2>2 DEF MarkInv
  <2>4. queue[s][1].block = NoBlock => queue[r][k].mark # queue[s][1].mark
    BY <1>1, <2>1, <2>2 DEF MarkInv
  <2> QED BY <1>2, <2>1, <2>3, <2>4
<1>6. ASSUME NEW r \in Stream, NEW i \in DOMAIN queue'[r], NEW o \in Stream, NEW j \in DOMAIN queue'[o],
             queue'[r][i].block = NoBlock, queue'[o][j].block = NoBlock,
             queue'[o][j].mark = queue'[r][i].mark
      PROVE  o = r /\ j = i
  <2>1. Was(r, i) \in DOMAIN queue[r] /\ queue'[r][i] = queue[r][Was(r, i)] BY <1>4
  <2>2. Was(o, j) \in DOMAIN queue[o] /\ queue'[o][j] = queue[o][Was(o, j)] BY <1>4
  <2>3. o = r /\ Was(o, j) = Was(r, i)
    <3> HIDE DEF Was
    <3> QED BY <1>6, <2>1, <2>2 DEF MarkInv
  <2>4. r = s => i \in Nat /\ j \in Nat BY <1>4, <2>3
  <2> QED BY <2>3, <2>4
<1> QED BY <1>3, <1>5, <1>6 DEF MarkInv

\* What is in the streams keeps its shape.
LEMMA QueueTypesKept ==
  ASSUME ConstantsAssumption, PoolInv, QueueTypes, [Next]_vars
  PROVE  QueueTypes'
<1>1. /\ queue \in [Stream -> Seq([block : Address, mark : Nat])]
      /\ awaited \in [Thread -> [Stream -> Nat]] /\ events \in Nat /\ tenure \in [Block -> Nat]
  BY DEF QueueTypes
<1>2. ASSUME NEW t \in Thread, ScanTake(t) \/ RegisterSize(t) PROVE QueueTypes'
  <2>1. UNCHANGED <<queue, awaited, events>>
        /\ \E b : tenure' = [tenure EXCEPT ![b] = @ + 1]
    BY <1>2 DEF ScanTake, RegisterSize, Grant, gpu
  <2>2. tenure' \in [Block -> Nat]
    <3>1. PICK b : tenure' = [tenure EXCEPT ![b] = @ + 1] BY <2>1
    <3>2. b \in Block => tenure[b] + 1 \in Nat BY <1>1
    <3> QED BY <1>1, <3>1, <3>2
  <2> QED BY <1>1, <2>1, <2>2 DEF QueueTypes
<1>3. ASSUME NEW t \in Thread, NEW b \in Block, NEW s \in Stream,
             Release(t, b, s) \/ PoolRefuses(t, b, s) \/ Launch(t, b, s)
      PROVE  QueueTypes'
  <2>1. UNCHANGED <<awaited, tenure>> BY <1>3 DEF Release, PoolRefuses, Launch
  <2>2. [block |-> NoBlock, mark |-> events + 1] \in [block : Address, mark : Nat]
        /\ [block |-> b, mark |-> tenure[b]] \in [block : Address, mark : Nat] /\ events + 1 \in Nat
    BY <1>1 DEF Address
  <2>3. events' \in Nat /\ (queue' = queue \/ \E x \in [block : Address, mark : Nat] :
                              queue' = [queue EXCEPT ![s] = Append(@, x)])
    BY <1>1, <1>3, <2>2 DEF Release, PoolRefuses, Launch
  <2>4. ASSUME NEW x \in [block : Address, mark : Nat]
        PROVE  Append(queue[s], x) \in Seq([block : Address, mark : Nat])
    <3>1. queue[s] \in Seq([block : Address, mark : Nat]) BY <1>1
    <3> QED BY <3>1
  <2>5. queue' \in [Stream -> Seq([block : Address, mark : Nat])] BY <1>1, <2>3, <2>4
  <2> QED BY <1>1, <2>1, <2>3, <2>5 DEF QueueTypes
<1>4. ASSUME NEW t \in Thread, NEW h \in handles, FreeHandle(t, h) PROVE QueueTypes'
  <2>1. UNCHANGED <<queue, events, tenure>>
        /\ awaited' = [awaited EXCEPT ![t] = [s \in Stream |-> Len(queue[s])]]
    BY <1>4 DEF FreeHandle
  <2>2. [s \in Stream |-> Len(queue[s])] \in [Stream -> Nat] BY <1>1
  <2>3. awaited' \in [Thread -> [Stream -> Nat]] BY <1>1, <2>1, <2>2
  <2> QED BY <1>1, <2>1, <2>3 DEF QueueTypes
<1>5. ASSUME NEW s \in Stream, DeviceStep(s) PROVE QueueTypes'
  <2>1. UNCHANGED <<events, tenure>>
        /\ awaited' = [t \in Thread |-> [awaited[t] EXCEPT ![s] = IF @ = 0 THEN 0 ELSE @ - 1]]
    BY <1>5 DEF DeviceStep
  <2>2. awaited' \in [Thread -> [Stream -> Nat]]
    <3>1. ASSUME NEW t \in Thread
          PROVE  [awaited[t] EXCEPT ![s] = IF @ = 0 THEN 0 ELSE @ - 1] \in [Stream -> Nat]
      <4>1. awaited[t] \in [Stream -> Nat] /\ awaited[t][s] \in Nat BY <1>1
      <4> QED BY <4>1
    <3> QED BY <2>1, <3>1
  <2>3. queue' \in [Stream -> Seq([block : Address, mark : Nat])] BY <1>5, TailPlaces
  <2> QED BY <1>1, <2>1, <2>2, <2>3 DEF QueueTypes
<1>6. CASE UNCHANGED <<queue, awaited, events, tenure>> BY <1>1, <1>6 DEF QueueTypes
<1>7. ASSUME NEW t \in Thread,
             \/ ScanStale(t) \/ ScanBusy(t) \/ ScanNothing(t) \/ DriverAlloc(t) \/ Pool(t)
             \/ DriverFree(t) \/ EnterHandle(t) \/ Synchronize(t) \/ Copy(t)
             \/ \E n \in Size, forHandle \in BOOLEAN : Acquire(t, n, forHandle)
             \/ \E h \in handles : Upload(t, h) \/ Download(t, h)
      PROVE  UNCHANGED <<queue, awaited, events, tenure, signalled>>
  BY <1>7 DEF ScanStale, ScanBusy, ScanNothing, DriverAlloc, Pool, DriverFree, EnterHandle,
     Synchronize, Copy, Acquire, Upload, Download, StartCopy, gpu
<1>8. UNCHANGED vars => UNCHANGED <<queue, awaited, events, tenure>> BY DEF vars, gpu
<1> QED BY <1>2, <1>3, <1>4, <1>5, <1>6, <1>7, <1>8 DEF Next, PoolStep

\* What the run checks of the pool, as one invariant: when events are recorded, the places
\* of queued work and of the marks behind it come with it.
LEMMA FenceStepKeeps ==
  ASSUME ConstantsAssumption, ~EventsFail, FenceInv, [Next]_vars
  PROVE  FenceInv'
<1>1. PoolInv' BY PoolStepKeeps DEF FenceInv
<1>2. QueueTypes' BY QueueTypesKept DEF FenceInv
<1>3. ASSUME NEW t \in Thread, PoolStep(t) PROVE WorkInv' /\ MarkInv'
  <2>1. WorkInv'
    BY <1>3, QuietWork, TakeWork, NewBlockWork, PoolWork, FreeWork, SynchronizeWork DEF PoolStep
  <2>2. UNCHANGED <<queue, signalled, events>>
    BY <1>3 DEF PoolStep, ScanStale, ScanBusy, ScanTake, ScanNothing, DriverAlloc, RegisterSize, Pool,
       DriverFree, EnterHandle, Synchronize, Copy, gpu
  <2> QED BY <2>1, <2>2 DEF FenceInv, MarkInv
<1>4. ASSUME NEW t \in Thread, NEW n \in Size, NEW forHandle \in BOOLEAN, Acquire(t, n, forHandle)
      PROVE  WorkInv' /\ MarkInv'
  <2>1. UNCHANGED <<queue, signalled, events>> BY <1>4 DEF Acquire, gpu
  <2> QED BY <1>4, <2>1, QuietWork DEF FenceInv, MarkInv
<1>5. ASSUME NEW t \in Thread, NEW b \in Block, NEW s \in Stream, Release(t, b, s) \/ PoolRefuses(t, b, s)
      PROVE  WorkInv' /\ MarkInv'
  <2>1. /\ queue' = [queue EXCEPT ![s] = Append(@, [block |-> NoBlock, mark |-> events + 1])]
        /\ events' = events + 1 /\ UNCHANGED signalled
    BY <1>5 DEF Release, PoolRefuses
  <2>2. events \in Nat BY DEF FenceInv, QueueTypes
  <2>3. [block |-> NoBlock, mark |-> events + 1] \in [block : Address, mark : Nat]
    BY <2>2 DEF Address
  <2>4. events + 1 \in (1..events') \ (1..events) /\ events' \in Nat /\ events <= events'
    BY <2>1, <2>2
  <2>5. MarkInv' BY <2>1, <2>3, <2>4, MarksJoin DEF FenceInv
  <2> QED BY <1>5, <2>5, ReleaseWork
<1>6. ASSUME NEW t \in Thread, NEW b \in Block, NEW s \in Stream, Launch(t, b, s)
      PROVE  WorkInv' /\ MarkInv'
  <2>1. /\ queue' = [queue EXCEPT ![s] = Append(@, [block |-> b, mark |-> tenure[b]])]
        /\ UNCHANGED <<signalled, events>>
    BY <1>6 DEF Launch
  <2>2. events \in Nat /\ [block |-> b, mark |-> tenure[b]] \in [block : Address, mark : Nat]
    BY DEF FenceInv, QueueTypes, Address
  <2>3. b # NoBlock /\ events <= events' /\ events' \in Nat BY <2>1, <2>2 DEF ConstantsAssumption
  <2>4. MarkInv' BY <2>1, <2>2, <2>3, MarksJoin DEF FenceInv
  <2> QED BY <1>6, <2>4, LaunchWork
<1>7. ASSUME NEW t \in Thread, NEW h \in handles, FreeHandle(t, h) \/ Upload(t, h) \/ Download(t, h)
      PROVE  WorkInv' /\ MarkInv'
  <2>1. UNCHANGED <<queue, signalled, events>>
    BY <1>7 DEF FreeHandle, Upload, Download, StartCopy, gpu
  <2>2. WorkInv' BY <1>7, QuietWork, SynchronizeWork
  <2> QED BY <2>1, <2>2 DEF FenceInv, MarkInv
<1>8. ASSUME NEW s \in Stream, DeviceStep(s) PROVE WorkInv' /\ MarkInv'
  BY <1>8, DeviceWork, MarksLeave DEF FenceInv
<1>9. ASSUME UNCHANGED vars PROVE WorkInv' /\ MarkInv'
  <2>1. UNCHANGED <<queue, signalled, events, awaited, driver, holders, tenure, entries, block, pc, event>>
    BY <1>9 DEF vars, gpu, pool, locals
  <2>2. MarkInv' BY <2>1 DEF FenceInv, MarkInv
  <2>3. \A s \in Stream, b \in Block : \A i : Announced(s, i, b)' <=> Announced(s, i, b)
    BY <2>1 DEF Announced, MarkedAfter
  <2>4. ASSUME NEW s \in Stream, NEW i \in DOMAIN queue'[s], NEW b \in Block, queue'[s][i].block = b
        PROVE  Announced(s, i, b)'
    <3>1. i \in DOMAIN queue[s] /\ queue[s][i].block = b BY <2>1, <2>4
    <3>2. Announced(s, i, b) BY <3>1 DEF FenceInv, WorkInv
    <3> QED BY <2>3, <3>2
  <2>5. WorkInv' BY <2>4 DEF WorkInv
  <2> QED BY <2>2, <2>5
<1>10. WorkInv' /\ MarkInv'
  BY <1>3, <1>4, <1>5, <1>6, <1>7, <1>8, <1>9 DEF Next
<1> QED BY <1>1, <1>2, <1>10 DEF FenceInv

\* Nothing is held or queued at first.
LEMMA PoolStarts ==
  ASSUME ConstantsAssumption, Init
  PROVE  FenceInv
<1>1. NotPooled \in [size : Nat, fence : Nat] /\ NoHandle \in Handle /\ NoBlock \in Address
  BY DEF NotPooled, NoEvent, NoHandle, Handle, Address
<1>2. TypeInv BY <1>1 DEF Init, TypeInv, Places, NoEvent
<1>3. PlaceInv BY DEF Init, PlaceInv
<1>4. HolderInv BY DEF Init, HolderInv
<1>5. CarryInv BY DEF Init, CarryInv, Carried
<1>6. PooledInv BY DEF Init, PooledInv
<1>7. NoBlockLost BY DEF Init, NoBlockLost
<1>8. QueueTypes BY DEF Init, QueueTypes
<1>9. WorkInv /\ MarkInv BY DEF Init, WorkInv, MarkInv
<1> QED BY <1>2, <1>3, <1>4, <1>5, <1>6, <1>7, <1>8, <1>9 DEF FenceInv, PoolInv

LEMMA BytesStart ==
  ASSUME ConstantsAssumption, Init
  PROVE  ByteInv
<1>1. Pooled = {} BY DEF Init, Pooled
<1>2. BytesOf(Pooled, entries) = {} BY <1>1 DEF BytesOf
<1>3. IsFiniteSet({}) /\ Cardinality({}) = 0 BY FS_EmptySet
<1>4. pooledBytes = 0 /\ \A b \in Block : sizes[b] = 0 BY DEF Init
<1> QED BY <1>1, <1>2, <1>3, <1>4 DEF ByteInv, Bytes, ConstantsAssumption

\* One holder in the places is one holder by count.
LEMMA HeldOnce ==
  ASSUME PoolInv
  PROVE  OneHolder
<1> SUFFICES ASSUME NEW b \in Block
             PROVE  /\ Cardinality(holders[b]) <= 1
                    /\ holders[b] # {} => entries[b] = NotPooled /\ driver[b] # 0 /\ sizes[b] = driver[b]
  BY DEF OneHolder
<1>1. holders[b] # {} => entries[b] = NotPooled /\ driver[b] # 0 /\ sizes[b] = driver[b]
  BY DEF PoolInv, HolderInv
<1>2. CASE holders[b] = {} BY <1>2, <1>1, FS_EmptySet
<1>3. ASSUME NEW x \in holders[b] PROVE Cardinality(holders[b]) <= 1
  <2>1. holders[b] = {x} BY <1>3 DEF PoolInv, HolderInv
  <2> QED BY <2>1, FS_Singleton
<1> QED BY <1>1, <1>2, <1>3

\* acquire and release, allocate and free of the buffers' table: no two holders ever have
\* one block, no holder's block is pooled or given back, and every block the driver gave is
\* held, pooled or in a call; with events that fail too.
THEOREM BlocksHeldOnce ==
  ASSUME ConstantsAssumption
  PROVE  Spec => [](OneHolder /\ NoBlockLost)
<1>1. Init => PoolInv /\ QueueTypes BY PoolStarts DEF FenceInv
<1>2. PoolInv /\ QueueTypes /\ [Next]_vars => (PoolInv /\ QueueTypes)'
  BY PoolStepKeeps, QueueTypesKept
<1>3. PoolInv => OneHolder /\ NoBlockLost BY HeldOnce DEF PoolInv
<1> QED BY <1>1, <1>2, <1>3, PTL DEF Spec

\* The tables of the pool, through every acquisition, eviction and refused release: the order
\* has each pooled block once, the counter is the sum of their bytes and within the limit,
\* and each is in the list an acquisition of its size looks through.
THEOREM TablesAgree ==
  ASSUME ConstantsAssumption
  PROVE  Spec => []PoolConsistent
<1> DEFINE Inv == PoolInv /\ QueueTypes /\ ByteInv
<1>1. Init => Inv BY PoolStarts, BytesStart DEF FenceInv
<1>2. Inv /\ [Next]_vars => Inv' BY PoolStepKeeps, QueueTypesKept, ByteStepKeeps
<1>3. Inv => PoolConsistent BY TablesMatch
<1> QED BY <1>1, <1>2, <1>3, PTL DEF Spec

\* The fence of a pooled block and the synchronization of a freed buffer: when events can be
\* recorded, whoever is handed a block finds no work of an earlier holder still queued.
THEOREM FencesProtect ==
  ASSUME ConstantsAssumption, ~EventsFail
  PROVE  Spec => []NoReuseWhileQueued
<1>1. Init => FenceInv BY PoolStarts
<1>2. FenceInv /\ [Next]_vars => FenceInv' BY FenceStepKeeps
<1>3. FenceInv => NoReuseWhileQueued
  BY DEF FenceInv, WorkInv, Announced, NoReuseWhileQueued
<1> QED BY <1>1, <1>2, <1>3, PTL DEF Spec
==============================================================================
