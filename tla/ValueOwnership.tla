---------------------------- MODULE ValueOwnership ----------------------------
(***************************************************************************)
(* The counted references behind Value, Observation and Result: handles that *)
(* each belong to one thread, and may be handed to another, share storages   *)
(* and observation blocks.  An operation on a handle is a list of steps that  *)
(* interleave with other threads; a count changes in one atomic step.        *)
(***************************************************************************)
EXTENDS Integers, FiniteSets, Sequences, SequencesExt, FiniteSetTheorems, TLAPS

CONSTANTS
  Threads,
  ValueHandles, BlockHandles,
  Storages,       \* what values own
  Block,          \* the observation block of a result
  Observed,       \* the storages its records own, a subset of Storages
  None

Handles == ValueHandles \cup BlockHandles
Objects == Storages \cup {Block}

ConstantsAssumption ==
  /\ IsFiniteSet(Handles) /\ ValueHandles \cap BlockHandles = {} /\ Block \notin Storages /\ None \notin Objects
  /\ Observed \subseteq Storages /\ IsFiniteSet(Observed)

VARIABLES
  owner,    \* the thread a handle belongs to
  points,   \* storage_ or block_ of a handle
  refs,     \* references of an object
  life,     \* of an object: unused, live, deleted, deletedTwice
  todo,     \* the steps a thread has left
  writing   \* the handle a thread's operation assigns or destroys

vars == <<owner, points, refs, life, todo, writing>>

Null(o) == o = None
Step(op, o, h) == [op |-> op, object |-> o, handle |-> h]
Retain(o) == IF Null(o) THEN <<>> ELSE <<Step("retain", o, None)>>
Release(o) == IF Null(o) THEN <<>> ELSE <<Step("release", o, None)>>
Set(h, o) == <<Step("set", o, h)>>

Begin(h, steps) ==
  /\ todo[owner[h]] = <<>>
  /\ todo' = [todo EXCEPT ![owner[h]] = steps]
  /\ writing' = [writing EXCEPT ![owner[h]] = h]

SameKind(h, g) == h # g /\ owner[h] = owner[g] /\ (h \in ValueHandles <=> g \in ValueHandles)

CopyConstruct(h, g) ==
  /\ SameKind(h, g) /\ Null(points[h]) /\ ~Null(points[g])
  /\ Begin(h, Set(h, points[g]) \o Retain(points[g]))
  /\ UNCHANGED <<owner, points, refs, life>>

CopyAssign(h, g) ==
  /\ SameKind(h, g)
  /\ Begin(h, Retain(points[g]) \o Release(points[h]) \o Set(h, points[g]))
  /\ UNCHANGED <<owner, points, refs, life>>
MoveAssign(h, g) ==
  /\ SameKind(h, g)
  /\ Begin(h, Release(points[h]) \o Set(h, points[g]) \o Set(g, None))
  /\ UNCHANGED <<owner, points, refs, life>>

Destroy(h) ==
  /\ ~Null(points[h])
  /\ Begin(h, Release(points[h]) \o Set(h, None))
  /\ UNCHANGED <<owner, points, refs, life>>

\* SessionAbiV2::observation: a value is copied out of the block's record.
CopyOut(h, g, o) ==
  /\ h \in ValueHandles /\ g \in BlockHandles /\ owner[h] = owner[g]
  /\ Null(points[h]) /\ ~Null(points[g]) /\ o \in Observed
  /\ Begin(h, Set(h, o) \o Retain(o))
  /\ UNCHANGED <<owner, points, refs, life>>

\* SessionAbiV2::allocate: the fresh storage replaces the old one.
Allocate(h, o) ==
  /\ h \in ValueHandles /\ life[o] = "unused" /\ o \in Storages
  /\ Begin(h, Release(points[h]) \o Set(h, o))
  /\ refs' = [refs EXCEPT ![o] = 1] /\ life' = [life EXCEPT ![o] = "live"]
  /\ UNCHANGED <<owner, points>>

\* A handle is handed to another thread.
Transfer(h, u) ==
  /\ todo[owner[h]] = <<>> /\ owner[h] # u /\ ~Null(points[h])
  /\ owner' = [owner EXCEPT ![h] = u] /\ UNCHANGED <<points, refs, life, todo, writing>>

------------------------------------------------------------------------------
Rest(t) == Tail(todo[t])
Then(t, steps) == todo' = [todo EXCEPT ![t] = steps \o Rest(t)]

DoSet(t) ==
  LET s == Head(todo[t]) IN
  /\ s.op = "set" /\ points' = [points EXCEPT ![s.handle] = s.object]
  /\ Then(t, <<>>) /\ UNCHANGED <<owner, refs, life, writing>>

DoRetain(t) ==
  LET s == Head(todo[t]) IN
  /\ s.op = "retain"
  /\ refs' = IF Null(s.object) THEN refs ELSE [refs EXCEPT ![s.object] = @ + 1]
  /\ Then(t, <<>>) /\ UNCHANGED <<owner, points, life, writing>>

\* Fault: the count is read again after the subtraction, when another thread
\* may have given up its reference too.
DoRelease_Reload(t) ==
  LET s == Head(todo[t])
      Both == refs[s.object] = 2 /\ \E u \in Threads \ {t} : todo[u] # <<>> /\ Head(todo[u]) = s
  IN
  /\ s.op = "release" /\ refs' = [refs EXCEPT ![s.object] = @ - 1]
  /\ Then(t, IF refs[s.object] = 1 \/ Both THEN <<Step("delete", s.object, None)>> ELSE <<>>)
  /\ UNCHANGED <<owner, points, life, writing>>

\* fetch_sub: the thread that gave up the last reference deletes.
DoRelease(t) ==
  LET s == Head(todo[t]) IN
  /\ s.op = "release" /\ refs' = [refs EXCEPT ![s.object] = @ - 1]
  /\ Then(t, IF refs[s.object] = 1 THEN <<Step("delete", s.object, None)>> ELSE <<>>)
  /\ UNCHANGED <<owner, points, life, writing>>

\* The records of a block are destroyed with it.
DoDelete(t) ==
  LET s == Head(todo[t]) IN
  /\ s.op = "delete"
  /\ life' = [life EXCEPT ![s.object] = IF @ = "live" THEN "deleted" ELSE "deletedTwice"]
  /\ Then(t, IF s.object = Block THEN [i \in 1..Cardinality(Observed) |->
                                         Step("release", SetToSeq(Observed)[i], None)] ELSE <<>>)
  /\ UNCHANGED <<owner, points, refs, writing>>

Continue(t) == todo[t] # <<>> /\ (DoSet(t) \/ DoRetain(t) \/ DoRelease(t) \/ DoDelete(t))

\* A session has just given its result, to one handle of one thread.
Init ==
  /\ \E h \in BlockHandles, t \in Threads :
       /\ owner = [g \in Handles |-> t]
       /\ points = [g \in Handles |-> IF g = h THEN Block ELSE None]
  /\ refs = [o \in Objects |-> IF o = Block \/ o \in Observed THEN 1 ELSE 0]
  /\ life = [o \in Objects |-> IF o = Block \/ o \in Observed THEN "live" ELSE "unused"]
  /\ todo = [t \in Threads |-> <<>>] /\ writing = [t \in Threads |-> None]

Next ==
  \/ \E h, g \in Handles : CopyConstruct(h, g) \/ CopyAssign(h, g) \/ MoveAssign(h, g)
  \/ \E h \in Handles : Destroy(h) \/ \E u \in Threads : Transfer(h, u)
  \/ \E h, g \in Handles, o \in Storages : CopyOut(h, g, o)
  \/ \E h \in Handles, o \in Storages : Allocate(h, o)
  \/ \E t \in Threads : Continue(t)

Spec == Init /\ [][Next]_vars

------------------------------------------------------------------------------
Idle(t) == todo[t] = <<>>

\* Handles whose pointer their thread may follow now: all but the one it is
\* assigning.
Readable == {h \in Handles : Idle(owner[h]) \/ writing[owner[h]] # h}

\* What a handle points to is alive, and so are the values of a block.
OwnedIsAlive ==
  \A h \in Readable : ~Null(points[h]) =>
    /\ life[points[h]] = "live"
    /\ points[h] = Block => \A o \in Observed : life[o] = "live"

\* Nothing is deleted twice, whichever threads give up the last references.
DeletedOnce == \A o \in Objects : life[o] # "deletedTwice"

\* What no handle owns any more has been deleted.
NothingLeaks ==
  (\A t \in Threads : Idle(t)) =>
    \A o \in Objects : life[o] = "live" =>
      \/ \E h \in Handles : points[h] = o
      \/ o \in Observed /\ life[Block] = "live"
------------------------------------------------------------------------------
(* The counts, for any number of threads, handles and storages. *)

RetainStep(o) == Step("retain", o, None)
ReleaseStep(o) == Step("release", o, None)
DeleteStep(o) == Step("delete", o, None)
SetStep(h, o) == Step("set", o, h)

\* The handles of blocks point to the block of the result.
Kind(h, o) == h \in BlockHandles => o \in {Block, None}
Steps ==
  {s \in [op: {"retain", "release", "delete", "set"}, object: Objects \cup {None},
          handle: Handles \cup {None}] : s.op = "set" => Kind(s.handle, s.object)}

Has(s, x) == \E i \in DOMAIN s : s[i] = x

TypeInv ==
  /\ owner \in [Handles -> Threads] /\ points \in [Handles -> Objects \cup {None}]
  /\ \A h \in Handles : Kind(h, points[h])
  /\ refs \in [Objects -> Nat]
  /\ life \in [Objects -> {"unused", "live", "deleted"}]
  /\ todo \in [Threads -> Seq(Steps)] /\ writing \in [Threads -> Handles \cup {None}]

\* Another handle of the thread keeps o alive while it is copied.
Source(t, h, o) ==
  \E g \in Handles \ {h} :
    owner[g] = t /\ points[g] \in {o} \cup (IF o \in Observed THEN {Block} ELSE {})

\* What stands before the assignment of a handle: the release of what it held,
\* then what that release brought about.
Deleting(d, h) ==
  /\ \A i \in 1..Len(d) :
       \/ \E o \in Observed : d[i] = ReleaseStep(o)
       \/ i = 1 /\ \E o \in Objects : d[i] = DeleteStep(o)
  /\ \A i, j \in 1..Len(d) : d[i] = d[j] => i = j
  /\ Has(d, DeleteStep(Block)) => points[h] = Block
  /\ (\E o \in Observed : Has(d, ReleaseStep(o))) => points[h] = Block /\ life[Block] = "deleted"
GivingUp(d, h) ==
  \/ points[h] # None /\ d = <<ReleaseStep(points[h])>>
  \/ Deleting(d, h)

\* The rest of a copy, of an assignment, and of a move.
Copying(t, h, o) ==
  /\ Source(t, h, o)
  /\ \/ todo[t] = <<SetStep(h, o), RetainStep(o)>> /\ points[h] = None
     \/ todo[t] = <<RetainStep(o)>> /\ points[h] = o
     \/ todo[t] = <<RetainStep(o), SetStep(h, o)>> /\ points[h] = None
     \/ /\ todo[t] = <<RetainStep(o), ReleaseStep(points[h]), SetStep(h, o)>>
        /\ points[h] # None
Assignment(t, h, r) ==
  \/ \E o \in Objects \cup {None} : r = <<SetStep(h, o)>>
  \/ \E g \in Handles \ {h} : owner[g] = t /\ r = <<SetStep(h, points[g]), SetStep(g, None)>>
Assigning(t, h) ==
  \E d, r \in Seq(Steps) : GivingUp(d, h) /\ Assignment(t, h, r) /\ todo[t] = d \o r
Moved(t, h) ==
  \E g \in Handles \ {h} :
    owner[g] = t /\ todo[t] = <<SetStep(g, None)>> /\ points[h] = points[g]

Form(t, h) ==
  /\ h \in Handles /\ owner[h] = t
  /\ (\E o \in Objects : Copying(t, h, o)) \/ Assigning(t, h) \/ Moved(t, h)
FormInv == \A t \in Threads : Idle(t) \/ Form(t, writing[t])

\* Who holds a reference to o: a handle that points to it, unless its thread
\* is assigning it and has given the reference up or not taken it yet; a handle
\* that is about to point to it; and the record of a block.
Busy(h) == ~Idle(owner[h]) /\ writing[owner[h]] = h
Holds(h, o) == points[h] = o /\ (Busy(h) => Has(todo[owner[h]], ReleaseStep(o)))
Awaits(h, o) ==
  /\ Busy(h) /\ Has(todo[owner[h]], SetStep(h, o))
  /\ ~Has(todo[owner[h]], RetainStep(o))
  /\ \A g \in Handles \ {h} : ~Has(todo[owner[h]], SetStep(g, None))
RecordPending(t, o) == Has(todo[t], ReleaseStep(o)) /\ points[writing[t]] # o
Recorded(o) == o \in Observed /\ (life[Block] = "live" \/ \E t \in Threads : RecordPending(t, o))

HoldersOf(o) == {h \in Handles : Holds(h, o)}
AwaitersOf(o) == {h \in Handles : Awaits(h, o)}
RefInv ==
  \A o \in Objects :
    refs[o] = Cardinality(HoldersOf(o)) + Cardinality(AwaitersOf(o)) + (IF Recorded(o) THEN 1 ELSE 0)

RecordInv ==
  \A t \in Threads, o \in Objects : RecordPending(t, o) =>
    /\ life[Block] = "deleted"
    /\ \A u \in Threads : RecordPending(u, o) => u = t

\* An object is live until nobody refers to it, and then until the one thread
\* that gave up the last reference deletes it.
LifeInv ==
  \A o \in Objects :
    /\ refs[o] > 0 => life[o] = "live"
    /\ (life[o] = "live" /\ refs[o] = 0) <=> \E t \in Threads : Has(todo[t], DeleteStep(o))
    /\ \A t, u \in Threads : Has(todo[t], DeleteStep(o)) /\ Has(todo[u], DeleteStep(o)) => t = u

OwnershipInv == TypeInv /\ FormInv /\ RefInv /\ RecordInv /\ LifeInv

LEMMA HasOne == ASSUME NEW a, NEW x PROVE Has(<<a>>, x) <=> x = a
  BY DEF Has
LEMMA HasTwo == ASSUME NEW a, NEW b, NEW x PROVE Has(<<a, b>>, x) <=> x \in {a, b}
  BY DEF Has
LEMMA HasThree ==
  ASSUME NEW a, NEW b, NEW c, NEW x PROVE Has(<<a, b, c>>, x) <=> x \in {a, b, c}
  BY DEF Has
LEMMA HasNothing == \A x : ~Has(<<>>, x)
  BY DEF Has

LEMMA ConcatFacts ==
  ASSUME NEW a, NEW b, NEW c
  PROVE  /\ <<a>> \o <<b>> = <<a, b>> /\ <<a>> \o <<b, c>> = <<a, b, c>>
         /\ <<a, b>> \o <<c>> = <<a, b, c>>
         /\ <<>> \o <<a>> = <<a>> /\ <<>> \o <<a, b>> = <<a, b>> /\ <<a>> \o <<>> = <<a>>
  <1>1. <<a>> \o <<b>> = <<a, b>>
    <2> DEFINE s == <<a>> \o <<b>>
    <2>1. s \in Seq({a, b}) /\ Len(<<a>>) = 1 /\ Len(<<b>>) = 1 OBVIOUS
    <2>2. Len(s) = 2 /\ s[1] = a /\ s[2] = b BY <2>1
    <2> HIDE DEF s
    <2>3. s = <<a, b>> BY <2>1, <2>2
    <2> QED BY <2>3 DEF s
  <1>2. <<a>> \o <<b, c>> = <<a, b, c>>
    <2> DEFINE s == <<a>> \o <<b, c>>
    <2>1. s \in Seq({a, b, c}) /\ Len(<<a>>) = 1 /\ Len(<<b, c>>) = 2 OBVIOUS
    <2>2. Len(s) = 3 /\ s[1] = a /\ s[2] = b /\ s[3] = c BY <2>1
    <2> HIDE DEF s
    <2>3. s = <<a, b, c>> BY <2>1, <2>2
    <2> QED BY <2>3 DEF s
  <1>3. <<a, b>> \o <<c>> = <<a, b, c>>
    <2> DEFINE s == <<a, b>> \o <<c>>
    <2>1. s \in Seq({a, b, c}) /\ Len(<<a, b>>) = 2 /\ Len(<<c>>) = 1 OBVIOUS
    <2>2. Len(s) = 3 /\ s[1] = a /\ s[2] = b /\ s[3] = c BY <2>1
    <2> HIDE DEF s
    <2>3. s = <<a, b, c>> BY <2>1, <2>2
    <2> QED BY <2>3 DEF s
  <1>4. <<>> \o <<a>> = <<a>> OBVIOUS
  <1>5. <<>> \o <<a, b>> = <<a, b>> OBVIOUS
  <1>6. <<a>> \o <<>> = <<a>> OBVIOUS
  <1> QED BY <1>1, <1>2, <1>3, <1>4, <1>5, <1>6

LEMMA SeqFacts ==
  ASSUME NEW S, NEW a \in S, NEW b \in S, NEW c \in S
  PROVE  <<a>> \in Seq(S) /\ <<a, b>> \in Seq(S) /\ <<a, b, c>> \in Seq(S) /\ <<>> \in Seq(S)
  OBVIOUS

LEMMA ElementFacts ==
  ASSUME NEW S, NEW a, NEW b
  PROVE  /\ <<a>> \in Seq(S) => a \in S
         /\ <<a, b>> \in Seq(S) => a \in S /\ b \in S
  <1>1. \A s \in Seq(S) : \A i \in 1..Len(s) : s[i] \in S OBVIOUS
  <1>2. Len(<<a>>) = 1 /\ Len(<<a, b>>) = 2 /\ <<a>>[1] = a /\ <<a, b>>[1] = a /\ <<a, b>>[2] = b OBVIOUS
  <1>3. <<a>> \in Seq(S) => a \in S BY <1>1, <1>2
  <1>4. <<a, b>> \in Seq(S) => a \in S /\ b \in S
    <2> SUFFICES ASSUME <<a, b>> \in Seq(S) PROVE a \in S /\ b \in S OBVIOUS
    <2>1. 1 \in 1..2 /\ 2 \in 1..2 OBVIOUS
    <2> QED BY <1>1, <1>2, <2>1
  <1> QED BY <1>3, <1>4

LEMMA TailFacts ==
  ASSUME NEW a, NEW b, NEW c
  PROVE  /\ Head(<<a>>) = a /\ Head(<<a, b>>) = a /\ Head(<<a, b, c>>) = a
         /\ Tail(<<a>>) = <<>> /\ Tail(<<a, b>>) = <<b>> /\ Tail(<<a, b, c>>) = <<b, c>>
  <1>1. Head(<<a>>) = a /\ Head(<<a, b>>) = a /\ Head(<<a, b, c>>) = a OBVIOUS
  <1>2. Tail(<<a>>) = <<>> OBVIOUS
  <1>3. Tail(<<a, b>>) = <<b>> OBVIOUS
  <1>4. Tail(<<a, b, c>>) = <<b, c>> OBVIOUS
  <1> QED BY <1>1, <1>2, <1>3, <1>4

LEMMA HasConcat ==
  ASSUME NEW S, NEW s \in Seq(S), NEW r \in Seq(S), NEW x
  PROVE  Has(s \o r, x) <=> Has(s, x) \/ Has(r, x)
  <1>1. \A i \in 1..Len(s) : (s \o r)[i] = s[i] /\ i \in 1..Len(s) + Len(r) OBVIOUS
  <1>2. \A i \in 1..Len(r) : (s \o r)[Len(s) + i] = r[i] /\ Len(s) + i \in 1..Len(s) + Len(r)
    OBVIOUS
  <1>3. \A i \in 1..Len(s) + Len(r) : i \notin 1..Len(s) => i - Len(s) \in 1..Len(r)
    OBVIOUS
  <1>4. /\ DOMAIN s = 1..Len(s) /\ DOMAIN r = 1..Len(r)
        /\ DOMAIN (s \o r) = 1..Len(s) + Len(r)
        /\ Len(s) \in Nat /\ Len(r) \in Nat
    OBVIOUS
  <1>5. ASSUME Has(s \o r, x) PROVE Has(s, x) \/ Has(r, x)
    <2>1. PICK i \in 1..Len(s) + Len(r) : (s \o r)[i] = x BY <1>4, <1>5 DEF Has
    <2>2. CASE i \in 1..Len(s) BY <1>1, <1>4, <2>1, <2>2 DEF Has
    <2>3. CASE i \notin 1..Len(s)
      <3>1. i - Len(s) \in 1..Len(r) BY <1>3, <2>3
      <3>2. Len(s) + (i - Len(s)) = i BY <1>4
      <3>3. r[i - Len(s)] = x BY <1>2, <2>1, <3>1, <3>2
      <3> QED BY <1>4, <3>1, <3>3 DEF Has
    <2> QED BY <2>2, <2>3
  <1>6. ASSUME Has(s, x) \/ Has(r, x) PROVE Has(s \o r, x)
    BY <1>1, <1>2, <1>4, <1>6 DEF Has
  <1> QED BY <1>5, <1>6

\* Two sets of handles that differ in one handle.
LEMMA OneHandle ==
  ASSUME ConstantsAssumption, NEW S \in SUBSET Handles, NEW T \in SUBSET Handles, NEW h \in Handles,
         \A g \in Handles \ {h} : g \in S <=> g \in T
  PROVE  /\ Cardinality(S) \in Nat /\ Cardinality(T) \in Nat
         /\ Cardinality(T) = Cardinality(S) + (IF h \in T THEN 1 ELSE 0) - (IF h \in S THEN 1 ELSE 0)
  <1>1. IsFiniteSet(S) /\ IsFiniteSet(T) BY FS_Subset DEF ConstantsAssumption
  <1>2. Cardinality(S) \in Nat /\ Cardinality(T) \in Nat BY <1>1, FS_CardinalityType
  <1>3. CASE h \in S /\ h \notin T
    <2>1. T = S \ {h} BY <1>3
    <2> QED BY <1>1, <1>2, <1>3, <2>1, FS_RemoveElement
  <1>4. CASE h \notin S /\ h \in T
    <2>1. T = S \cup {h} BY <1>4
    <2> QED BY <1>1, <1>2, <1>4, <2>1, FS_AddElement
  <1>5. CASE h \in S <=> h \in T
    <2>1. T = S BY <1>5
    <2> QED BY <1>2, <2>1
  <1> QED BY <1>3, <1>4, <1>5

\* A set of handles with a member is not empty.
LEMMA Member ==
  ASSUME ConstantsAssumption, NEW S \in SUBSET Handles
  PROVE  Cardinality(S) \in Nat /\ (Cardinality(S) = 0 <=> S = {})
  <1>1. IsFiniteSet(S) BY FS_Subset DEF ConstantsAssumption
  <1> QED BY <1>1, FS_CardinalityType, FS_EmptySet

\* What is held, awaited or recorded is alive.
LEMMA HeldIsAlive ==
  ASSUME ConstantsAssumption, OwnershipInv, NEW o \in Objects,
         Recorded(o) \/ \E h \in Handles : Holds(h, o) \/ Awaits(h, o)
  PROVE  refs[o] > 0 /\ life[o] = "live"
  <1>1. /\ Cardinality(HoldersOf(o)) \in Nat /\ Cardinality(AwaitersOf(o)) \in Nat
        /\ Cardinality(HoldersOf(o)) = 0 <=> HoldersOf(o) = {}
        /\ Cardinality(AwaitersOf(o)) = 0 <=> AwaitersOf(o) = {}
    BY Member DEF HoldersOf, AwaitersOf
  <1>2. refs[o] > 0
    BY <1>1 DEF OwnershipInv, RefInv, HoldersOf, AwaitersOf
  <1> QED BY <1>2 DEF OwnershipInv, LifeInv

------------------------------------------------------------------------------
(* A step of one thread: it changes its own list of steps and its handles. *)

Local(t) ==
  /\ owner' = owner
  /\ \A u \in Threads \ {t} : todo'[u] = todo[u] /\ writing'[u] = writing[u]
  /\ \A g \in Handles : owner[g] # t => points'[g] = points[g]

\* A handle that no operation is writing, before or after.
LEMMA Bystander ==
  ASSUME TypeInv, TypeInv', NEW t \in Threads, Local(t), NEW g \in Handles, points'[g] = points[g],
         owner[g] # t \/ (~Busy(g) /\ ~Busy(g)'), NEW o
  PROVE  (Holds(g, o) <=> Holds(g, o)') /\ (Awaits(g, o) <=> Awaits(g, o)')
  <1>1. CASE owner[g] # t
    <2>1. owner[g] \in Threads \ {t} BY <1>1 DEF TypeInv
    <2> QED BY <2>1 DEF Local, Holds, Awaits, Busy, Idle
  <1>2. CASE ~Busy(g) /\ ~Busy(g)' BY <1>2 DEF Holds, Awaits
  <1> QED BY <1>1, <1>2

\* The other threads are where they were.
LEMMA OthersKeepForm ==
  ASSUME TypeInv, FormInv, NEW u \in Threads, todo'[u] = todo[u], writing'[u] = writing[u],
         \A g \in Handles : owner[g] = u => owner'[g] = u /\ points'[g] = points[g],
         life[Block] = "deleted" => life'[Block] = "deleted"
  PROVE  (Idle(u) \/ Form(u, writing[u]))'
  <1>1. CASE Idle(u) BY <1>1 DEF Idle
  <1>2. CASE ~Idle(u)
    <2> DEFINE h == writing[u]
    <2>1. h \in Handles /\ owner[h] = u /\ Form(u, h) BY <1>2 DEF FormInv, Form
    <2>2. points'[h] = points[h] /\ owner'[h] = u /\ writing'[u] = h BY <2>1
    <2>3. \A o : Source(u, h, o) => Source(u, h, o)'
      BY DEF Source
    <2>4. \A d : GivingUp(d, h) => GivingUp(d, h)'
      BY <2>2 DEF GivingUp, Deleting
    <2>5. \A o : Copying(u, h, o) => Copying(u, h, o)'
      BY <2>2, <2>3 DEF Copying
    <2>6. \A r : Assignment(u, h, r) => Assignment(u, h, r)'
      BY <2>2 DEF Assignment
    <2>9. Assigning(u, h) => Assigning(u, h)'
      BY <2>4, <2>6 DEF Assigning
    <2>7. Moved(u, h) => Moved(u, h)'
      BY <2>2 DEF Moved
    <2>8. Form(u, h)' BY <2>1, <2>2, <2>5, <2>7, <2>9 DEF Form
    <2> QED BY <2>2, <2>8
  <1> QED BY <1>1, <1>2

LEMMA FormKept ==
  ASSUME TypeInv, FormInv, NEW t \in Threads, Local(t), (Idle(t) \/ Form(t, writing[t]))',
         life[Block] = "deleted" => life'[Block] = "deleted"
  PROVE  FormInv'
  <1>1. ASSUME NEW u \in Threads \ {t} PROVE (Idle(u) \/ Form(u, writing[u]))'
    BY OthersKeepForm DEF Local
  <1> QED BY <1>1 DEF FormInv

\* The records of a block are released by one thread.
LEMMA OthersKeepRecords ==
  ASSUME TypeInv, FormInv, NEW t \in Threads, Local(t), NEW u \in Threads \ {t}, NEW o
  PROVE  RecordPending(u, o)' <=> RecordPending(u, o)
  <1>1. CASE Idle(u)
    <2>1. todo[u] = <<>> /\ todo'[u] = <<>> BY <1>1 DEF Local, Idle
    <2>2. ~Has(<<>>, ReleaseStep(o)) BY HasNothing
    <2> QED BY <2>1, <2>2 DEF RecordPending
  <1>2. CASE ~Idle(u)
    <2>1. writing[u] \in Handles /\ owner[writing[u]] = u BY <1>2 DEF FormInv, Form
    <2> QED BY <2>1 DEF RecordPending, Local
  <1> QED BY <1>1, <1>2

\* A step that takes or gives up no reference.
LEMMA QuietKeeps ==
  ASSUME ConstantsAssumption, OwnershipInv, TypeInv', NEW t \in Threads, Local(t),
         refs' = refs, life' = life, (Idle(t) \/ Form(t, writing[t]))',
         \A o \in Objects : /\ Has(todo[t], DeleteStep(o)) <=> Has(todo'[t], DeleteStep(o))
                            /\ RecordPending(t, o)' <=> RecordPending(t, o),
         \A o \in Objects : /\ Cardinality(HoldersOf(o)') + Cardinality(AwaitersOf(o)')
                                 = Cardinality(HoldersOf(o)) + Cardinality(AwaitersOf(o))
  PROVE  OwnershipInv'
  <1>1. FormInv' BY FormKept DEF OwnershipInv
  <1>2. \A u \in Threads, o \in Objects : RecordPending(u, o)' <=> RecordPending(u, o)
    BY OthersKeepRecords DEF OwnershipInv
  <1>3. RecordInv' BY <1>2 DEF OwnershipInv, RecordInv
  <1>4. \A o \in Objects : Recorded(o)' <=> Recorded(o) BY <1>2 DEF Recorded
  <1>5. RefInv'
    <2>1. ASSUME NEW o \in Objects
          PROVE  refs'[o] = Cardinality(HoldersOf(o)') + Cardinality(AwaitersOf(o)')
                              + (IF Recorded(o)' THEN 1 ELSE 0)
      BY <1>4 DEF OwnershipInv, RefInv
    <2> QED BY <2>1 DEF RefInv
  <1>6. \A u \in Threads, o \in Objects : Has(todo'[u], DeleteStep(o)) <=> Has(todo[u], DeleteStep(o))
    BY DEF Local
  <1>7. LifeInv' BY <1>6 DEF OwnershipInv, LifeInv
  <1> QED BY <1>1, <1>3, <1>5, <1>7 DEF OwnershipInv

\* A step of a thread whose references stay as they are, but for those of one
\* handle.
LEMMA OneHandleMoves ==
  ASSUME ConstantsAssumption, TypeInv, TypeInv', NEW t \in Threads, Local(t), NEW h \in Handles,
         \A g \in Handles \ {h} : points'[g] = points[g] /\ (owner[g] # t \/ (~Busy(g) /\ ~Busy(g)')),
         NEW o \in Objects
  PROVE  /\ Cardinality(HoldersOf(o)) \in Nat /\ Cardinality(AwaitersOf(o)) \in Nat
         /\ Cardinality(HoldersOf(o)') = Cardinality(HoldersOf(o))
              + (IF Holds(h, o)' THEN 1 ELSE 0) - (IF Holds(h, o) THEN 1 ELSE 0)
         /\ Cardinality(AwaitersOf(o)') = Cardinality(AwaitersOf(o))
              + (IF Awaits(h, o)' THEN 1 ELSE 0) - (IF Awaits(h, o) THEN 1 ELSE 0)
  <1>0. \A S, T \in SUBSET Handles : (\A g \in Handles \ {h} : g \in S <=> g \in T) =>
          /\ Cardinality(S) \in Nat
          /\ Cardinality(T) = Cardinality(S) + (IF h \in T THEN 1 ELSE 0) - (IF h \in S THEN 1 ELSE 0)
    BY OneHandle
  <1>1. \A g \in Handles \ {h} : (Holds(g, o) <=> Holds(g, o)') /\ (Awaits(g, o) <=> Awaits(g, o)')
    BY Bystander
  <1>2. \A g \in Handles \ {h} : g \in HoldersOf(o) <=> g \in HoldersOf(o)' BY <1>1 DEF HoldersOf
  <1>3. \A g \in Handles \ {h} : g \in AwaitersOf(o) <=> g \in AwaitersOf(o)' BY <1>1 DEF AwaitersOf
  <1>4. HoldersOf(o) \in SUBSET Handles /\ HoldersOf(o)' \in SUBSET Handles BY DEF HoldersOf
  <1>5. AwaitersOf(o) \in SUBSET Handles /\ AwaitersOf(o)' \in SUBSET Handles BY DEF AwaitersOf
  <1>6. (h \in HoldersOf(o) <=> Holds(h, o)) /\ (h \in HoldersOf(o)' <=> Holds(h, o)') BY DEF HoldersOf
  <1>7. (h \in AwaitersOf(o) <=> Awaits(h, o)) /\ (h \in AwaitersOf(o)' <=> Awaits(h, o)') BY DEF AwaitersOf
  <1>8. /\ Cardinality(HoldersOf(o)) \in Nat
        /\ Cardinality(HoldersOf(o)') = Cardinality(HoldersOf(o))
             + (IF h \in HoldersOf(o)' THEN 1 ELSE 0) - (IF h \in HoldersOf(o) THEN 1 ELSE 0)
    BY <1>2, <1>4, <1>0
  <1>9. /\ Cardinality(AwaitersOf(o)) \in Nat
        /\ Cardinality(AwaitersOf(o)') = Cardinality(AwaitersOf(o))
             + (IF h \in AwaitersOf(o)' THEN 1 ELSE 0) - (IF h \in AwaitersOf(o) THEN 1 ELSE 0)
    BY <1>3, <1>5, <1>0
  <1> QED BY <1>6, <1>7, <1>8, <1>9

------------------------------------------------------------------------------
(* The operations begin. *)

\* An operation takes no reference: it only lists what it is going to do.
LEMMA BeginKeeps ==
  ASSUME ConstantsAssumption, OwnershipInv, NEW h \in Handles, NEW t \in Threads, t = owner[h],
         NEW steps \in Seq(Steps), Begin(h, steps), UNCHANGED <<owner, points, refs, life>>,
         steps = <<>> \/ Form(t, h)',
         \A o \in Objects : /\ ~Has(steps, DeleteStep(o))
                            /\ Has(steps, ReleaseStep(o)) <=> points[h] = o,
         \A o \in Objects : Has(steps, RetainStep(o)) \/ ~Has(steps, SetStep(h, o))
                              \/ \E g \in Handles \ {h} : Has(steps, SetStep(g, None))
  PROVE  OwnershipInv'
  <1>1. /\ todo[t] = <<>> /\ todo' = [todo EXCEPT ![t] = steps] /\ writing' = [writing EXCEPT ![t] = h]
    BY DEF Begin
  <1>2. TypeInv' /\ todo'[t] = steps /\ writing'[t] = h /\ Local(t)
    BY <1>1 DEF OwnershipInv, TypeInv, Local
  <1>3. (Idle(t) \/ Form(t, writing[t]))' BY <1>2 DEF Idle
  <1>4. \A o \in Objects : Has(todo[t], DeleteStep(o)) <=> Has(todo'[t], DeleteStep(o))
    BY <1>1, <1>2, HasNothing
  <1>5. \A o \in Objects : RecordPending(t, o)' <=> RecordPending(t, o)
    <2>1. \A o \in Objects : ~RecordPending(t, o) BY <1>1, HasNothing DEF RecordPending
    <2>2. \A o \in Objects : ~RecordPending(t, o)' BY <1>2 DEF RecordPending
    <2> QED BY <2>1, <2>2
  <1>6. \A g \in Handles \ {h} : points'[g] = points[g] /\ (owner[g] # t \/ (~Busy(g) /\ ~Busy(g)'))
    <2>1. ASSUME NEW g \in Handles \ {h}, owner[g] = t PROVE ~Busy(g) /\ ~Busy(g)'
      <3>1. ~Busy(g) BY <1>1, <2>1 DEF Busy, Idle
      <3>2. owner'[g] = t BY <1>2, <2>1 DEF Local
      <3>3. ~Busy(g)' BY <1>2, <3>2 DEF Busy
      <3> QED BY <3>1, <3>3
    <2>2. points' = points OBVIOUS
    <2> QED BY <2>1, <2>2
  <1>7. ASSUME NEW o \in Objects
        PROVE  (Holds(h, o)' <=> Holds(h, o)) /\ ~Awaits(h, o) /\ ~Awaits(h, o)'
    <2>1. ~Busy(h) BY <1>1 DEF Busy, Idle
    <2>2. ~Awaits(h, o) /\ (Holds(h, o) <=> points[h] = o) BY <2>1 DEF Awaits, Holds
    <2>3. ~Awaits(h, o)' BY <1>2 DEF Awaits, Busy
    <2>4. Holds(h, o)' <=> points[h] = o BY <1>2 DEF Holds, Busy
    <2> QED BY <2>2, <2>3, <2>4
  <1>8. \A o \in Objects : Cardinality(HoldersOf(o)') + Cardinality(AwaitersOf(o)')
                             = Cardinality(HoldersOf(o)) + Cardinality(AwaitersOf(o))
    <2> TAKE o \in Objects
    <2>1. /\ Cardinality(HoldersOf(o)) \in Nat /\ Cardinality(AwaitersOf(o)) \in Nat
          /\ Cardinality(HoldersOf(o)') = Cardinality(HoldersOf(o))
               + (IF Holds(h, o)' THEN 1 ELSE 0) - (IF Holds(h, o) THEN 1 ELSE 0)
          /\ Cardinality(AwaitersOf(o)') = Cardinality(AwaitersOf(o))
               + (IF Awaits(h, o)' THEN 1 ELSE 0) - (IF Awaits(h, o) THEN 1 ELSE 0)
      BY <1>2, <1>6, OneHandleMoves DEF OwnershipInv
    <2> QED BY <1>7, <2>1
  <1> QED BY <1>2, <1>3, <1>4, <1>5, <1>8, QuietKeeps

\* What the operations list.
LEMMA Lists ==
  ASSUME NEW h \in Handles, NEW o \in Objects \cup {None}
  PROVE  /\ Set(h, o) = <<SetStep(h, o)>> /\ (Kind(h, o) => SetStep(h, o) \in Steps)
         /\ Retain(o) = (IF o = None THEN <<>> ELSE <<RetainStep(o)>>) /\ RetainStep(o) \in Steps
         /\ Release(o) = (IF o = None THEN <<>> ELSE <<ReleaseStep(o)>>) /\ ReleaseStep(o) \in Steps
         /\ DeleteStep(o) \in Steps
  BY DEF Set, Retain, Release, Null, SetStep, RetainStep, ReleaseStep, DeleteStep, Step, Steps

LEMMA DifferentSteps ==
  ASSUME NEW h, NEW g, NEW o, NEW q
  PROVE  /\ SetStep(h, o) # RetainStep(q) /\ SetStep(h, o) # ReleaseStep(q)
         /\ SetStep(h, o) # DeleteStep(q) /\ RetainStep(o) # ReleaseStep(q)
         /\ RetainStep(o) # DeleteStep(q) /\ ReleaseStep(o) # DeleteStep(q)
         /\ SetStep(h, o) = SetStep(g, q) <=> h = g /\ o = q
         /\ RetainStep(o) = RetainStep(q) <=> o = q
         /\ ReleaseStep(o) = ReleaseStep(q) <=> o = q
         /\ DeleteStep(o) = DeleteStep(q) <=> o = q
         /\ SetStep(h, o).op = "set" /\ RetainStep(o).op = "retain"
         /\ ReleaseStep(o).op = "release" /\ DeleteStep(o).op = "delete"
         /\ SetStep(h, o).object = o /\ RetainStep(o).object = o
         /\ ReleaseStep(o).object = o /\ DeleteStep(o).object = o
         /\ SetStep(h, o).handle = h
  BY DEF SetStep, RetainStep, ReleaseStep, DeleteStep, Step

\* Nothing stands before the assignment of a handle that holds nothing.
LEMMA NothingToGiveUp ==
  ASSUME NEW h
  PROVE  Deleting(<<>>, h) /\ GivingUp(<<>>, h)
  BY HasNothing DEF Deleting, GivingUp

LEMMA BeginsKeep ==
  ASSUME ConstantsAssumption, OwnershipInv, NEW h \in Handles, NEW g \in Handles
  PROVE  /\ CopyConstruct(h, g) => OwnershipInv'
         /\ CopyAssign(h, g) => OwnershipInv'
         /\ MoveAssign(h, g) => OwnershipInv'
         /\ Destroy(h) => OwnershipInv'
         /\ \A o \in Storages : CopyOut(h, g, o) => OwnershipInv'
  <1> DEFINE t == owner[h]
             p == points[h]
             q == points[g]
  <1>0. /\ t \in Threads /\ owner[g] \in Threads
        /\ p \in Objects \cup {None} /\ q \in Objects \cup {None} /\ None \notin Objects
        /\ todo \in [Threads -> Seq(Steps)] /\ writing \in [Threads -> Handles \cup {None}]
    BY DEF OwnershipInv, TypeInv, ConstantsAssumption
  <1>1. ASSUME NEW steps \in Seq(Steps), Begin(h, steps)
        PROVE  todo'[t] = steps /\ writing'[t] = h
    BY <1>0, <1>1 DEF Begin
  <1>2. ASSUME h # g, owner[g] = t, NEW o \in Objects, Kind(h, o), p = None,
               q = o \/ (q = Block /\ o \in Observed),
               Begin(h, Set(h, o) \o Retain(o)), UNCHANGED <<owner, points, refs, life>>
        PROVE  OwnershipInv'
    <2> DEFINE steps == <<SetStep(h, o), RetainStep(o)>>
    <2>0. /\ Set(h, o) = <<SetStep(h, o)>> /\ Retain(o) = <<RetainStep(o)>>
          /\ SetStep(h, o) \in Steps /\ RetainStep(o) \in Steps
      BY <1>0, <1>2, Lists
    <2>1. Set(h, o) \o Retain(o) = steps /\ steps \in Seq(Steps)
      BY <2>0, ConcatFacts, SeqFacts
    <2>2. \A x : Has(steps, x) <=> x \in {SetStep(h, o), RetainStep(o)} BY HasTwo
    <2>3. todo'[t] = steps /\ writing'[t] = h BY <1>1, <1>2, <2>1
    <2>4. Source(t, h, o)' BY <1>2 DEF Source
    <2>5. Form(t, h)' BY <1>2, <2>3, <2>4 DEF Form, Copying
    <2> HIDE DEF steps
    <2>6. \A r \in Objects : /\ ~Has(steps, DeleteStep(r)) /\ ~Has(steps, ReleaseStep(r))
                             /\ Has(steps, RetainStep(r)) \/ ~Has(steps, SetStep(h, r))
      BY <2>2, DifferentSteps
    <2>7. \A r \in Objects : p # r BY <1>0, <1>2
    <2> QED BY <1>0, <1>2, <2>1, <2>5, <2>6, <2>7, BeginKeeps
  <1>3. ASSUME CopyConstruct(h, g) PROVE OwnershipInv'
    <2>1. q \in Objects /\ Kind(h, q)
      BY <1>0, <1>3 DEF CopyConstruct, SameKind, Null, OwnershipInv, TypeInv, Kind, Handles, ConstantsAssumption
    <2> QED BY <1>2, <1>3, <2>1 DEF CopyConstruct, SameKind, Null
  <1>4. ASSUME NEW o \in Storages, CopyOut(h, g, o) PROVE OwnershipInv'
    <2>1. q = Block /\ Kind(h, o) /\ o \in Objects /\ h # g
      BY <1>0, <1>4 DEF CopyOut, Null, OwnershipInv, TypeInv, Kind, ConstantsAssumption, Objects
    <2> QED BY <1>2, <1>4, <2>1 DEF CopyOut, Null
  \* What an operation on h releases first.
  <1>5. /\ GivingUp(Release(p), h) /\ Release(p) \in Seq(Steps)
        /\ p = None => Release(p) = <<>>
        /\ p # None => Release(p) = <<ReleaseStep(p)>> /\ ReleaseStep(p) \in Steps
    <2>1. /\ Release(p) = (IF p = None THEN <<>> ELSE <<ReleaseStep(p)>>)
          /\ ReleaseStep(p) \in Steps
      BY <1>0, Lists
    <2>2. Release(p) \in Seq(Steps) BY <2>1, SeqFacts
    <2>3. GivingUp(Release(p), h)
      BY <2>1, NothingToGiveUp DEF GivingUp
    <2> QED BY <2>1, <2>2, <2>3
  <1>6. ASSUME NEW r \in Objects \cup {None}, Kind(h, r), NEW steps,
               \/ /\ r \in Objects /\ Source(t, h, r)
                  /\ steps = Retain(r) \o Release(p) \o Set(h, r)
               \/ r = None /\ steps = Release(p) \o Set(h, None),
               Begin(h, steps), UNCHANGED <<owner, points, refs, life>>
        PROVE  OwnershipInv'
    <2> DEFINE some == (IF r = None THEN {} ELSE {RetainStep(r)})
                         \cup (IF p = None THEN {} ELSE {ReleaseStep(p)}) \cup {SetStep(h, r)}
    <2>1. Set(h, r) = <<SetStep(h, r)>> /\ SetStep(h, r) \in Steps
      BY <1>6, Lists
    <2>2. /\ steps \in Seq(Steps) /\ \A x : Has(steps, x) <=> x \in some
          /\ (r # None /\ p # None) => steps = <<RetainStep(r), ReleaseStep(p), SetStep(h, r)>>
          /\ (r # None /\ p = None) => steps = <<RetainStep(r), SetStep(h, r)>>
          /\ r = None => steps = Release(p) \o <<SetStep(h, r)>>
      <3>0. r # None => Retain(r) = <<RetainStep(r)>> /\ RetainStep(r) \in Steps
        BY <1>6, Lists
      <3>5. r = None => steps = Release(p) \o <<SetStep(h, r)>>
        <4> SUFFICES ASSUME r = None PROVE steps = Release(p) \o Set(h, r) BY <2>1
        <4>1. r \notin Objects BY <1>0
        <4> QED BY <1>6, <4>1
      <3>1. CASE r # None /\ p # None
        <4>1. steps = (<<RetainStep(r)>> \o <<ReleaseStep(p)>>) \o <<SetStep(h, r)>>
          BY <1>5, <1>6, <2>1, <3>0, <3>1
        <4>2. steps = <<RetainStep(r), ReleaseStep(p), SetStep(h, r)>>
          BY <4>1, ConcatFacts
        <4>3. \A x : Has(steps, x) <=> x \in {RetainStep(r), ReleaseStep(p), SetStep(h, r)}
          BY <4>2, HasTwo, HasThree
        <4>4. steps \in Seq(Steps) BY <1>5, <2>1, <3>0, <3>1, <4>2, SeqFacts
        <4> QED BY <3>1, <4>2, <4>3, <4>4
      <3>2. CASE r # None /\ p = None
        <4>1. steps = (<<RetainStep(r)>> \o <<>>) \o <<SetStep(h, r)>>
          BY <1>5, <1>6, <2>1, <3>0, <3>2
        <4>2. steps = <<RetainStep(r), SetStep(h, r)>>
          BY <4>1, ConcatFacts
        <4>3. \A x : Has(steps, x) <=> x \in {RetainStep(r), SetStep(h, r)}
          BY <4>2, HasTwo, HasThree
        <4>4. steps \in Seq(Steps) BY <2>1, <3>0, <3>2, <4>2, SeqFacts
        <4> QED BY <3>2, <4>2, <4>3, <4>4
      <3>3. CASE r = None /\ p # None
        <4>1. steps = <<ReleaseStep(p)>> \o <<SetStep(h, r)>> BY <1>5, <3>3, <3>5
        <4>2. steps = <<ReleaseStep(p), SetStep(h, r)>> BY <4>1, ConcatFacts
        <4>3. \A x : Has(steps, x) <=> x \in {ReleaseStep(p), SetStep(h, r)}
          BY <4>2, HasTwo, HasThree
        <4>4. steps \in Seq(Steps) BY <1>5, <2>1, <3>3, <4>2, SeqFacts
        <4> QED BY <1>5, <3>3, <4>1, <4>3, <4>4
      <3>4. CASE r = None /\ p = None
        <4>1. steps = <<>> \o <<SetStep(h, r)>> BY <1>5, <3>4, <3>5
        <4>2. steps = <<SetStep(h, r)>> BY <4>1, ConcatFacts
        <4>3. \A x : Has(steps, x) <=> x = SetStep(h, r) BY <4>2, HasOne
        <4>4. steps \in Seq(Steps) BY <2>1, <4>2, SeqFacts
        <4> QED BY <1>5, <3>4, <4>1, <4>3, <4>4
      <3> QED BY <3>1, <3>2, <3>3, <3>4
    <2>3. todo'[t] = steps /\ writing'[t] = h BY <1>1, <1>6, <2>2
    <2>4. Form(t, h)'
      <3>1. CASE r # None
        <4>1. Source(t, h, r)' BY <1>6, <3>1, <1>0 DEF Source
        <4> QED BY <1>6, <2>2, <2>3, <3>1, <4>1 DEF Form, Copying
      <3>2. CASE r = None
        <4>1. GivingUp(Release(p), h)' BY <1>5, <1>6 DEF GivingUp, Deleting
        <4>2. <<SetStep(h, r)>> \in Seq(Steps) BY <2>1, SeqFacts
        <4>3. Assignment(t, h, <<SetStep(h, r)>>)' BY DEF Assignment
        <4>4. Assigning(t, h)' BY <1>5, <1>6, <2>2, <2>3, <3>2, <4>1, <4>2, <4>3 DEF Assigning
        <4> QED BY <1>6, <4>4 DEF Form
      <3> QED BY <3>1, <3>2
    <2>5. ASSUME NEW o \in Objects
          PROVE  /\ ~Has(steps, DeleteStep(o))
                 /\ Has(steps, ReleaseStep(o)) <=> p = o
                 /\ Has(steps, RetainStep(o)) \/ ~Has(steps, SetStep(h, o))
      <3>1. o # None BY <1>0
      <3>2. DeleteStep(o) \notin some BY DifferentSteps
      <3>3. ReleaseStep(o) \in some <=> p = o BY <3>1, DifferentSteps
      <3>4. SetStep(h, o) \in some => RetainStep(o) \in some BY <3>1, DifferentSteps
      <3> QED BY <2>2, <3>2, <3>3, <3>4
    <2> HIDE DEF some
    <2> QED BY <1>0, <1>6, <2>2, <2>4, <2>5, BeginKeeps
  <1>7. ASSUME CopyAssign(h, g) PROVE OwnershipInv'
    <2>1. Kind(h, q) /\ Source(t, h, q) /\ owner[g] = t /\ h # g
      BY <1>0, <1>7 DEF CopyAssign, SameKind, OwnershipInv, TypeInv, Kind, Handles, ConstantsAssumption, Source
    <2>2. q = None => Retain(q) \o Release(p) \o Set(h, q) = Release(p) \o Set(h, None)
      <3> SUFFICES ASSUME q = None PROVE Retain(q) \o Release(p) = Release(p) OBVIOUS
      <3>1. Retain(q) = <<>> BY <1>0, Lists
      <3> QED BY <1>5, <3>1, ConcatFacts
    <2> QED BY <1>0, <1>6, <1>7, <2>1, <2>2 DEF CopyAssign
  <1>8. ASSUME Destroy(h) PROVE OwnershipInv'
    <2>1. Kind(h, None) BY DEF Kind
    <2> QED BY <1>6, <1>8, <2>1 DEF Destroy
  <1>9. ASSUME MoveAssign(h, g) PROVE OwnershipInv'
    <2>0. PICK steps : steps = Release(p) \o <<SetStep(h, q), SetStep(g, None)>> OBVIOUS
    <2>1. Kind(h, q) /\ Kind(g, None) /\ owner[g] = t /\ h # g
      BY <1>0, <1>9 DEF MoveAssign, SameKind, OwnershipInv, TypeInv, Kind, Handles, ConstantsAssumption
    <2>2. /\ Set(h, q) = <<SetStep(h, q)>> /\ SetStep(h, q) \in Steps
          /\ Set(g, None) = <<SetStep(g, None)>> /\ SetStep(g, None) \in Steps
      BY <1>0, <2>1, Lists
    <2>3. <<SetStep(h, q), SetStep(g, None)>> \in Seq(Steps) BY <2>2, SeqFacts
    <2>4. /\ Release(p) \o Set(h, q) \o Set(g, None) = steps
          /\ \A x : Has(steps, x) <=> Has(Release(p), x) \/ x \in {SetStep(h, q), SetStep(g, None)}
          /\ steps \in Seq(Steps)
      <3>1. CASE p = None
        <4>1. Release(p) \o Set(h, q) \o Set(g, None) = (<<>> \o <<SetStep(h, q)>>) \o <<SetStep(g, None)>>
          BY <1>5, <2>2, <3>1
        <4>2. steps = <<SetStep(h, q), SetStep(g, None)>> BY <1>5, <2>0, <3>1, ConcatFacts
        <4>3. (<<>> \o <<SetStep(h, q)>>) \o <<SetStep(g, None)>> = steps BY <4>2, ConcatFacts
        <4>4. \A x : Has(steps, x) <=> x \in {SetStep(h, q), SetStep(g, None)} BY <4>2, HasTwo
        <4>5. \A x : ~Has(Release(p), x) BY <1>5, <3>1, HasNothing
        <4> QED BY <2>3, <4>1, <4>2, <4>3, <4>4, <4>5
      <3>2. CASE p # None
        <4>1. Release(p) \o Set(h, q) \o Set(g, None)
                = (<<ReleaseStep(p)>> \o <<SetStep(h, q)>>) \o <<SetStep(g, None)>>
          BY <1>5, <2>2, <3>2
        <4>2. steps = <<ReleaseStep(p), SetStep(h, q), SetStep(g, None)>>
          BY <1>5, <2>0, <3>2, ConcatFacts
        <4>3. \A x : Has(Release(p), x) <=> x = ReleaseStep(p) BY <1>5, <3>2, HasOne
        <4>4. \A x : Has(steps, x) <=> x \in {ReleaseStep(p), SetStep(h, q), SetStep(g, None)}
          BY <4>2, HasThree
        <4>5. steps \in Seq(Steps) BY <1>5, <2>2, <3>2, <4>2, SeqFacts
        <4>6. (<<ReleaseStep(p)>> \o <<SetStep(h, q)>>) \o <<SetStep(g, None)>> = steps
          BY <4>2, ConcatFacts
        <4> QED BY <4>1, <4>3, <4>4, <4>5, <4>6
      <3> QED BY <3>1, <3>2
    <2>5. todo'[t] = steps /\ writing'[t] = h BY <1>1, <1>9, <2>4 DEF MoveAssign
    <2>6. PICK d \in Seq(Steps), r \in Seq(Steps) :
            d = Release(p) /\ r = <<SetStep(h, q), SetStep(g, None)>> /\ steps = d \o r
      BY <1>5, <2>0, <2>3
    <2>7. Assignment(t, h, r)' BY <1>9, <2>1, <2>6 DEF Assignment, MoveAssign
    <2>14. GivingUp(d, h)' BY <1>5, <1>9, <2>6 DEF GivingUp, Deleting, MoveAssign
    <2>15. todo'[owner'[h]] = steps BY <1>9, <2>5 DEF MoveAssign
    <2>13. Assigning(t, h)' BY <2>6, <2>7, <2>14, <2>15 DEF Assigning
    <2>8. Form(t, h)' BY <1>9, <2>13 DEF Form, MoveAssign
    <2>9. \A x : Has(Release(p), x) <=> p # None /\ x = ReleaseStep(p)
      BY <1>5, HasNothing, HasOne
    <2>10. ASSUME NEW o \in Objects
           PROVE  /\ ~Has(steps, DeleteStep(o))
                  /\ Has(steps, ReleaseStep(o)) <=> p = o
                  /\ Has(steps, SetStep(g, None))
      <3>1. o # None BY <1>0
      <3>4. /\ DeleteStep(o) \notin {SetStep(h, q), SetStep(g, None)} /\ DeleteStep(o) # ReleaseStep(p)
            /\ ReleaseStep(o) \notin {SetStep(h, q), SetStep(g, None)}
            /\ ReleaseStep(o) = ReleaseStep(p) <=> o = p
        BY DifferentSteps
      <3>2. ~Has(steps, DeleteStep(o)) BY <2>4, <2>9, <3>4
      <3>3. Has(steps, ReleaseStep(o)) <=> p = o BY <2>4, <2>9, <3>1, <3>4
      <3> QED BY <2>4, <3>2, <3>3
    <2>11. Begin(h, steps) /\ UNCHANGED <<owner, points, refs, life>>
      BY <1>9, <2>4 DEF MoveAssign
    <2>12. \A o \in Objects : Has(steps, RetainStep(o)) \/ ~Has(steps, SetStep(h, o))
                                \/ \E f \in Handles \ {h} : Has(steps, SetStep(f, None))
      BY <2>1, <2>10
    <2>16. steps \in Seq(Steps) /\ t \in Threads BY <1>0, <2>4
    <2>17. \A o \in Objects : /\ ~Has(steps, DeleteStep(o))
                              /\ Has(steps, ReleaseStep(o)) <=> p = o
      BY <2>10
    <2> QED BY <2>8, <2>11, <2>12, <2>16, <2>17, BeginKeeps
  <1> QED BY <1>3, <1>4, <1>7, <1>8, <1>9

\* A fresh storage is referred to by the handle that is to have it.
LEMMA AllocateKeeps ==
  ASSUME ConstantsAssumption, OwnershipInv, NEW h \in Handles, NEW r \in Storages, Allocate(h, r)
  PROVE  OwnershipInv'
  <1>a. PICK t \in Threads : t = owner[h] BY DEF OwnershipInv, TypeInv
  <1>b. PICK p \in Objects \cup {None} : p = points[h] BY DEF OwnershipInv, TypeInv
  <1>0. /\ t = owner[h] /\ p = points[h] /\ t \in Threads /\ p \in Objects \cup {None} /\ None \notin Objects
        /\ r \in Objects /\ r # Block /\ Kind(h, r) /\ Kind(h, p)
        /\ refs \in [Objects -> Nat] /\ life \in [Objects -> {"unused", "live", "deleted"}]
    BY <1>a, <1>b DEF OwnershipInv, TypeInv, ConstantsAssumption, Objects, Kind, Allocate
  <1>1. /\ life[r] = "unused" /\ todo[t] = <<>> /\ owner' = owner /\ points' = points
        /\ refs' = [refs EXCEPT ![r] = 1] /\ life' = [life EXCEPT ![r] = "live"]
        /\ todo' = [todo EXCEPT ![t] = Release(p) \o Set(h, r)]
        /\ writing' = [writing EXCEPT ![t] = h]
    BY <1>a, <1>b DEF Allocate, Begin
  <1>2. refs[r] = 0 /\ \A u \in Threads : ~Has(todo[u], DeleteStep(r))
    BY <1>0, <1>1, SMTT(30) DEF OwnershipInv, LifeInv
  <1>3. PICK steps : steps = Release(p) \o <<SetStep(h, r)>> OBVIOUS
  <1>4. /\ Set(h, r) = <<SetStep(h, r)>> /\ SetStep(h, r) \in Steps
        /\ Release(p) = (IF p = None THEN <<>> ELSE <<ReleaseStep(p)>>) /\ ReleaseStep(p) \in Steps
    BY <1>0, Lists
  <1>5. /\ steps \in Seq(Steps) /\ steps # <<>>
        /\ \A x : Has(steps, x) <=> x = SetStep(h, r) \/ (p # None /\ x = ReleaseStep(p))
    <2>1. CASE p = None
      <3>1. steps = <<SetStep(h, r)>> BY <1>3, <1>4, <2>1, ConcatFacts
      <3> QED BY <1>4, <2>1, <3>1, SeqFacts, HasOne
    <2>2. CASE p # None
      <3>1. steps = <<ReleaseStep(p), SetStep(h, r)>> BY <1>3, <1>4, <2>2, ConcatFacts
      <3> QED BY <1>4, <2>2, <3>1, SeqFacts, HasTwo
    <2> QED BY <2>1, <2>2
  <1>6. todo' = [todo EXCEPT ![t] = steps] BY <1>1, <1>3, <1>4
  <1>7. TypeInv' /\ todo'[t] = steps /\ writing'[t] = h /\ Local(t)
    <2>1. todo'[t] = steps /\ writing'[t] = h
      BY <1>0, <1>1, <1>6 DEF OwnershipInv, TypeInv
    <2>2. TypeInv'
      <3>0. todo \in [Threads -> Seq(Steps)] /\ writing \in [Threads -> Handles \cup {None}]
        BY DEF OwnershipInv, TypeInv
      <3>1. todo' \in [Threads -> Seq(Steps)] /\ writing' \in [Threads -> Handles \cup {None}]
        BY <3>0, <1>0, <1>1, <1>5, <1>6, ZenonT(40)
      <3>2. refs' \in [Objects -> Nat] /\ life' \in [Objects -> {"unused", "live", "deleted"}]
        BY <1>0, <1>1
      <3> QED BY <1>1, <3>1, <3>2 DEF OwnershipInv, TypeInv
    <2>3. Local(t) BY <1>1, <1>6 DEF OwnershipInv, TypeInv, Local
    <2> QED BY <2>1, <2>2, <2>3
  <1>8. Form(t, h)'
    <2>1. GivingUp(Release(p), h)'
      BY <1>0, <1>1, <1>4, NothingToGiveUp DEF GivingUp, Deleting
    <2>2. Release(p) \in Seq(Steps) BY <1>4, SeqFacts
    <2>4. <<SetStep(h, r)>> \in Seq(Steps) BY <1>4, SeqFacts
    <2>5. Assignment(t, h, <<SetStep(h, r)>>)' BY <1>0 DEF Assignment
    <2>3. Assigning(t, h)' BY <1>3, <1>7, <2>1, <2>2, <2>4, <2>5 DEF Assigning
    <2> QED BY <1>0, <1>1, <2>3 DEF Form
  <1>9. FormInv'
    <2>1. (Idle(t) \/ Form(t, writing[t]))' BY <1>7, <1>8
    <2>2. life[Block] = "deleted" => life'[Block] = "deleted" BY <1>0, <1>1
    <2> QED BY <1>0, <1>7, <2>1, <2>2, FormKept DEF OwnershipInv
  <1>10. \A u \in Threads, o \in Objects : RecordPending(u, o)' <=> RecordPending(u, o)
    <2>1. \A o \in Objects : ~RecordPending(t, o) BY <1>1, HasNothing DEF RecordPending
    <2>2. ASSUME NEW o \in Objects PROVE ~RecordPending(t, o)'
      <3>1. Has(steps, ReleaseStep(o)) => o = p BY <1>5, DifferentSteps
      <3> QED BY <1>0, <1>1, <1>7, <3>1 DEF RecordPending
    <2> QED BY <1>0, <1>7, <2>1, <2>2, OthersKeepRecords DEF OwnershipInv
  <1>11. RecordInv' BY <1>0, <1>1, <1>10 DEF OwnershipInv, RecordInv
  <1>12. \A o \in Objects : Recorded(o)' <=> Recorded(o)
    BY <1>0, <1>1, <1>10 DEF Recorded
  <1>13. \A u \in Threads, o \in Objects : Has(todo'[u], DeleteStep(o)) <=> Has(todo[u], DeleteStep(o))
    <2>1. \A o \in Objects : ~Has(todo[t], DeleteStep(o)) BY <1>1, HasNothing
    <2>2. ASSUME NEW o \in Objects PROVE ~Has(todo'[t], DeleteStep(o))
      <3>1. SetStep(h, r) # DeleteStep(o) /\ ReleaseStep(p) # DeleteStep(o) BY DifferentSteps
      <3> QED BY <1>5, <1>7, <3>1
    <2> QED BY <1>7, <2>1, <2>2 DEF Local
  <1>14. LifeInv' BY <1>0, <1>1, <1>2, <1>13 DEF OwnershipInv, LifeInv
  <1>15. RefInv'
    <2> SUFFICES ASSUME NEW o \in Objects
                 PROVE  refs'[o] = Cardinality(HoldersOf(o)') + Cardinality(AwaitersOf(o)')
                                     + (IF Recorded(o)' THEN 1 ELSE 0)
      BY DEF RefInv
    <2>1. ~Busy(h) BY <1>0, <1>1 DEF Busy, Idle
    <2>2. ~Awaits(h, o) /\ (Holds(h, o) <=> p = o) BY <1>0, <2>1 DEF Awaits, Holds
    <2>3. Busy(h)' BY <1>0, <1>1, <1>5, <1>7 DEF Busy, Idle
    <2>10. /\ p = o => Has(steps, ReleaseStep(o))
           /\ Has(steps, SetStep(h, o)) <=> o = r
           /\ ~Has(steps, RetainStep(o))
           /\ \A g \in Handles \ {h} : ~Has(steps, SetStep(g, None))
      <3>1. p = o => Has(steps, ReleaseStep(o)) BY <1>0, <1>5
      <3>2. Has(steps, SetStep(h, o)) <=> o = r BY <1>5, DifferentSteps
      <3>3. ~Has(steps, RetainStep(o)) BY <1>5, DifferentSteps, SMTT(30)
      <3>4. ASSUME NEW g \in Handles \ {h} PROVE ~Has(steps, SetStep(g, None))
        BY <1>5, DifferentSteps
      <3> QED BY <3>1, <3>2, <3>3, <3>4
    <2>11. owner'[h] = t /\ todo'[t] = steps BY <1>0, <1>1, <1>7
    <2>4. Holds(h, o)' <=> p = o BY <1>0, <1>1, <2>10, <2>11 DEF Holds
    <2>5. Awaits(h, o)' <=> o = r BY <2>3, <2>10, <2>11 DEF Awaits
    <2>6. \A g \in Handles \ {h} : points'[g] = points[g] /\ (owner[g] # t \/ (~Busy(g) /\ ~Busy(g)'))
      <3> TAKE g \in Handles \ {h}
      <3>1. owner[g] = t => ~Busy(g) BY <1>1 DEF Busy, Idle
      <3>2. owner[g] = t => ~Busy(g)' BY <1>1, <1>7 DEF Busy
      <3> QED BY <1>1, <3>1, <3>2
    <2>7. /\ Cardinality(HoldersOf(o)) \in Nat /\ Cardinality(AwaitersOf(o)) \in Nat
          /\ Cardinality(HoldersOf(o)') = Cardinality(HoldersOf(o))
               + (IF Holds(h, o)' THEN 1 ELSE 0) - (IF Holds(h, o) THEN 1 ELSE 0)
          /\ Cardinality(AwaitersOf(o)') = Cardinality(AwaitersOf(o))
               + (IF Awaits(h, o)' THEN 1 ELSE 0) - (IF Awaits(h, o) THEN 1 ELSE 0)
      BY <1>0, <1>7, <2>6, OneHandleMoves DEF OwnershipInv
    <2>8. refs[o] = Cardinality(HoldersOf(o)) + Cardinality(AwaitersOf(o))
                      + (IF Recorded(o) THEN 1 ELSE 0)
      BY DEF OwnershipInv, RefInv
    <2>9. refs'[o] = refs[o] + (IF o = r THEN 1 ELSE 0) BY <1>0, <1>1, <1>2
    <2> QED BY <1>12, <2>2, <2>4, <2>5, <2>7, <2>8, <2>9
  <1> QED BY <1>7, <1>9, <1>11, <1>14, <1>15 DEF OwnershipInv

\* A handle that is given away takes its reference along.
LEMMA TransferKeeps ==
  ASSUME ConstantsAssumption, OwnershipInv, NEW h \in Handles, NEW v \in Threads, Transfer(h, v)
  PROVE  OwnershipInv'
  <1>a. PICK t \in Threads : t = owner[h] BY DEF OwnershipInv, TypeInv
  <1>1. /\ todo[t] = <<>> /\ owner' = [owner EXCEPT ![h] = v] /\ t # v
        /\ UNCHANGED <<points, refs, life, todo, writing>>
    BY <1>a DEF Transfer
  <1>2. TypeInv' BY <1>1 DEF OwnershipInv, TypeInv
  <1>3. FormInv'
    <2>1. ASSUME NEW u \in Threads PROVE (Idle(u) \/ Form(u, writing[u]))'
      <3>1. CASE u = t BY <1>1, <3>1 DEF Idle
      <3>2. CASE u # t
        <4>1. \A g \in Handles : owner[g] = u => owner'[g] = u
          BY <1>a, <1>1, <3>2 DEF OwnershipInv, TypeInv
        <4> QED BY <1>1, <4>1, OthersKeepForm DEF OwnershipInv
      <3> QED BY <3>1, <3>2
    <2> QED BY <2>1 DEF FormInv
  <1>4. \A u \in Threads, o \in Objects : RecordPending(u, o)' <=> RecordPending(u, o)
    BY <1>1 DEF RecordPending
  <1>5. RecordInv' BY <1>1, <1>4 DEF OwnershipInv, RecordInv
  <1>6. \A o \in Objects : Recorded(o)' <=> Recorded(o) BY <1>1, <1>4 DEF Recorded
  <1>7. LifeInv' BY <1>1 DEF OwnershipInv, LifeInv
  <1>8. \A g \in Handles : Busy(g)' <=> Busy(g)
    <2> TAKE g \in Handles
    <2>1. CASE g = h
      <3>1. ~Busy(h) BY <1>a, <1>1 DEF Busy, Idle
      <3>2. ~Idle(v) => writing[v] # h BY <1>a, <1>1 DEF OwnershipInv, FormInv, Form
      <3>3. owner'[h] = v BY <1>1 DEF OwnershipInv, TypeInv
      <3>4. ~Busy(h)' BY <1>1, <3>2, <3>3 DEF Busy, Idle
      <3> QED BY <2>1, <3>1, <3>4
    <2>2. CASE g # h
      <3>1. owner'[g] = owner[g] BY <1>1, <2>2 DEF OwnershipInv, TypeInv
      <3> QED BY <1>1, <3>1 DEF Busy, Idle
    <2> QED BY <2>1, <2>2
  <1>9. \A g \in Handles : Busy(g) => owner'[g] = owner[g]
    BY <1>a, <1>1 DEF Busy, Idle, OwnershipInv, TypeInv
  <1>10. \A g \in Handles, o \in Objects : (Holds(g, o)' <=> Holds(g, o)) /\ (Awaits(g, o)' <=> Awaits(g, o))
    BY <1>1, <1>8, <1>9 DEF Holds, Awaits
  <1>11. \A o \in Objects : HoldersOf(o)' = HoldersOf(o) /\ AwaitersOf(o)' = AwaitersOf(o)
    BY <1>10 DEF HoldersOf, AwaitersOf
  <1>12. RefInv'
    <2>1. \A o \in Objects : refs'[o] = Cardinality(HoldersOf(o)') + Cardinality(AwaitersOf(o)')
                               + (IF Recorded(o)' THEN 1 ELSE 0)
      BY <1>1, <1>6, <1>11 DEF OwnershipInv, RefInv
    <2> QED BY <2>1 DEF RefInv
  <1> QED BY <1>2, <1>3, <1>5, <1>7, <1>12 DEF OwnershipInv

------------------------------------------------------------------------------
(* The operations go on. *)

\* A thread inside an operation is about to assign, to retain, or to do what
\* stands before an assignment.
LEMMA Ahead ==
  ASSUME OwnershipInv, NEW t \in Threads, ~Idle(t), NEW h, h = writing[t]
  PROVE  /\ h \in Handles /\ owner[h] = t
         /\ \/ \E o \in Objects : Copying(t, h, o)
            \/ Assignment(t, h, todo[t])
            \/ Moved(t, h)
            \/ \E d, r \in Seq(Steps) :
                 d # <<>> /\ GivingUp(d, h) /\ Assignment(t, h, r) /\ todo[t] = d \o r
  <1>1. Form(t, h) BY DEF OwnershipInv, FormInv
  <1>2. ASSUME NEW d \in Seq(Steps), NEW r \in Seq(Steps), d = <<>> PROVE d \o r = r
    BY <1>2
  <1>3. Assigning(t, h) =>
          \/ Assignment(t, h, todo[t])
          \/ \E d, r \in Seq(Steps) :
               d # <<>> /\ GivingUp(d, h) /\ Assignment(t, h, r) /\ todo[t] = d \o r
    BY <1>2 DEF Assigning
  <1> QED BY <1>1, <1>3 DEF Form

\* A step of an operation that neither releases nor deletes has no part in
\* what the thread may still delete.
LEMMA QuietSteps ==
  ASSUME ConstantsAssumption, OwnershipInv, TypeInv', NEW t \in Threads, Local(t),
         refs' = refs, life' = life, (Idle(t) \/ Form(t, writing[t]))',
         NEW A, NEW B, todo[t] = A, todo'[t] = B,
         \A o \in Objects : /\ ~Has(A, ReleaseStep(o)) /\ ~Has(A, DeleteStep(o))
                            /\ ~Has(B, ReleaseStep(o)) /\ ~Has(B, DeleteStep(o)),
         \A o \in Objects : /\ Cardinality(HoldersOf(o)') + Cardinality(AwaitersOf(o)')
                                 = Cardinality(HoldersOf(o)) + Cardinality(AwaitersOf(o))
  PROVE  OwnershipInv'
  <1>1. \A o \in Objects : /\ Has(todo[t], DeleteStep(o)) <=> Has(todo'[t], DeleteStep(o))
                           /\ RecordPending(t, o)' <=> RecordPending(t, o)
    BY DEF RecordPending
  <1> QED BY <1>1, QuietKeeps

\* The handle that is assigned has its reference before or after.
LEMMA SetsKeep ==
  ASSUME ConstantsAssumption, OwnershipInv, NEW t \in Threads, ~Idle(t), DoSet(t)
  PROVE  OwnershipInv'
  <1>0. PICK h : h = writing[t] OBVIOUS
  <1>1. /\ h \in Handles /\ owner[h] = t
        /\ \/ \E o \in Objects : Copying(t, h, o)
           \/ Assignment(t, h, todo[t])
           \/ Moved(t, h)
           \/ \E d, r \in Seq(Steps) :
                d # <<>> /\ GivingUp(d, h) /\ Assignment(t, h, r) /\ todo[t] = d \o r
    BY <1>0, Ahead
  <1>2. /\ Head(todo[t]).op = "set"
        /\ todo' = [todo EXCEPT ![t] = <<>> \o Tail(todo[t])]
        /\ points' = [points EXCEPT ![Head(todo[t]).handle] = Head(todo[t]).object]
        /\ UNCHANGED <<owner, refs, life, writing>>
    BY DEF DoSet, Then, Rest
  <1>3. /\ todo \in [Threads -> Seq(Steps)] /\ owner \in [Handles -> Threads]
        /\ points \in [Handles -> Objects \cup {None}] /\ \A g \in Handles : Kind(g, points[g])
        /\ writing \in [Threads -> Handles \cup {None}] /\ None \notin Objects
    BY DEF OwnershipInv, TypeInv, ConstantsAssumption
  <1>4. ASSUME NEW k \in Handles, owner[k] = t, NEW o \in Objects \cup {None},
               NEW B \in Seq(Steps), Kind(k, o),
               Head(todo[t]) = SetStep(k, o), <<>> \o Tail(todo[t]) = B
        PROVE  /\ points' = [points EXCEPT ![k] = o] /\ todo'[t] = B
               /\ TypeInv' /\ Local(t)
    <2>1. SetStep(k, o).handle = k /\ SetStep(k, o).object = o BY DifferentSteps
    <2>2. points' = [points EXCEPT ![k] = o] /\ todo' = [todo EXCEPT ![t] = B] BY <1>2, <1>4, <2>1
    <2>3. TypeInv'
      <3>1. todo' \in [Threads -> Seq(Steps)] BY <1>3, <1>4, <2>2
      <3>2. points' \in [Handles -> Objects \cup {None}] /\ \A g \in Handles : Kind(g, points'[g])
        BY <1>3, <1>4, <2>2
      <3> QED BY <1>2, <3>1, <3>2 DEF OwnershipInv, TypeInv
    <2> QED BY <1>2, <1>3, <1>4, <2>2, <2>3, ZenonT(40) DEF Local
  <1>5. ASSUME NEW o, points' = [points EXCEPT ![h] = o], NEW r \in Objects, TypeInv', Local(t)
        PROVE  /\ Cardinality(HoldersOf(r)) \in Nat /\ Cardinality(AwaitersOf(r)) \in Nat
               /\ Cardinality(HoldersOf(r)') = Cardinality(HoldersOf(r))
                    + (IF Holds(h, r)' THEN 1 ELSE 0) - (IF Holds(h, r) THEN 1 ELSE 0)
               /\ Cardinality(AwaitersOf(r)') = Cardinality(AwaitersOf(r))
                    + (IF Awaits(h, r)' THEN 1 ELSE 0) - (IF Awaits(h, r) THEN 1 ELSE 0)
    <2>1. \A g \in Handles \ {h} : points'[g] = points[g] /\ (owner[g] # t \/ (~Busy(g) /\ ~Busy(g)'))
      BY <1>0, <1>1, <1>2, <1>3, <1>5 DEF Busy
    <2> QED BY <1>1, <1>5, <2>1, OneHandleMoves DEF OwnershipInv
  <1>6. Busy(h) /\ (todo'[t] = <<>> => ~Busy(h)') /\ (todo'[t] # <<>> => Busy(h)')
    BY <1>0, <1>1, <1>2 DEF Busy, Idle
  <1>b. \A g \in Handles, x \in Objects : ~Busy(g)' => (Holds(g, x)' <=> points'[g] = x) /\ ~Awaits(g, x)'
    BY DEF Holds, Awaits
  \* A copy that points to its object before it retains it.
  <1>7. ASSUME NEW o \in Objects, Copying(t, h, o) PROVE OwnershipInv'
    <2>1. todo[t] = <<SetStep(h, o), RetainStep(o)>> /\ points[h] = None /\ Source(t, h, o)
      BY <1>2, <1>7, TailFacts, DifferentSteps DEF Copying
    <2>11. <<SetStep(h, o), RetainStep(o)>> \in Seq(Steps) BY <1>3, <2>1
    <2>2. SetStep(h, o) \in Steps /\ RetainStep(o) \in Steps
      BY Zenon, <2>11, ElementFacts
    <2>3. Kind(h, o) BY <2>2, DifferentSteps DEF Steps
    <2>4. Head(todo[t]) = SetStep(h, o) /\ <<>> \o Tail(todo[t]) = <<RetainStep(o)>>
      BY <2>1, TailFacts, ConcatFacts
    <2>5. <<RetainStep(o)>> \in Seq(Steps) BY <2>2, SeqFacts
    <2>6. /\ points' = [points EXCEPT ![h] = o] /\ todo'[t] = <<RetainStep(o)>>
          /\ TypeInv' /\ Local(t)
      BY <1>1, <1>4, <2>3, <2>4, <2>5
    <2>7. (Idle(t) \/ Form(t, writing[t]))'
      <3>1. Source(t, h, o)' BY <1>2, <2>1, <2>6 DEF Source
      <3>2. Copying(t, h, o)' BY <1>1, <1>3, <2>6, <3>1 DEF Copying
      <3> QED BY <1>0, <1>1, <1>2, <3>2 DEF Form
    <2>8. ASSUME NEW r \in Objects
          PROVE  ~Holds(h, r) /\ ~Awaits(h, r) /\ ~Holds(h, r)' /\ ~Awaits(h, r)'
      <3>1. ~Holds(h, r) BY <1>3, <2>1 DEF Holds
      <3>2. ~Has(<<RetainStep(o)>>, ReleaseStep(r)) /\ ~Has(<<RetainStep(o)>>, SetStep(h, r))
        BY HasOne, DifferentSteps
      <3>3. Busy(h)' BY <1>6, <2>6
      <3>4. ~Holds(h, r)' /\ ~Awaits(h, r)'
        BY <1>1, <1>2, <2>6, <3>2, <3>3 DEF Holds, Awaits
      <3>5. Has(<<SetStep(h, o), RetainStep(o)>>, RetainStep(o))
        BY HasTwo
      <3>6. Has(<<SetStep(h, o), RetainStep(o)>>, SetStep(h, r)) => r = o
        BY HasTwo, DifferentSteps
      <3>7. ~Awaits(h, r) BY <1>1, <2>1, <3>5, <3>6 DEF Awaits
      <3> QED BY <3>1, <3>4, <3>7
    <2>9. \A r \in Objects : Cardinality(HoldersOf(r)') + Cardinality(AwaitersOf(r)')
                               = Cardinality(HoldersOf(r)) + Cardinality(AwaitersOf(r))
      <3> TAKE r \in Objects
      <3>1. /\ Cardinality(HoldersOf(r)) \in Nat /\ Cardinality(AwaitersOf(r)) \in Nat
            /\ Cardinality(HoldersOf(r)') = Cardinality(HoldersOf(r))
                 + (IF Holds(h, r)' THEN 1 ELSE 0) - (IF Holds(h, r) THEN 1 ELSE 0)
            /\ Cardinality(AwaitersOf(r)') = Cardinality(AwaitersOf(r))
                 + (IF Awaits(h, r)' THEN 1 ELSE 0) - (IF Awaits(h, r) THEN 1 ELSE 0)
        BY <1>5, <2>6
      <3> QED BY <2>8, <3>1
    <2>10. \A r \in Objects :
             /\ ~Has(<<SetStep(h, o), RetainStep(o)>>, ReleaseStep(r))
             /\ ~Has(<<SetStep(h, o), RetainStep(o)>>, DeleteStep(r))
             /\ ~Has(<<RetainStep(o)>>, ReleaseStep(r)) /\ ~Has(<<RetainStep(o)>>, DeleteStep(r))
      <3> TAKE r \in Objects
      <3>1. ReleaseStep(r) \notin {SetStep(h, o), RetainStep(o)} BY DifferentSteps
      <3>2. DeleteStep(r) \notin {SetStep(h, o), RetainStep(o)} BY DifferentSteps
      <3> QED BY <3>1, <3>2, HasOne, HasTwo
    <2> QED BY <1>2, <2>1, <2>6, <2>7, <2>9, <2>10, QuietSteps
  \* The handle takes the reference that its copy has made.
  <1>8. ASSUME NEW o \in Objects \cup {None}, todo[t] = <<SetStep(h, o)>> PROVE OwnershipInv'
    <2>9. <<SetStep(h, o)>> \in Seq(Steps) BY <1>3, <1>8
    <2>1. SetStep(h, o) \in Steps BY Zenon, <2>9, ElementFacts
    <2>2. Kind(h, o) BY <2>1, DifferentSteps DEF Steps
    <2>3. Head(todo[t]) = SetStep(h, o) /\ <<>> \o Tail(todo[t]) = <<>>
      BY <1>8, TailFacts
    <2>4. points' = [points EXCEPT ![h] = o] /\ todo'[t] = <<>> /\ TypeInv' /\ Local(t)
      <3>1. <<>> \in Seq(Steps) OBVIOUS
      <3> QED BY <1>1, <1>4, <2>2, <2>3, <3>1
    <2>5. (Idle(t) \/ Form(t, writing[t]))' BY <2>4 DEF Idle
    <2>6. ASSUME NEW r \in Objects
          PROVE  ~Holds(h, r) /\ (Awaits(h, r) <=> r = o) /\ (Holds(h, r)' <=> r = o) /\ ~Awaits(h, r)'
      <3>1. Has(<<SetStep(h, o)>>, SetStep(h, r)) <=> r = o BY HasOne, DifferentSteps
      <3>2. SetStep(h, o) # ReleaseStep(r) /\ SetStep(h, o) # RetainStep(r) BY DifferentSteps
      <3>3. \A g \in Handles \ {h} : SetStep(g, None) # SetStep(h, o) BY DifferentSteps
      <3>4. ~Holds(h, r) BY <1>1, <1>6, <1>8, <3>2, HasOne DEF Holds
      <3>5. Awaits(h, r) <=> r = o BY <1>1, <1>6, <1>8, <3>1, <3>2, <3>3, HasOne DEF Awaits
      <3>6. ~Busy(h)' /\ points'[h] = o BY <1>1, <1>3, <1>6, <2>4
      <3> QED BY <1>1, <1>b, <3>4, <3>5, <3>6
    <2>7. \A r \in Objects : Cardinality(HoldersOf(r)') + Cardinality(AwaitersOf(r)')
                               = Cardinality(HoldersOf(r)) + Cardinality(AwaitersOf(r))
      <3> TAKE r \in Objects
      <3>1. /\ Cardinality(HoldersOf(r)) \in Nat /\ Cardinality(AwaitersOf(r)) \in Nat
            /\ Cardinality(HoldersOf(r)') = Cardinality(HoldersOf(r))
                 + (IF Holds(h, r)' THEN 1 ELSE 0) - (IF Holds(h, r) THEN 1 ELSE 0)
            /\ Cardinality(AwaitersOf(r)') = Cardinality(AwaitersOf(r))
                 + (IF Awaits(h, r)' THEN 1 ELSE 0) - (IF Awaits(h, r) THEN 1 ELSE 0)
        BY <1>5, <2>4
      <3> QED BY <2>6, <3>1
    <2>8. \A r \in Objects :
             /\ ~Has(<<SetStep(h, o)>>, ReleaseStep(r)) /\ ~Has(<<SetStep(h, o)>>, DeleteStep(r))
             /\ ~Has(<<>>, ReleaseStep(r)) /\ ~Has(<<>>, DeleteStep(r))
      <3> TAKE r \in Objects
      <3>1. SetStep(h, o) # ReleaseStep(r) /\ SetStep(h, o) # DeleteStep(r) BY DifferentSteps
      <3> QED BY <3>1, HasOne, HasNothing
    <2> QED BY <1>2, <1>8, <2>4, <2>5, <2>7, <2>8, QuietSteps
  \* A move: for a moment both handles point to the object.
  <1>9. ASSUME NEW g \in Handles \ {h}, owner[g] = t,
               todo[t] = <<SetStep(h, points[g]), SetStep(g, None)>>
        PROVE  OwnershipInv'
    <2>0. PICK q \in Objects \cup {None} : q = points[g] BY <1>3
    <2>1. todo[t] = <<SetStep(h, q), SetStep(g, None)>> BY <1>9, <2>0
    <2>2. <<SetStep(h, q), SetStep(g, None)>> \in Seq(Steps) BY <1>3, <2>1, ZenonT(40)
    <2>3. SetStep(h, q) \in Steps /\ SetStep(g, None) \in Steps BY Zenon, <2>2, ElementFacts
    <2>4. Kind(h, q) BY <2>3, DifferentSteps DEF Steps
    <2>5. Head(todo[t]) = SetStep(h, q) /\ <<>> \o Tail(todo[t]) = <<SetStep(g, None)>>
      BY <2>1, TailFacts, ConcatFacts
    <2>6. <<SetStep(g, None)>> \in Seq(Steps) BY <2>3, SeqFacts
    <2>7. /\ points' = [points EXCEPT ![h] = q] /\ todo'[t] = <<SetStep(g, None)>>
          /\ TypeInv' /\ Local(t)
      BY <1>1, <1>4, <2>4, <2>5, <2>6
    <2>8. (Idle(t) \/ Form(t, writing[t]))'
      <3>1. points'[h] = q /\ points'[g] = q BY <1>3, <1>9, <1>1, <2>0, <2>7
      <3>2. Moved(t, h)' BY <1>2, <1>9, <2>7, <3>1 DEF Moved
      <3> QED BY <1>0, <1>1, <1>2, <3>2 DEF Form
    <2>9. ASSUME NEW r \in Objects
          PROVE  ~Holds(h, r) /\ ~Awaits(h, r) /\ ~Holds(h, r)' /\ ~Awaits(h, r)'
      <3>1. ReleaseStep(r) # SetStep(h, q) /\ ReleaseStep(r) # SetStep(g, None) BY DifferentSteps
      <3>2. ~Has(todo[t], ReleaseStep(r)) /\ ~Has(todo'[t], ReleaseStep(r))
        BY <2>1, <2>7, <3>1, HasOne, HasTwo
      <3>3. Has(todo[t], SetStep(g, None)) /\ Has(todo'[t], SetStep(g, None))
        BY <2>1, <2>7, HasOne, HasTwo
      <3>4. Busy(h)' BY <1>6, <2>7
      <3>5. ~Holds(h, r) /\ ~Awaits(h, r) BY <1>1, <1>6, <1>9, <3>2, <3>3 DEF Holds, Awaits
      <3>6. ~Holds(h, r)' /\ ~Awaits(h, r)' BY <1>1, <1>2, <1>9, <3>2, <3>3, <3>4 DEF Holds, Awaits
      <3> QED BY <3>5, <3>6
    <2>10. \A r \in Objects : Cardinality(HoldersOf(r)') + Cardinality(AwaitersOf(r)')
                               = Cardinality(HoldersOf(r)) + Cardinality(AwaitersOf(r))
      <3> TAKE r \in Objects
      <3>1. /\ Cardinality(HoldersOf(r)) \in Nat /\ Cardinality(AwaitersOf(r)) \in Nat
            /\ Cardinality(HoldersOf(r)') = Cardinality(HoldersOf(r))
                 + (IF Holds(h, r)' THEN 1 ELSE 0) - (IF Holds(h, r) THEN 1 ELSE 0)
            /\ Cardinality(AwaitersOf(r)') = Cardinality(AwaitersOf(r))
                 + (IF Awaits(h, r)' THEN 1 ELSE 0) - (IF Awaits(h, r) THEN 1 ELSE 0)
        BY <1>5, <2>7
      <3> QED BY <2>9, <3>1
    <2>11. \A r \in Objects :
             /\ ~Has(<<SetStep(h, q), SetStep(g, None)>>, ReleaseStep(r))
             /\ ~Has(<<SetStep(h, q), SetStep(g, None)>>, DeleteStep(r))
             /\ ~Has(<<SetStep(g, None)>>, ReleaseStep(r)) /\ ~Has(<<SetStep(g, None)>>, DeleteStep(r))
      <3> TAKE r \in Objects
      <3>1. ReleaseStep(r) \notin {SetStep(h, q), SetStep(g, None)} BY DifferentSteps
      <3>2. DeleteStep(r) \notin {SetStep(h, q), SetStep(g, None)} BY DifferentSteps
      <3> QED BY <3>1, <3>2, HasOne, HasTwo
    <2> QED BY <1>2, <2>1, <2>7, <2>8, <2>10, <2>11, QuietSteps
  <1>10. ASSUME NEW g \in Handles \ {h}, owner[g] = t, todo[t] = <<SetStep(g, None)>>,
                points[h] = points[g]
         PROVE  OwnershipInv'
    <2>1. Kind(g, None) BY DEF Kind
    <2>2. Head(todo[t]) = SetStep(g, None) /\ <<>> \o Tail(todo[t]) = <<>>
      BY <1>10, TailFacts
    <2>3. points' = [points EXCEPT ![g] = None] /\ todo'[t] = <<>> /\ TypeInv' /\ Local(t)
      <3>1. <<>> \in Seq(Steps) OBVIOUS
      <3> QED BY <1>4, <1>10, <2>1, <2>2, <3>1
    <2>4. (Idle(t) \/ Form(t, writing[t]))' BY <2>3 DEF Idle
    <2>5. \A f \in Handles : owner[f] = t => ~Busy(f)' BY <1>2, <2>3 DEF Busy, Idle
    <2>6. \A f \in Handles \ {h} : owner[f] = t => ~Busy(f) BY <1>0 DEF Busy
    <2>7. ASSUME NEW r \in Objects
          PROVE  /\ ~Holds(h, r) /\ ~Awaits(h, r) /\ (Holds(h, r)' <=> points[g] = r) /\ ~Awaits(h, r)'
                 /\ (Holds(g, r) <=> points[g] = r) /\ ~Awaits(g, r) /\ ~Holds(g, r)' /\ ~Awaits(g, r)'
      <3>1. SetStep(g, None) # ReleaseStep(r) BY DifferentSteps
      <3>2. ~Has(todo[t], ReleaseStep(r)) /\ Has(todo[t], SetStep(g, None)) BY <1>10, <3>1, HasOne
      <3>3. ~Holds(h, r) /\ ~Awaits(h, r) BY <1>1, <1>6, <1>10, <3>2 DEF Holds, Awaits
      <3>4. (Holds(g, r) <=> points[g] = r) /\ ~Awaits(g, r) BY <1>10, <2>6 DEF Holds, Awaits
      <3>5. points'[h] = points[g] /\ points'[g] = None BY <1>1, <1>3, <1>10, <2>3
      <3>6. (Holds(h, r)' <=> points[g] = r) /\ ~Awaits(h, r)' BY <1>1, <1>b, <2>5, <3>5
      <3>7. ~Holds(g, r)' /\ ~Awaits(g, r)' BY <1>3, <1>b, <1>10, <2>5, <3>5
      <3> QED BY <3>3, <3>4, <3>6, <3>7
    <2>8. ASSUME NEW r \in Objects
          PROVE  /\ Cardinality(HoldersOf(r)') = Cardinality(HoldersOf(r))
                 /\ AwaitersOf(r)' = AwaitersOf(r)
      <3>1. \A f \in Handles \ {h, g} : (Holds(f, r) <=> Holds(f, r)') /\ (Awaits(f, r) <=> Awaits(f, r)')
        <4> TAKE f \in Handles \ {h, g}
        <4>1. points'[f] = points[f] BY <1>3, <2>3
        <4>2. owner[f] # t \/ (~Busy(f) /\ ~Busy(f)') BY <2>5, <2>6
        <4> QED BY <2>3, <4>1, <4>2, Bystander DEF OwnershipInv
      <3>2. AwaitersOf(r)' = AwaitersOf(r) BY <2>7, <3>1 DEF AwaitersOf
      <3>3. PICK M \in SUBSET Handles : M = HoldersOf(r) \ {g} BY DEF HoldersOf
      <3>4. HoldersOf(r) \in SUBSET Handles /\ HoldersOf(r)' \in SUBSET Handles BY DEF HoldersOf
      <3>5. /\ g \in HoldersOf(r) <=> points[g] = r
            /\ h \in HoldersOf(r)' <=> points[g] = r
            /\ h \notin HoldersOf(r) /\ g \notin HoldersOf(r)'
        BY <2>7, <1>1 DEF HoldersOf
      <3>6. \A f \in Handles \ {h} : f \in M <=> f \in HoldersOf(r)'
        BY <3>1, <3>3, <3>5 DEF HoldersOf
      <3>7. \A f \in Handles \ {g} : f \in HoldersOf(r) <=> f \in M BY <3>3
      <3>8. /\ Cardinality(M) \in Nat /\ Cardinality(HoldersOf(r)) \in Nat
            /\ Cardinality(M) = Cardinality(HoldersOf(r)) + (IF g \in M THEN 1 ELSE 0)
                                   - (IF g \in HoldersOf(r) THEN 1 ELSE 0)
        BY <1>10, <3>4, <3>7, OneHandle
      <3>9. /\ Cardinality(HoldersOf(r)') \in Nat
            /\ Cardinality(HoldersOf(r)') = Cardinality(M) + (IF h \in HoldersOf(r)' THEN 1 ELSE 0)
                                   - (IF h \in M THEN 1 ELSE 0)
        BY <1>1, <3>4, <3>6, OneHandle
      <3>10. g \notin M /\ h \notin M BY <3>3, <3>5
      <3> QED BY <3>2, <3>5, <3>8, <3>9, <3>10
    <2>9. \A r \in Objects : Cardinality(HoldersOf(r)') + Cardinality(AwaitersOf(r)')
                               = Cardinality(HoldersOf(r)) + Cardinality(AwaitersOf(r))
      BY <2>8
    <2>10. \A r \in Objects :
             /\ ~Has(<<SetStep(g, None)>>, ReleaseStep(r)) /\ ~Has(<<SetStep(g, None)>>, DeleteStep(r))
             /\ ~Has(<<>>, ReleaseStep(r)) /\ ~Has(<<>>, DeleteStep(r))
      <3> TAKE r \in Objects
      <3>1. SetStep(g, None) # ReleaseStep(r) /\ SetStep(g, None) # DeleteStep(r) BY DifferentSteps
      <3> QED BY <3>1, HasOne, HasNothing
    <2> QED BY <1>2, <1>10, <2>3, <2>4, <2>9, <2>10, QuietSteps
  <1>11. ASSUME NEW d \in Seq(Steps), NEW r \in Seq(Steps), d # <<>>, GivingUp(d, h),
                todo[t] = d \o r
         PROVE  FALSE
    <2>1. Head(todo[t]) = d[1] BY <1>3, <1>11
    <2>3. 1 \in 1..Len(d) BY <1>11
    <2>2. d[1].op # "set"
      <3>1. ASSUME NEW o PROVE ReleaseStep(o).op # "set" /\ DeleteStep(o).op # "set" BY DifferentSteps
      <3>2. CASE d = <<ReleaseStep(points[h])>> BY <3>1, <3>2
      <3>3. CASE Deleting(d, h)
        <4>1. (\E o \in Observed : d[1] = ReleaseStep(o)) \/ \E o \in Objects : d[1] = DeleteStep(o)
          BY <2>3, <3>3 DEF Deleting
        <4> QED BY <3>1, <4>1
      <3> QED BY <1>11, <3>2, <3>3 DEF GivingUp
    <2> QED BY <1>2, <2>1, <2>2
  <1> QED BY <1>1, <1>7, <1>8, <1>9, <1>10, <1>11 DEF Assignment, Moved

\* What is copied is kept alive by the handle it is copied from, or by the
\* block whose record it is copied from.
LEMMA SourceIsAlive ==
  ASSUME ConstantsAssumption, OwnershipInv, NEW t \in Threads, NEW h, h = writing[t],
         NEW o \in Objects, Source(t, h, o)
  PROVE  refs[o] > 0 /\ life[o] = "live"
  <1>1. PICK g \in Handles \ {h} :
          owner[g] = t /\ points[g] \in {o} \cup (IF o \in Observed THEN {Block} ELSE {})
    BY DEF Source
  <1>2. ~Busy(g) BY <1>1 DEF Busy
  <1>3. CASE points[g] = o
    <2>1. Holds(g, o) BY <1>2, <1>3 DEF Holds
    <2> QED BY <1>1, <2>1, HeldIsAlive
  <1>4. CASE points[g] = Block /\ o \in Observed
    <2>1. Holds(g, Block) BY <1>2, <1>4 DEF Holds
    <2>2. life[Block] = "live" BY <1>1, <2>1, HeldIsAlive DEF Objects
    <2>3. Recorded(o) BY <1>4, <2>2 DEF Recorded
    <2> QED BY <2>3, HeldIsAlive
  <1> QED BY <1>1, <1>3, <1>4

LEMMA RetainsKeep ==
  ASSUME ConstantsAssumption, OwnershipInv, NEW t \in Threads, ~Idle(t), DoRetain(t)
  PROVE  OwnershipInv'
  <1>0. PICK h : h = writing[t] OBVIOUS
  <1>1. /\ h \in Handles /\ owner[h] = t
        /\ \/ \E o \in Objects : Copying(t, h, o)
           \/ Assignment(t, h, todo[t])
           \/ Moved(t, h)
           \/ \E d, r \in Seq(Steps) :
                d # <<>> /\ GivingUp(d, h) /\ Assignment(t, h, r) /\ todo[t] = d \o r
    BY <1>0, Ahead
  <1>2. /\ Head(todo[t]).op = "retain"
        /\ todo' = [todo EXCEPT ![t] = <<>> \o Tail(todo[t])]
        /\ refs' = IF Null(Head(todo[t]).object) THEN refs
                   ELSE [refs EXCEPT ![Head(todo[t]).object] = @ + 1]
        /\ UNCHANGED <<owner, points, life, writing>>
    BY DEF DoRetain, Then, Rest
  <1>3. /\ todo \in [Threads -> Seq(Steps)] /\ owner \in [Handles -> Threads]
        /\ points \in [Handles -> Objects \cup {None}] /\ refs \in [Objects -> Nat]
        /\ writing \in [Threads -> Handles \cup {None}] /\ None \notin Objects
    BY DEF OwnershipInv, TypeInv, ConstantsAssumption
  <1>4. PICK o \in Objects : Copying(t, h, o)
    <2>1. ASSUME Assignment(t, h, todo[t]) PROVE FALSE
      <3>1. \A g, x, y : Head(<<SetStep(g, x)>>).op = "set" /\ Head(<<SetStep(g, x), y>>).op = "set"
        BY TailFacts, DifferentSteps
      <3> QED BY <1>2, <2>1, <3>1 DEF Assignment
    <2>2. ASSUME Moved(t, h) PROVE FALSE
      <3>1. \A g, x : Head(<<SetStep(g, x)>>).op = "set" BY TailFacts, DifferentSteps
      <3> QED BY <1>2, <2>2, <3>1 DEF Moved
    <2>3. ASSUME NEW d \in Seq(Steps), NEW r \in Seq(Steps), d # <<>>, GivingUp(d, h),
                 todo[t] = d \o r
          PROVE  FALSE
      <3>1. Head(todo[t]) = d[1] BY <1>3, <2>3
      <3>2. 1 \in 1..Len(d) BY <2>3
      <3>3. \A x : ReleaseStep(x).op # "retain" /\ DeleteStep(x).op # "retain" BY DifferentSteps
      <3>4. CASE d = <<ReleaseStep(points[h])>> BY <1>2, <3>1, <3>3, <3>4
      <3>5. CASE Deleting(d, h)
        <4>1. (\E x \in Observed : d[1] = ReleaseStep(x)) \/ \E x \in Objects : d[1] = DeleteStep(x)
          BY <3>2, <3>5 DEF Deleting
        <4> QED BY <1>2, <3>1, <3>3, <4>1
      <3> QED BY <2>3, <3>4, <3>5 DEF GivingUp
    <2> QED BY <1>1, <2>1, <2>2, <2>3
  <1>5. Source(t, h, o) /\ refs[o] > 0 /\ life[o] = "live"
    BY <1>0, <1>4, SourceIsAlive DEF Copying
  <1>6. PICK p \in Objects \cup {None} : p = points[h] BY <1>1, <1>3
  \* The three places of a retain, and what is left after it.
  <1>7. PICK left \in {<<>>, <<SetStep(h, o)>>, <<ReleaseStep(p), SetStep(h, o)>>} :
          /\ Head(todo[t]) = RetainStep(o) /\ Tail(todo[t]) = left
          /\ \/ p = o /\ left = <<>> /\ todo[t] = <<RetainStep(o)>>
             \/ p = None /\ left = <<SetStep(h, o)>> /\ todo[t] = <<RetainStep(o), SetStep(h, o)>>
             \/ /\ p # None /\ left = <<ReleaseStep(p), SetStep(h, o)>>
                /\ todo[t] = <<RetainStep(o), ReleaseStep(p), SetStep(h, o)>>
    <2>1. todo[t] # <<SetStep(h, o), RetainStep(o)>>
      BY <1>2, TailFacts, DifferentSteps
    <2>2. CASE todo[t] = <<RetainStep(o)>> /\ p = o BY <2>2, TailFacts
    <2>3. CASE todo[t] = <<RetainStep(o), SetStep(h, o)>> /\ p = None BY <2>3, TailFacts
    <2>4. CASE todo[t] = <<RetainStep(o), ReleaseStep(p), SetStep(h, o)>> /\ p # None
      BY <2>4, TailFacts
    <2> QED BY <1>4, <1>6, <2>1, <2>2, <2>3, <2>4 DEF Copying
  <1>8. SetStep(h, o) \in Steps \/ left = <<>>
    <2>1. SetStep(h, o) \in Steps \/ ~Has(todo[t], SetStep(h, o))
      <3>1. \A s \in Seq(Steps) : \A x : Has(s, x) => x \in Steps BY DEF Has
      <3> QED BY <1>3, <3>1
    <2>2. left # <<>> => Has(todo[t], SetStep(h, o))
      <3>1. /\ Has(<<RetainStep(o), SetStep(h, o)>>, SetStep(h, o))
            /\ Has(<<RetainStep(o), ReleaseStep(p), SetStep(h, o)>>, SetStep(h, o))
        BY HasTwo, HasThree
      <3> QED BY <1>7, <3>1
    <2> QED BY <2>1, <2>2
  <1>9. ReleaseStep(p) \in Steps BY <1>1, Lists
  <1>10. left \in Seq(Steps) /\ <<>> \o left = left
    <2>1. left \in Seq(Steps) BY <1>7, <1>8, <1>9, SeqFacts
    <2> QED BY <2>1
  <1>11. /\ todo' = [todo EXCEPT ![t] = left] /\ todo'[t] = left
         /\ refs' = [refs EXCEPT ![o] = refs[o] + 1]
    <2>1. Head(todo[t]).object = o BY <1>7, DifferentSteps
    <2>2. ~Null(o) BY <1>3 DEF Null
    <2> QED BY <1>2, <1>3, <1>7, <1>10, <2>1, <2>2
  <1>12. TypeInv' /\ Local(t)
    <2>1. todo' \in [Threads -> Seq(Steps)] BY <1>3, <1>10, <1>11
    <2>2. refs' \in [Objects -> Nat] BY <1>3, <1>11
    <2>3. TypeInv' BY <1>2, <2>1, <2>2 DEF OwnershipInv, TypeInv
    <2> QED BY <1>2, <1>3, <1>11, <2>3 DEF Local
  <1>13. (Idle(t) \/ Form(t, writing[t]))'
    <2>1. CASE left = <<>> BY <1>11, <2>1 DEF Idle
    <2>2. CASE left = <<SetStep(h, o)>>
      <3>1. Assignment(t, h, left)' BY <2>2 DEF Assignment
      <3>2. GivingUp(<<>>, h)' BY HasNothing DEF GivingUp, Deleting
      <3>3. <<>> \in Seq(Steps) OBVIOUS
      <3>4. Assigning(t, h)' BY <1>10, <1>11, <3>1, <3>2, <3>3 DEF Assigning
      <3> QED BY <1>0, <1>1, <1>2, <3>4 DEF Form
    <2>3. CASE p # None /\ left = <<ReleaseStep(p), SetStep(h, o)>>
      <3>0. SetStep(h, o) \in Steps BY <1>8, <2>3
      <3>1. PICK d \in Seq(Steps), r \in Seq(Steps) : d = <<ReleaseStep(p)>> /\ r = <<SetStep(h, o)>>
        BY <1>9, <3>0, SeqFacts
      <3>2. left = d \o r BY <2>3, <3>1, ConcatFacts
      <3>3. Assignment(t, h, r)' BY <3>1 DEF Assignment
      <3>4. GivingUp(d, h)' BY <1>2, <1>6, <2>3, <3>1 DEF GivingUp
      <3>5. Assigning(t, h)' BY <1>11, <3>2, <3>3, <3>4 DEF Assigning
      <3> QED BY <1>0, <1>1, <1>2, <3>5 DEF Form
    <2> QED BY <1>7, <2>1, <2>2, <2>3
  <1>14. ASSUME NEW r \in Objects
         PROVE  /\ ~Has(todo[t], DeleteStep(r)) /\ ~Has(left, DeleteStep(r))
                /\ Has(todo[t], ReleaseStep(r)) => r = p
                /\ Has(left, ReleaseStep(r)) <=> Has(todo[t], ReleaseStep(r))
                /\ Has(todo[t], RetainStep(o)) /\ ~Has(left, RetainStep(r))
                /\ Has(todo[t], SetStep(h, r)) => r = o
                /\ Has(left, SetStep(h, r)) <=> left # <<>> /\ r = o
                /\ \A g \in Handles : ~Has(left, SetStep(g, None))
                /\ left = <<>> => p = o /\ ~Has(todo[t], ReleaseStep(r))
    <2>0. o # None /\ r # None BY <1>3
    <2>1. /\ DeleteStep(r) \notin {RetainStep(o), ReleaseStep(p), SetStep(h, o)}
          /\ ReleaseStep(r) \notin {RetainStep(o), SetStep(h, o)}
          /\ ReleaseStep(r) = ReleaseStep(p) <=> r = p
          /\ RetainStep(r) \notin {ReleaseStep(p), SetStep(h, o)}
          /\ SetStep(h, r) \notin {RetainStep(o), ReleaseStep(p)}
          /\ SetStep(h, r) = SetStep(h, o) <=> r = o
          /\ \A g \in Handles : SetStep(g, None) # SetStep(h, o) /\ SetStep(g, None) # ReleaseStep(p)
      BY <2>0, DifferentSteps
    <2>2. CASE p = o /\ left = <<>> /\ todo[t] = <<RetainStep(o)>>
      BY <2>1, <2>2, HasNothing, HasOne
    <2>3. CASE p = None /\ left = <<SetStep(h, o)>> /\ todo[t] = <<RetainStep(o), SetStep(h, o)>>
      BY <2>0, <2>1, <2>3, HasOne, HasTwo
    <2>4. CASE /\ p # None /\ left = <<ReleaseStep(p), SetStep(h, o)>>
               /\ todo[t] = <<RetainStep(o), ReleaseStep(p), SetStep(h, o)>>
      BY <2>1, <2>4, HasTwo, HasThree
    <2> QED BY <1>7, <2>2, <2>3, <2>4
  <1>15. \A g \in Handles \ {h} : points'[g] = points[g] /\ (owner[g] # t \/ (~Busy(g) /\ ~Busy(g)'))
    BY <1>0, <1>1, <1>2, <1>3 DEF Busy
  <1>16. ASSUME NEW r \in Objects
         PROVE  Cardinality(HoldersOf(r)') + Cardinality(AwaitersOf(r)')
                  = Cardinality(HoldersOf(r)) + Cardinality(AwaitersOf(r)) + (IF r = o THEN 1 ELSE 0)
    <2>1. Busy(h) /\ (Busy(h)' <=> left # <<>>) BY <1>0, <1>1, <1>2, <1>11 DEF Busy, Idle
    <2>2. ~Awaits(h, r) BY <1>1, <1>14 DEF Awaits
    <2>3. Awaits(h, r)' <=> left # <<>> /\ r = o
      BY <1>1, <1>2, <1>11, <1>14, <2>1 DEF Awaits
    <2>4. (Holds(h, r) <=> p = r /\ Has(todo[t], ReleaseStep(r)))
          /\ (Holds(h, r)' <=> p = r /\ (left # <<>> => Has(left, ReleaseStep(r))))
      BY <1>1, <1>2, <1>6, <1>11, <2>1 DEF Holds
    <2>5. /\ Cardinality(HoldersOf(r)) \in Nat /\ Cardinality(AwaitersOf(r)) \in Nat
          /\ Cardinality(HoldersOf(r)') = Cardinality(HoldersOf(r))
               + (IF Holds(h, r)' THEN 1 ELSE 0) - (IF Holds(h, r) THEN 1 ELSE 0)
          /\ Cardinality(AwaitersOf(r)') = Cardinality(AwaitersOf(r))
               + (IF Awaits(h, r)' THEN 1 ELSE 0) - (IF Awaits(h, r) THEN 1 ELSE 0)
      BY <1>1, <1>12, <1>15, OneHandleMoves DEF OwnershipInv
    <2>6. CASE left = <<>>
      <3>1. ~Holds(h, r) /\ (Holds(h, r)' <=> r = o) /\ ~Awaits(h, r)' BY <1>14, <2>3, <2>4, <2>6
      <3> QED BY <2>2, <2>5, <3>1
    <2>7. CASE left # <<>>
      <3>1. (Holds(h, r)' <=> Holds(h, r)) /\ (Awaits(h, r)' <=> r = o) BY <1>14, <2>3, <2>4, <2>7
      <3> QED BY <2>2, <2>5, <3>1
    <2> QED BY <2>6, <2>7
  <1>17. \A r \in Objects : ~RecordPending(t, r) /\ ~RecordPending(t, r)'
    BY <1>0, <1>2, <1>6, <1>11, <1>14 DEF RecordPending
  <1>18. \A u \in Threads, r \in Objects :
           /\ RecordPending(u, r)' <=> RecordPending(u, r)
           /\ Has(todo'[u], DeleteStep(r)) <=> Has(todo[u], DeleteStep(r))
    <2>1. \A u \in Threads \ {t}, r \in Objects : RecordPending(u, r)' <=> RecordPending(u, r)
      BY <1>12, OthersKeepRecords DEF OwnershipInv
    <2>2. \A u \in Threads \ {t}, r \in Objects : Has(todo'[u], DeleteStep(r)) <=> Has(todo[u], DeleteStep(r))
      BY <1>12 DEF Local
    <2>3. \A r \in Objects : ~Has(todo[t], DeleteStep(r)) /\ ~Has(todo'[t], DeleteStep(r)) BY <1>11, <1>14
    <2> QED BY <1>17, <2>1, <2>2, <2>3
  <1>19. FormInv' BY <1>2, <1>12, <1>13, FormKept DEF OwnershipInv
  <1>20. RecordInv' BY <1>2, <1>18 DEF OwnershipInv, RecordInv
  <1>21. LifeInv' BY <1>2, <1>3, <1>5, <1>11, <1>18 DEF OwnershipInv, LifeInv
  <1>22. RefInv'
    <2> SUFFICES ASSUME NEW r \in Objects
                 PROVE  refs'[r] = Cardinality(HoldersOf(r)') + Cardinality(AwaitersOf(r)')
                                     + (IF Recorded(r)' THEN 1 ELSE 0)
      BY DEF RefInv
    <2>1. Recorded(r)' <=> Recorded(r) BY <1>2, <1>18 DEF Recorded
    <2>2. refs'[r] = refs[r] + (IF r = o THEN 1 ELSE 0) BY <1>3, <1>11
    <2>3. refs[r] = Cardinality(HoldersOf(r)) + Cardinality(AwaitersOf(r))
                      + (IF Recorded(r) THEN 1 ELSE 0)
      BY DEF OwnershipInv, RefInv
    <2>4. Cardinality(HoldersOf(r)) \in Nat /\ Cardinality(AwaitersOf(r)) \in Nat
      BY Member DEF HoldersOf, AwaitersOf
    <2>5. Cardinality(HoldersOf(r)') \in Nat /\ Cardinality(AwaitersOf(r)') \in Nat
      BY Member DEF HoldersOf, AwaitersOf
    <2> QED BY <1>16, <2>1, <2>2, <2>3, <2>4, <2>5
  <1> QED BY <1>12, <1>19, <1>20, <1>21, <1>22 DEF OwnershipInv

------------------------------------------------------------------------------
(* What an operation gives up. *)

LEMMA AssignmentFacts ==
  ASSUME NEW t, NEW h, NEW r, Assignment(t, h, r)
  PROVE  /\ r # <<>>
         /\ \A x : ~Has(r, ReleaseStep(x)) /\ ~Has(r, DeleteStep(x)) /\ ~Has(r, RetainStep(x))
  <1>1. CASE \E o \in Objects \cup {None} : r = <<SetStep(h, o)>>
    <2>1. PICK o : r = <<SetStep(h, o)>> BY <1>1
    <2>2. \A x : SetStep(h, o) # ReleaseStep(x) /\ SetStep(h, o) # DeleteStep(x) /\ SetStep(h, o) # RetainStep(x)
      BY DifferentSteps
    <2> QED BY <2>1, <2>2, HasOne
  <1>2. CASE \E g \in Handles \ {h} : owner[g] = t /\ r = <<SetStep(h, points[g]), SetStep(g, None)>>
    <2>1. PICK g : r = <<SetStep(h, points[g]), SetStep(g, None)>> BY <1>2
    <2>2. \A f, o, x : SetStep(f, o) # ReleaseStep(x) /\ SetStep(f, o) # DeleteStep(x) /\ SetStep(f, o) # RetainStep(x)
      BY DifferentSteps
    <2> QED BY <2>1, <2>2, HasTwo
  <1> QED BY <1>1, <1>2 DEF Assignment

LEMMA Regroup ==
  ASSUME NEW S, NEW s \in Seq(S), NEW d \in Seq(S), NEW r \in Seq(S), d # <<>>
  PROVE  /\ s \o Tail(d \o r) = (s \o Tail(d)) \o r
         /\ Head(d \o r) = d[1] /\ Tail(d) \in Seq(S) /\ s \o Tail(d) \in Seq(S)
         /\ Len(Tail(d)) = Len(d) - 1 /\ \A i \in 1..(Len(d) - 1) : Tail(d)[i] = d[i + 1]
  <1>1. /\ Tail(d) \in Seq(S) /\ Len(Tail(d)) = Len(d) - 1 /\ Len(d) \in Nat /\ Len(d) > 0
        /\ \A i \in 1..(Len(d) - 1) : Tail(d)[i] = d[i + 1]
    OBVIOUS
  <1>2. d \o r \in Seq(S) /\ Len(d \o r) = Len(d) + Len(r) /\ d \o r # <<>>
    BY <1>1
  <1>3. Head(d \o r) = d[1] BY <1>1, <1>2
  <1>4. Tail(d \o r) = Tail(d) \o r BY <1>1, <1>2
  <1>5. s \o (Tail(d) \o r) = (s \o Tail(d)) \o r BY <1>1
  <1> QED BY <1>1, <1>3, <1>4, <1>5, SMTT(30)

\* What is left of steps that differ.
LEMMA TailHas ==
  ASSUME NEW S, NEW d \in Seq(S), d # <<>>, \A i, j \in 1..Len(d) : d[i] = d[j] => i = j, NEW x
  PROVE  Has(Tail(d), x) <=> Has(d, x) /\ x # d[1]
  <1>1. /\ Tail(d) \in Seq(S) /\ Len(Tail(d)) = Len(d) - 1 /\ Len(d) \in Nat /\ Len(d) > 0
        /\ \A i \in 1..(Len(d) - 1) : Tail(d)[i] = d[i + 1]
        /\ DOMAIN d = 1..Len(d) /\ DOMAIN Tail(d) = 1..(Len(d) - 1)
    OBVIOUS
  <1>2. ASSUME Has(Tail(d), x) PROVE Has(d, x) /\ x # d[1]
    <2>1. PICK i \in 1..(Len(d) - 1) : d[i + 1] = x BY <1>1, <1>2 DEF Has
    <2>2. i + 1 \in 1..Len(d) /\ 1 \in 1..Len(d) /\ i + 1 # 1 BY <1>1
    <2> QED BY <1>1, <2>1, <2>2 DEF Has
  <1>3. ASSUME Has(d, x), x # d[1] PROVE Has(Tail(d), x)
    <2>1. PICK i \in 1..Len(d) : d[i] = x /\ i # 1 BY <1>1, <1>3 DEF Has
    <2>2. i - 1 \in 1..(Len(d) - 1) /\ (i - 1) + 1 = i BY <1>1, <2>1
    <2>3. Tail(d)[i - 1] = x BY <1>1, <2>1, <2>2
    <2> QED BY <1>1, <2>2, <2>3 DEF Has
  <1> QED BY <1>2, <1>3

\* The records of a block, in some order.
LEMMA RecordFacts ==
  ASSUME ConstantsAssumption
  PROVE  /\ Cardinality(Observed) \in Nat
         /\ \A i \in 1..Cardinality(Observed) : SetToSeq(Observed)[i] \in Observed
         /\ \A i, j \in 1..Cardinality(Observed) :
              SetToSeq(Observed)[i] = SetToSeq(Observed)[j] => i = j
         /\ \A o \in Observed : \E i \in 1..Cardinality(Observed) : SetToSeq(Observed)[i] = o
  <1> DEFINE n == Cardinality(Observed)
             f == SetToSeq(Observed)
  <1>1. n \in Nat /\ ExistsBijection(1..n, Observed) /\ IsFiniteSet(Observed)
    BY FS_CardinalityType DEF ConstantsAssumption
  <1>2. PICK b : b \in Bijection(1..n, Observed) BY <1>1 DEF ExistsBijection
  <1>3. b \in [1..n -> Observed] /\ IsInjective(b) BY <1>2 DEF Bijection, Injection
  <1>4. f \in [1..n -> Observed] /\ IsInjective(f) BY <1>3 DEF SetToSeq
  <1> HIDE DEF f
  <1>5. \A i, j \in 1..n : f[i] = f[j] => i = j BY <1>4 DEF IsInjective
  <1>6. f \in Injection(1..n, Observed) BY <1>4, <1>5 DEF Injection, IsInjective
  <1>7. Cardinality(1..n) = n BY <1>1, FS_Interval
  <1>8. f \in Surjection(1..n, Observed) BY <1>1, <1>6, <1>7, FS_Injection
  <1>9. \A o \in Observed : \E i \in 1..n : f[i] = o BY <1>8 DEF Surjection
  <1> QED BY <1>1, <1>4, <1>5, <1>9 DEF f

LEMMA ReleasesKeep ==
  ASSUME ConstantsAssumption, OwnershipInv, NEW t \in Threads, ~Idle(t), DoRelease(t)
  PROVE  OwnershipInv'
  <1>0. PICK h : h = writing[t] OBVIOUS
  <1>1. /\ h \in Handles /\ owner[h] = t
        /\ \/ \E o \in Objects : Copying(t, h, o)
           \/ Assignment(t, h, todo[t])
           \/ Moved(t, h)
           \/ \E d, r \in Seq(Steps) :
                d # <<>> /\ GivingUp(d, h) /\ Assignment(t, h, r) /\ todo[t] = d \o r
    BY <1>0, Ahead
  <1>2. PICK o, steps :
          /\ o = Head(todo[t]).object /\ Head(todo[t]).op = "release"
          /\ steps = (IF refs[o] = 1 THEN <<DeleteStep(o)>> ELSE <<>>)
          /\ refs' = [refs EXCEPT ![o] = @ - 1]
          /\ todo' = [todo EXCEPT ![t] = steps \o Tail(todo[t])]
          /\ UNCHANGED <<owner, points, life, writing>>
    BY DEF DoRelease, Then, Rest, DeleteStep
  <1>3. /\ todo \in [Threads -> Seq(Steps)] /\ owner \in [Handles -> Threads]
        /\ points \in [Handles -> Objects \cup {None}] /\ refs \in [Objects -> Nat]
        /\ writing \in [Threads -> Handles \cup {None}] /\ None \notin Objects
        /\ Block \notin Observed /\ Observed \subseteq Objects
    BY DEF OwnershipInv, TypeInv, ConstantsAssumption, Objects
  <1>4. PICK d \in Seq(Steps), r \in Seq(Steps) :
          d # <<>> /\ GivingUp(d, h) /\ Assignment(t, h, r) /\ todo[t] = d \o r
    <2>1. ASSUME Assignment(t, h, todo[t]) PROVE FALSE
      <3>1. \A g, x, y : Head(<<SetStep(g, x)>>).op = "set" /\ Head(<<SetStep(g, x), y>>).op = "set"
        BY TailFacts, DifferentSteps
      <3> QED BY <1>2, <2>1, <3>1 DEF Assignment
    <2>2. ASSUME Moved(t, h) PROVE FALSE
      <3>1. \A g, x : Head(<<SetStep(g, x)>>).op = "set" BY TailFacts, DifferentSteps
      <3> QED BY <1>2, <2>2, <3>1 DEF Moved
    <2>3. ASSUME NEW x \in Objects, Copying(t, h, x) PROVE FALSE
      <3>1. \A y, z : /\ Head(<<SetStep(h, x), y>>).op = "set" /\ Head(<<RetainStep(x)>>).op = "retain"
                      /\ Head(<<RetainStep(x), y>>).op = "retain" /\ Head(<<RetainStep(x), y, z>>).op = "retain"
        BY TailFacts, DifferentSteps
      <3> QED BY <1>2, <2>3, <3>1 DEF Copying
    <2> QED BY <1>1, <2>1, <2>2, <2>3
  <1>5. /\ r # <<>>
        /\ \A x : ~Has(r, ReleaseStep(x)) /\ ~Has(r, DeleteStep(x)) /\ ~Has(r, RetainStep(x))
    BY <1>4, AssignmentFacts
  <1>6. 1 \in 1..Len(d) /\ Head(todo[t]) = d[1] BY <1>3, <1>4, Regroup
  \* Only releases, of different objects, stand before the assignment.
  <1>7. /\ o \in Objects /\ d[1] = ReleaseStep(o)
        /\ \A i \in 1..Len(d) : \E x \in Objects : d[i] = ReleaseStep(x)
        /\ \A i, j \in 1..Len(d) : d[i] = d[j] => i = j
        /\ \/ points[h] = o /\ d = <<ReleaseStep(o)>>
           \/ /\ points[h] = Block /\ life[Block] = "deleted"
              /\ \A i \in 1..Len(d) : \E x \in Observed : d[i] = ReleaseStep(x)
    <2>1. CASE points[h] # None /\ d = <<ReleaseStep(points[h])>>
      <3>1. o = points[h] /\ points[h] \in Objects /\ d[1] = ReleaseStep(o)
        <4>1. \A x : ReleaseStep(x).object = x BY DifferentSteps
        <4>2. d[1] = ReleaseStep(points[h]) BY <2>1
        <4> QED BY <1>1, <1>2, <1>3, <1>6, <2>1, <4>1, <4>2
      <3> QED BY <2>1, <3>1
    <2>2. CASE Deleting(d, h)
      <3>1. \A x : DeleteStep(x).op # "release" BY DifferentSteps
      <3>2. ASSUME NEW i \in 1..Len(d) PROVE \E x \in Observed : d[i] = ReleaseStep(x)
        <4>1. (\E x \in Observed : d[i] = ReleaseStep(x)) \/ (i = 1 /\ \E x \in Objects : d[i] = DeleteStep(x))
          BY <2>2 DEF Deleting
        <4> QED BY <1>2, <1>6, <3>1, <4>1
      <3>3. PICK x \in Observed : d[1] = ReleaseStep(x) BY <1>6, <3>2
      <3>8. \A y : ReleaseStep(y).object = y BY DifferentSteps
      <3>4. o = x BY <1>2, <1>6, <3>3, <3>8
      <3>5. Has(d, ReleaseStep(x)) BY <1>6, <3>3 DEF Has
      <3>6. points[h] = Block /\ life[Block] = "deleted" BY <2>2, <3>5 DEF Deleting
      <3>7. \A i, j \in 1..Len(d) : d[i] = d[j] => i = j BY <2>2 DEF Deleting
      <3> QED BY <1>3, <3>2, <3>3, <3>4, <3>6, <3>7
    <2> QED BY <1>4, <2>1, <2>2 DEF GivingUp
  <1>8. steps \in Seq(Steps) /\ \A y : Has(steps, y) <=> refs[o] = 1 /\ y = DeleteStep(o)
    <2>1. DeleteStep(o) \in Steps BY <1>1, <1>7, Lists
    <2>2. <<DeleteStep(o)>> \in Seq(Steps) /\ <<>> \in Seq(Steps) BY <2>1, SeqFacts
    <2> QED BY <1>2, <2>2, HasOne, HasNothing
  <1>9. PICK e \in Seq(Steps) : e = steps \o Tail(d) /\ todo' = [todo EXCEPT ![t] = e \o r]
    <2>1. steps \o Tail(d \o r) = (steps \o Tail(d)) \o r /\ steps \o Tail(d) \in Seq(Steps)
      BY <1>4, <1>8, Regroup, SMTT(30)
    <2> QED BY <1>2, <1>4, <2>1
  <1>10. e \o r \in Seq(Steps) /\ e \o r # <<>> /\ todo'[t] = e \o r
    <2>1. e \o r \in Seq(Steps) /\ e \o r # <<>> BY <1>5
    <2> QED BY <1>3, <1>9, <2>1
  <1>11. /\ \A y : Has(todo[t], y) <=> Has(d, y) \/ Has(r, y)
         /\ \A y : Has(todo'[t], y) <=> Has(e, y) \/ Has(r, y)
         /\ \A y : Has(e, y) <=> (refs[o] = 1 /\ y = DeleteStep(o)) \/ (Has(d, y) /\ y # ReleaseStep(o))
    <2>1. Tail(d) \in Seq(Steps) BY <1>4
    <2>2. \A y : Has(steps \o Tail(d), y) <=> Has(steps, y) \/ Has(Tail(d), y)
      BY <1>8, <2>1, HasConcat
    <2>3. \A y : Has(Tail(d), y) <=> Has(d, y) /\ y # d[1] BY <1>4, <1>7, TailHas
    <2>4. \A y : Has(d \o r, y) <=> Has(d, y) \/ Has(r, y) BY HasConcat
    <2>5. \A y : Has(e \o r, y) <=> Has(e, y) \/ Has(r, y) BY HasConcat
    <2> QED BY <1>4, <1>7, <1>8, <1>9, <1>10, <2>2, <2>3, <2>4, <2>5, ZenonT(40)
  <1>12. \A y : Has(d, y) => \E x \in Objects : y = ReleaseStep(x)
    <2>1. DOMAIN d = 1..Len(d) OBVIOUS
    <2> QED BY <1>7, <2>1 DEF Has
  <1>13. \A x : /\ Has(todo'[t], ReleaseStep(x)) <=> Has(todo[t], ReleaseStep(x)) /\ x # o
                /\ ~Has(todo[t], DeleteStep(x))
                /\ Has(todo'[t], DeleteStep(x)) <=> refs[o] = 1 /\ x = o
                /\ Has(todo'[t], RetainStep(x)) <=> Has(todo[t], RetainStep(x))
                /\ \A g : Has(todo'[t], SetStep(g, x)) <=> Has(todo[t], SetStep(g, x))
    <2> TAKE x
    <2>1. ASSUME NEW y, NEW g
          PROVE  /\ ReleaseStep(x) = ReleaseStep(y) <=> x = y
                 /\ ReleaseStep(x) # DeleteStep(y) /\ DeleteStep(x) # ReleaseStep(y)
                 /\ DeleteStep(x) = DeleteStep(y) <=> x = y
                 /\ RetainStep(x) # ReleaseStep(y) /\ RetainStep(x) # DeleteStep(y)
                 /\ SetStep(g, x) # ReleaseStep(y) /\ SetStep(g, x) # DeleteStep(y)
      <3>1. ReleaseStep(x) # DeleteStep(y) /\ RetainStep(x) # ReleaseStep(y) /\ RetainStep(x) # DeleteStep(y)
        BY DEF ReleaseStep, DeleteStep, RetainStep, Step
      <3>2. DeleteStep(x) # ReleaseStep(y) BY DifferentSteps
      <3>3. SetStep(g, x) # ReleaseStep(y) /\ SetStep(g, x) # DeleteStep(y) BY DifferentSteps
      <3>4. (ReleaseStep(x) = ReleaseStep(y) <=> x = y) /\ (DeleteStep(x) = DeleteStep(y) <=> x = y)
        BY DEF ReleaseStep, DeleteStep, Step
      <3> QED BY <3>1, <3>2, <3>3, <3>4
    <2>2. Has(todo'[t], ReleaseStep(x)) <=> Has(todo[t], ReleaseStep(x)) /\ x # o
      BY <1>5, <1>11, <2>1
    <2>3. ~Has(todo[t], DeleteStep(x)) /\ ~Has(d, DeleteStep(x)) BY <1>5, <1>11, <1>12, <2>1
    <2>4. Has(todo'[t], DeleteStep(x)) <=> refs[o] = 1 /\ x = o BY <1>5, <1>11, <2>1, <2>3
    <2>5. Has(todo'[t], RetainStep(x)) <=> Has(todo[t], RetainStep(x)) BY <1>5, <1>11, <1>12, <2>1
    <2>6. ASSUME NEW g PROVE Has(todo'[t], SetStep(g, x)) <=> Has(todo[t], SetStep(g, x))
      <3>1. ~Has(d, SetStep(g, x)) BY <1>12, <2>1
      <3> QED BY <1>11, <2>1, <3>1
    <2> QED BY <2>2, <2>3, <2>4, <2>5, <2>6
  <1>14. Has(todo[t], ReleaseStep(o)) /\ \A x : Has(todo[t], ReleaseStep(x)) <=> Has(d, ReleaseStep(x))
    <2>1. DOMAIN d = 1..Len(d) OBVIOUS
    <2>2. Has(d, ReleaseStep(o)) BY <1>6, <1>7, <2>1 DEF Has
    <2> QED BY <1>5, <1>11, <2>2
  <1>15. Busy(h) BY <1>0, <1>1 DEF Busy
  <1>16. Busy(h)' BY <1>0, <1>1, <1>2, <1>10 DEF Busy, Idle
  \* The count that falls is of a reference that is counted.
  <1>17. ASSUME NEW x \in Objects
         PROVE  /\ Awaits(h, x)' <=> Awaits(h, x)
                /\ Holds(h, x)' <=> Holds(h, x) /\ x # o
                /\ RecordPending(t, x)' <=> RecordPending(t, x) /\ x # o
    <2>1. Awaits(h, x)' <=> Awaits(h, x)
      <3>1. owner'[h] = t /\ owner[h] = t BY <1>1, <1>2
      <3> QED BY <1>13, <1>15, <1>16, <3>1 DEF Awaits
    <2>2. Holds(h, x)' <=> Holds(h, x) /\ x # o BY <1>1, <1>2, <1>13, <1>15, <1>16 DEF Holds
    <2>3. RecordPending(t, x)' <=> RecordPending(t, x) /\ x # o BY <1>2, <1>13 DEF RecordPending
    <2> QED BY <2>1, <2>2, <2>3
  <1>18. /\ points[h] = o => Holds(h, o) /\ \A x \in Objects : ~RecordPending(t, x)
         /\ points[h] # o => /\ points[h] = Block /\ life[Block] = "deleted" /\ o \in Observed
                             /\ RecordPending(t, o) /\ \A x \in Objects : ~Holds(h, x)
    <2>1. CASE points[h] = o /\ d = <<ReleaseStep(o)>>
      <3>1. \A x \in Objects : Has(todo[t], ReleaseStep(x)) => x = o
        <4>1. \A x : ReleaseStep(x) = ReleaseStep(o) <=> x = o BY DEF ReleaseStep, Step
        <4> QED BY <1>14, <2>1, <4>1, HasOne
      <3> QED BY <1>0, <1>1, <1>14, <2>1, <3>1 DEF Holds, RecordPending
    <2>2. CASE /\ points[h] = Block /\ life[Block] = "deleted"
               /\ \A i \in 1..Len(d) : \E x \in Observed : d[i] = ReleaseStep(x)
      <3>0. \A x, y : ReleaseStep(x) = ReleaseStep(y) <=> x = y BY DEF ReleaseStep, Step
      <3>1. \A x : Has(todo[t], ReleaseStep(x)) => x \in Observed
        <4>1. DOMAIN d = 1..Len(d) OBVIOUS
        <4>2. \A x : Has(d, ReleaseStep(x)) => x \in Observed BY <2>2, <3>0, <4>1 DEF Has
        <4> QED BY <1>14, <4>2
      <3>2. o \in Observed /\ points[h] # o BY <1>3, <1>14, <2>2, <3>1
      <3>3. RecordPending(t, o) BY <1>0, <1>14, <3>2 DEF RecordPending
      <3>4. ASSUME NEW x \in Objects PROVE ~Holds(h, x)
        BY <1>1, <1>3, <1>15, <2>2, <3>1 DEF Holds
      <3> QED BY <2>2, <3>2, <3>3, <3>4
    <2> QED BY <1>7, <2>1, <2>2
  <1>19. refs[o] > 0 /\ life[o] = "live"
    <2>1. CASE points[h] = o BY <1>1, <1>7, <1>18, <2>1, HeldIsAlive
    <2>2. CASE points[h] # o
      <3>1. Recorded(o) BY <1>18, <2>2 DEF Recorded
      <3> QED BY <1>7, <3>1, HeldIsAlive
    <2> QED BY <2>1, <2>2
  <1>20. refs' = [refs EXCEPT ![o] = refs[o] - 1] /\ refs'[o] = refs[o] - 1 BY <1>2, <1>3, <1>7
  <1>21. TypeInv' /\ Local(t)
    <2>1. todo' \in [Threads -> Seq(Steps)] BY <1>3, <1>9, <1>10
    <2>2. refs[o] - 1 \in Nat BY <1>3, <1>7, <1>19
    <2>3. refs' \in [Objects -> Nat] BY <1>3, <1>20, <2>2
    <2>4. TypeInv' BY <1>2, <2>1, <2>3 DEF OwnershipInv, TypeInv
    <2> QED BY <1>2, <1>3, <1>9, <2>4 DEF Local
  <1>22. (Idle(t) \/ Form(t, writing[t]))'
    <2>1. Assignment(t, h, r)' BY <1>2, <1>4 DEF Assignment
    <2>2. GivingUp(e, h)'
      <3>1. /\ \A i \in 1..Len(e) : (\E x \in Observed : e[i] = ReleaseStep(x))
                                     \/ (i = 1 /\ \E x \in Objects : e[i] = DeleteStep(x))
            /\ \A i, j \in 1..Len(e) : e[i] = e[j] => i = j
        <4>0. /\ Tail(d) \in Seq(Steps) /\ Len(Tail(d)) = Len(d) - 1 /\ Len(d) \in Nat
              /\ \A i \in 1..(Len(d) - 1) : Tail(d)[i] = d[i + 1]
          BY <1>4, Regroup
        <4>1. \A i \in 1..Len(d) : i # 1 => \E x \in Observed : d[i] = ReleaseStep(x)
          <5>1. CASE d = <<ReleaseStep(o)>> BY <5>1
          <5>2. CASE \A i \in 1..Len(d) : \E x \in Observed : d[i] = ReleaseStep(x) BY <5>2
          <5> QED BY <1>7, <5>1, <5>2
        <4>2. CASE refs[o] = 1
          <5>1. e = <<DeleteStep(o)>> \o Tail(d) BY <1>2, <1>9, <4>2
          <5>2. Len(e) = Len(d) /\ e[1] = DeleteStep(o) /\ \A i \in 1..Len(d) : i # 1 => e[i] = d[i]
            <6> DEFINE D == <<DeleteStep(o)>>
            <6>1. D \in Seq({DeleteStep(o)}) /\ Len(D) = 1 /\ D[1] = DeleteStep(o) OBVIOUS
            <6>2. Len(D \o Tail(d)) = Len(d) /\ (D \o Tail(d))[1] = D[1] BY <4>0, <6>1
            <6>3. ASSUME NEW i \in 1..Len(d), i # 1 PROVE (D \o Tail(d))[i] = d[i]
              <7>1. (D \o Tail(d))[i] = Tail(d)[i - 1] BY <4>0, <6>1, <6>3
              <7>2. i - 1 \in 1..(Len(d) - 1) /\ (i - 1) + 1 = i BY <4>0, <6>3
              <7> QED BY <4>0, <7>1, <7>2
            <6> QED BY <5>1, <6>1, <6>2, <6>3
          <5>3. \A x : ReleaseStep(x) # DeleteStep(o) BY DifferentSteps
          <5>4. \A i \in 1..Len(e) : i # 1 => e[i] # e[1] BY <4>1, <5>2, <5>3
          <5> QED BY <1>7, <4>1, <5>2, <5>4
        <4>3. CASE refs[o] # 1
          <5>1. e = Tail(d) BY <1>2, <1>9, <4>0, <4>3
          <5>2. \A i \in 1..Len(e) : i + 1 \in 1..Len(d) /\ i + 1 # 1 /\ e[i] = d[i + 1] BY <4>0, <5>1
          <5>3. \A i \in 1..Len(e) : \E x \in Observed : e[i] = ReleaseStep(x) BY <4>1, <5>2
          <5>4. ASSUME NEW i \in 1..Len(e), NEW j \in 1..Len(e), e[i] = e[j] PROVE i = j
            <6>1. i + 1 = j + 1 BY <1>7, <5>2, <5>4
            <6> QED BY <4>0, <5>1, <6>1
          <5> QED BY <5>3, <5>4
        <4> QED BY <4>2, <4>3
      <3>2. \A x : Has(e, ReleaseStep(x)) => Has(todo[t], ReleaseStep(x)) /\ x # o
        BY <1>10, <1>11, <1>13
      <3>3. Has(e, DeleteStep(Block)) => points[h] = Block
        <4>1. Has(e, DeleteStep(Block)) => Block = o BY <1>11, <1>13
        <4> QED BY <1>18, <1>3, <4>1
      <3>4. (\E x \in Observed : Has(e, ReleaseStep(x))) => points[h] = Block /\ life[Block] = "deleted"
        <4> SUFFICES ASSUME NEW x \in Observed, Has(e, ReleaseStep(x))
                     PROVE  points[h] = Block /\ life[Block] = "deleted"
          OBVIOUS
        <4>1. CASE points[h] # o BY <1>18, <4>1
        <4>2. CASE points[h] = o
          <5>1. x # o /\ Has(todo[t], ReleaseStep(x)) BY <3>2
          <5>2. RecordPending(t, x) BY <1>0, <4>2, <5>1 DEF RecordPending
          <5> QED BY <1>3, <1>18, <4>2, <5>2
        <4> QED BY <4>1, <4>2
      <3> QED BY <1>2, <3>1, <3>3, <3>4 DEF GivingUp, Deleting
    <2>3. Assigning(t, h)' BY <1>10, <2>1, <2>2 DEF Assigning
    <2> QED BY <1>0, <1>1, <1>2, <2>3 DEF Form
  <1>23. FormInv' BY <1>2, <1>21, <1>22, FormKept DEF OwnershipInv
  <1>24. \A u \in Threads \ {t}, x \in Objects : RecordPending(u, x)' <=> RecordPending(u, x)
    BY <1>21, OthersKeepRecords DEF OwnershipInv
  <1>25. RecordInv'
    <2>1. \A u \in Threads, x \in Objects : RecordPending(u, x)' => RecordPending(u, x)
      BY <1>17, <1>24
    <2> QED BY <1>2, <2>1 DEF OwnershipInv, RecordInv
  <1>26. LifeInv'
    <2>1. \A u \in Threads \ {t}, x \in Objects : Has(todo'[u], DeleteStep(x)) <=> Has(todo[u], DeleteStep(x))
      BY <1>21 DEF Local
    <2>2. \A u \in Threads : ~Has(todo[u], DeleteStep(o)) BY <1>7, <1>19 DEF OwnershipInv, LifeInv
    <2>3. \A x \in Objects : x # o => refs'[x] = refs[x] BY <1>3, <1>20
    <2>4. ASSUME NEW x \in Objects, x # o
          PROVE  /\ refs'[x] > 0 => life'[x] = "live"
                 /\ (life'[x] = "live" /\ refs'[x] = 0) <=> \E u \in Threads : Has(todo'[u], DeleteStep(x))
                 /\ \A u, v \in Threads : Has(todo'[u], DeleteStep(x)) /\ Has(todo'[v], DeleteStep(x)) => u = v
      <3>1. \A u \in Threads : Has(todo'[u], DeleteStep(x)) <=> Has(todo[u], DeleteStep(x))
        BY <1>13, <2>1, <2>4
      <3> QED BY <1>2, <2>3, <2>4, <3>1 DEF OwnershipInv, LifeInv
    <2>5. /\ refs'[o] > 0 => life'[o] = "live"
          /\ (life'[o] = "live" /\ refs'[o] = 0) <=> \E u \in Threads : Has(todo'[u], DeleteStep(o))
          /\ \A u, v \in Threads : Has(todo'[u], DeleteStep(o)) /\ Has(todo'[v], DeleteStep(o)) => u = v
      <3>1. \A u \in Threads : Has(todo'[u], DeleteStep(o)) <=> u = t /\ refs[o] = 1
        BY <1>7, <1>13, <2>1, <2>2
      <3>2. refs'[o] = 0 <=> refs[o] = 1 BY <1>3, <1>7, <1>20
      <3> QED BY <1>2, <1>19, <3>1, <3>2
    <2> QED BY <2>4, <2>5 DEF LifeInv
  <1>27. \A x \in Objects : x # o => (Recorded(x)' <=> Recorded(x))
    BY <1>2, <1>17, <1>24 DEF Recorded
  <1>28. /\ points[h] = o => (Recorded(o)' <=> Recorded(o))
         /\ points[h] # o => Recorded(o) /\ ~Recorded(o)'
    <2>1. CASE points[h] = o
      <3>1. \A u \in Threads : RecordPending(u, o)' <=> RecordPending(u, o)
        BY <1>7, <1>17, <1>18, <1>24, <2>1
      <3> QED BY <1>2, <2>1, <3>1 DEF Recorded
    <2>2. CASE points[h] # o
      <3>1. \A u \in Threads : RecordPending(u, o) => u = t
        BY <1>7, <1>18, <2>2 DEF OwnershipInv, RecordInv
      <3>2. \A u \in Threads : ~RecordPending(u, o)' BY <1>7, <1>17, <1>24, <3>1
      <3> QED BY <1>2, <1>18, <2>2, <3>2 DEF Recorded
    <2> QED BY <2>1, <2>2
  <1>29. RefInv'
    <2> SUFFICES ASSUME NEW x \in Objects
                 PROVE  refs'[x] = Cardinality(HoldersOf(x)') + Cardinality(AwaitersOf(x)')
                                     + (IF Recorded(x)' THEN 1 ELSE 0)
      BY DEF RefInv
    <2>1. \A g \in Handles \ {h} : points'[g] = points[g] /\ (owner[g] # t \/ (~Busy(g) /\ ~Busy(g)'))
      BY <1>0, <1>2 DEF Busy
    <2>2. /\ Cardinality(HoldersOf(x)) \in Nat /\ Cardinality(AwaitersOf(x)) \in Nat
          /\ Cardinality(HoldersOf(x)') = Cardinality(HoldersOf(x))
               + (IF Holds(h, x)' THEN 1 ELSE 0) - (IF Holds(h, x) THEN 1 ELSE 0)
          /\ Cardinality(AwaitersOf(x)') = Cardinality(AwaitersOf(x))
               + (IF Awaits(h, x)' THEN 1 ELSE 0) - (IF Awaits(h, x) THEN 1 ELSE 0)
      BY <1>1, <1>21, <2>1, OneHandleMoves DEF OwnershipInv
    <2>3. refs[x] = Cardinality(HoldersOf(x)) + Cardinality(AwaitersOf(x))
                      + (IF Recorded(x) THEN 1 ELSE 0)
      BY DEF OwnershipInv, RefInv
    <2>4. refs'[x] = refs[x] - (IF x = o THEN 1 ELSE 0) BY <1>3, <1>20
    <2>5. CASE x # o BY <1>17, <1>27, <2>2, <2>3, <2>4, <2>5
    <2>6. CASE x = o /\ points[h] = o BY <1>17, <1>18, <1>28, <2>2, <2>3, <2>4, <2>6
    <2>7. CASE x = o /\ points[h] # o BY <1>17, <1>18, <1>28, <2>2, <2>3, <2>4, <2>7
    <2> QED BY <2>5, <2>6, <2>7
  <1> QED BY <1>21, <1>23, <1>25, <1>26, <1>29 DEF OwnershipInv

LEMMA DeletesKeep ==
  ASSUME ConstantsAssumption, OwnershipInv, NEW t \in Threads, ~Idle(t), DoDelete(t)
  PROVE  OwnershipInv'
  <1>0. PICK h : h = writing[t] OBVIOUS
  <1>1. /\ h \in Handles /\ owner[h] = t
        /\ \/ \E o \in Objects : Copying(t, h, o)
           \/ Assignment(t, h, todo[t])
           \/ Moved(t, h)
           \/ \E d, r \in Seq(Steps) :
                d # <<>> /\ GivingUp(d, h) /\ Assignment(t, h, r) /\ todo[t] = d \o r
    BY <1>0, Ahead
  <1> DEFINE Records == [i \in 1..Cardinality(Observed) |-> ReleaseStep(SetToSeq(Observed)[i])]
  <1>2. PICK o, steps :
          /\ o = Head(todo[t]).object /\ Head(todo[t]).op = "delete"
          /\ steps = (IF o = Block THEN Records ELSE <<>>)
          /\ life' = [life EXCEPT ![o] = IF @ = "live" THEN "deleted" ELSE "deletedTwice"]
          /\ todo' = [todo EXCEPT ![t] = steps \o Tail(todo[t])]
          /\ UNCHANGED <<owner, points, refs, writing>>
    BY DEF DoDelete, Then, Rest, ReleaseStep
  <1>3. /\ todo \in [Threads -> Seq(Steps)] /\ owner \in [Handles -> Threads]
        /\ points \in [Handles -> Objects \cup {None}] /\ refs \in [Objects -> Nat]
        /\ life \in [Objects -> {"unused", "live", "deleted"}]
        /\ writing \in [Threads -> Handles \cup {None}] /\ None \notin Objects
        /\ Block \notin Observed /\ Observed \subseteq Objects /\ Block \in Objects
    BY DEF OwnershipInv, TypeInv, ConstantsAssumption, Objects
  <1>4. PICK d \in Seq(Steps), r \in Seq(Steps) :
          d # <<>> /\ GivingUp(d, h) /\ Assignment(t, h, r) /\ todo[t] = d \o r
    <2>1. ASSUME Assignment(t, h, todo[t]) PROVE FALSE
      <3>1. \A g, x, y : Head(<<SetStep(g, x)>>).op = "set" /\ Head(<<SetStep(g, x), y>>).op = "set"
        BY TailFacts, DifferentSteps
      <3> QED BY <1>2, <2>1, <3>1 DEF Assignment
    <2>2. ASSUME Moved(t, h) PROVE FALSE
      <3>1. \A g, x : Head(<<SetStep(g, x)>>).op = "set" BY TailFacts, DifferentSteps
      <3> QED BY <1>2, <2>2, <3>1 DEF Moved
    <2>3. ASSUME NEW x \in Objects, Copying(t, h, x) PROVE FALSE
      <3>1. \A y, z : /\ Head(<<SetStep(h, x), y>>).op = "set" /\ Head(<<RetainStep(x)>>).op = "retain"
                      /\ Head(<<RetainStep(x), y>>).op = "retain" /\ Head(<<RetainStep(x), y, z>>).op = "retain"
        BY TailFacts, DifferentSteps
      <3> QED BY <1>2, <2>3, <3>1 DEF Copying
    <2> QED BY <1>1, <2>1, <2>2, <2>3
  <1>5. /\ r # <<>>
        /\ \A x : ~Has(r, ReleaseStep(x)) /\ ~Has(r, DeleteStep(x)) /\ ~Has(r, RetainStep(x))
    BY <1>4, AssignmentFacts
  <1>6. 1 \in 1..Len(d) /\ Head(todo[t]) = d[1] /\ DOMAIN d = 1..Len(d) BY <1>3, <1>4, Regroup
  <1>7. Deleting(d, h) /\ o \in Objects /\ d[1] = DeleteStep(o)
    <2>1. \A x : /\ ReleaseStep(x).op # "delete" /\ DeleteStep(x).object = x BY DifferentSteps
    <2>2. Deleting(d, h)
      <3>1. d # <<ReleaseStep(points[h])>> BY <1>2, <1>6, <2>1
      <3> QED BY <1>4, <3>1 DEF GivingUp
    <2>3. PICK x \in Objects : d[1] = DeleteStep(x)
      <3>1. (\E x \in Observed : d[1] = ReleaseStep(x)) \/ \E x \in Objects : d[1] = DeleteStep(x)
        BY <1>6, <2>2 DEF Deleting
      <3> QED BY <1>2, <1>6, <2>1, <3>1
    <2>4. o = x BY <1>2, <1>6, <2>1, <2>3
    <2> QED BY <2>2, <2>3, <2>4
  \* The steps before the assignment but the first are releases of records.
  <1>8. /\ \A i \in 1..Len(d) : i # 1 => \E x \in Observed : d[i] = ReleaseStep(x)
        /\ \A i, j \in 1..Len(d) : d[i] = d[j] => i = j
    BY <1>7 DEF Deleting
  <1>9. /\ \A x : Has(d, DeleteStep(x)) <=> x = o
        /\ \A x : Has(d, ReleaseStep(x)) => x \in Observed
        /\ \A x, g : ~Has(d, RetainStep(x)) /\ ~Has(d, SetStep(g, x))
    <2>1. Has(d, DeleteStep(o)) BY <1>6, <1>7 DEF Has
    <2>2. ASSUME NEW y, Has(d, y) PROVE y = DeleteStep(o) \/ \E x \in Observed : y = ReleaseStep(x)
      BY <1>6, <1>7, <1>8, <2>2 DEF Has
    <2>3. ASSUME NEW x, Has(d, DeleteStep(x)) PROVE x = o
      BY <2>2, <2>3 DEF DeleteStep, ReleaseStep, Step
    <2>4. ASSUME NEW x, Has(d, ReleaseStep(x)) PROVE x \in Observed
      BY <2>2, <2>4 DEF DeleteStep, ReleaseStep, Step
    <2>5. ASSUME NEW x, NEW g PROVE ~Has(d, RetainStep(x)) /\ ~Has(d, SetStep(g, x))
      BY <2>2 DEF DeleteStep, ReleaseStep, RetainStep, SetStep, Step
    <2> QED BY <2>1, <2>3, <2>4, <2>5
  <1>10. /\ life[o] = "live" /\ refs[o] = 0
         /\ \A u \in Threads : Has(todo[u], DeleteStep(o)) => u = t
         /\ Has(todo[t], DeleteStep(o))
    <2>1. Has(todo[t], DeleteStep(o)) BY <1>4, <1>9, HasConcat
    <2> QED BY <1>7, <2>1 DEF OwnershipInv, LifeInv
  <1>11. o = Block => /\ points[h] = Block /\ Tail(d) = <<>>
                      /\ \A u \in Threads, x \in Objects : ~RecordPending(u, x)
    <2> SUFFICES ASSUME o = Block
                 PROVE  /\ points[h] = Block /\ Tail(d) = <<>>
                        /\ \A u \in Threads, x \in Objects : ~RecordPending(u, x)
      OBVIOUS
    <2>1. points[h] = Block BY <1>7, <1>9 DEF Deleting
    <2>2. \A x \in Observed : ~Has(d, ReleaseStep(x)) BY <1>7, <1>10 DEF Deleting
    <2>3. \A i \in 1..Len(d) : i = 1 BY <1>6, <1>8, <2>2 DEF Has
    <2>4. Len(d) = 1
      <3>1. Len(d) \in Nat /\ Len(d) >= 1 /\ Len(d) \in 1..Len(d) BY <1>6
      <3> QED BY <2>3, <3>1
    <2>5. Tail(d) = <<>>
      <3>1. Tail(d) \in Seq(Steps) /\ Len(Tail(d)) = 0 BY <1>4, <2>4, Regroup
      <3>2. \A q \in Seq(Steps) : Len(q) = 0 => q = <<>> OBVIOUS
      <3> QED BY <3>1, <3>2
    <2>6. \A u \in Threads, x \in Objects : ~RecordPending(u, x)
      BY <1>10 DEF OwnershipInv, RecordInv
    <2> QED BY <2>1, <2>5, <2>6
  <1>12. /\ Records \in Seq(Steps) /\ Len(Records) = Cardinality(Observed)
         /\ \A i \in 1..Len(Records) : \E x \in Observed : Records[i] = ReleaseStep(x)
         /\ \A i, j \in 1..Len(Records) : Records[i] = Records[j] => i = j
         /\ \A x : Has(Records, ReleaseStep(x)) <=> x \in Observed
         /\ \A x, g : ~Has(Records, DeleteStep(x)) /\ ~Has(Records, RetainStep(x)) /\ ~Has(Records, SetStep(g, x))
    <2> DEFINE n == Cardinality(Observed)
               f == SetToSeq(Observed)
    <2>1. /\ n \in Nat /\ \A i \in 1..n : f[i] \in Observed
          /\ \A i, j \in 1..n : f[i] = f[j] => i = j
          /\ \A x \in Observed : \E i \in 1..n : f[i] = x
      BY RecordFacts
    <2> HIDE DEF n, f
    <2>2. PICK R : R = [i \in 1..n |-> ReleaseStep(f[i])] OBVIOUS
    <2>3. \A x \in Observed : ReleaseStep(x) \in Steps BY <1>1, <1>3, Lists
    <2>4. R \in Seq(Steps) /\ Len(R) = n /\ DOMAIN R = 1..n /\ \A i \in 1..n : R[i] = ReleaseStep(f[i])
      BY <2>1, <2>2, <2>3
    <2>5. \A x, y : ReleaseStep(x) = ReleaseStep(y) <=> x = y BY DEF ReleaseStep, Step
    <2>6. \A x, y, g : ReleaseStep(x) # DeleteStep(y) /\ ReleaseStep(x) # RetainStep(y) /\ ReleaseStep(x) # SetStep(g, y)
      BY DEF ReleaseStep, DeleteStep, RetainStep, SetStep, Step
    <2>7. \A i \in 1..Len(R) : \E x \in Observed : R[i] = ReleaseStep(x) BY <2>1, <2>4
    <2>8. \A i, j \in 1..Len(R) : R[i] = R[j] => i = j BY <2>1, <2>4, <2>5
    <2>9. \A x : Has(R, ReleaseStep(x)) <=> x \in Observed BY <2>1, <2>4, <2>5 DEF Has
    <2>10. \A x, g : ~Has(R, DeleteStep(x)) /\ ~Has(R, RetainStep(x)) /\ ~Has(R, SetStep(g, x))
      BY <2>4, <2>6 DEF Has
    <2>11. Records = R BY <2>2 DEF n, f
    <2> QED BY <2>4, <2>7, <2>8, <2>9, <2>10, <2>11 DEF n
  <1> HIDE DEF Records
  <1>13. steps \in Seq(Steps) /\ <<>> \in Seq(Steps) BY <1>2, <1>12
  <1>14. PICK e \in Seq(Steps) :
           /\ e = (IF o = Block THEN Records ELSE Tail(d)) /\ todo' = [todo EXCEPT ![t] = e \o r]
    <2>1. steps \o Tail(d \o r) = (steps \o Tail(d)) \o r /\ Tail(d) \in Seq(Steps)
      BY <1>4, <1>13, Regroup, SMTT(30)
    <2>2. CASE o = Block
      <3>2. \A q \in Seq(Steps) : q \o <<>> = q OBVIOUS
      <3>1. steps \o Tail(d) = Records BY <1>2, <1>11, <1>13, <2>2, <3>2
      <3> QED BY <1>2, <1>4, <1>12, <2>1, <2>2, <3>1
    <2>3. CASE o # Block
      <3>1. steps \o Tail(d) = Tail(d) BY <1>2, <1>13, <2>1, <2>3
      <3> QED BY <1>2, <1>4, <2>1, <2>3, <3>1
    <2> QED BY <2>2, <2>3
  <1>15. e \o r \in Seq(Steps) /\ e \o r # <<>> /\ todo'[t] = e \o r
    <2>1. e \o r \in Seq(Steps) /\ e \o r # <<>> BY <1>5
    <2> QED BY <1>3, <1>14, <2>1
  <1>16. /\ \A y : Has(todo[t], y) <=> Has(d, y) \/ Has(r, y)
         /\ \A y : Has(todo'[t], y) <=> Has(e, y) \/ Has(r, y)
         /\ \A y : o # Block => (Has(e, y) <=> Has(d, y) /\ y # DeleteStep(o))
    <2>1. \A y : Has(d \o r, y) <=> Has(d, y) \/ Has(r, y) BY HasConcat
    <2>2. \A y : Has(e \o r, y) <=> Has(e, y) \/ Has(r, y) BY HasConcat
    <2>3. \A y : Has(Tail(d), y) <=> Has(d, y) /\ y # d[1] BY <1>4, <1>8, TailHas
    <2> QED BY <1>4, <1>7, <1>14, <1>15, <2>1, <2>2, <2>3
  <1>17. \A x : /\ Has(todo[t], DeleteStep(x)) <=> x = o
                /\ ~Has(todo'[t], DeleteStep(x))
                /\ ~Has(todo[t], RetainStep(x)) /\ ~Has(todo'[t], RetainStep(x))
                /\ \A g : Has(todo'[t], SetStep(g, x)) <=> Has(todo[t], SetStep(g, x))
                /\ o # Block => (Has(todo'[t], ReleaseStep(x)) <=> Has(todo[t], ReleaseStep(x)))
                /\ o = Block => (Has(todo'[t], ReleaseStep(x)) <=> x \in Observed)
    <2> TAKE x
    <2>0. Has(todo[t], DeleteStep(x)) <=> x = o BY <1>5, <1>9, <1>16
    <2>3. ~Has(todo[t], RetainStep(x)) BY <1>5, <1>9, <1>16
    <2>1. CASE o = Block
      <3>1. e = Records BY <1>14, <2>1
      <3>2. /\ ~Has(e, DeleteStep(x)) /\ ~Has(e, RetainStep(x)) /\ \A g : ~Has(e, SetStep(g, x))
            /\ Has(e, ReleaseStep(x)) <=> x \in Observed
        BY <1>12, <3>1
      <3>3. \A g : Has(todo'[t], SetStep(g, x)) <=> Has(todo[t], SetStep(g, x))
        BY <1>9, <1>16, <3>2
      <3> QED BY <1>5, <1>16, <2>0, <2>1, <2>3, <3>2, <3>3
    <2>2. CASE o # Block
      <3>1. \A g : SetStep(g, x) # DeleteStep(o) /\ ReleaseStep(x) # DeleteStep(o) BY DifferentSteps
      <3>2. ~Has(todo'[t], DeleteStep(x)) BY <1>5, <1>9, <1>16, <2>2
      <3>4. ~Has(todo'[t], RetainStep(x)) BY <1>5, <1>9, <1>16, <2>2
      <3>5. \A g : Has(todo'[t], SetStep(g, x)) <=> Has(todo[t], SetStep(g, x))
        BY <1>16, <2>2, <3>1
      <3>6. Has(todo'[t], ReleaseStep(x)) <=> Has(todo[t], ReleaseStep(x)) BY <1>16, <2>2, <3>1
      <3> QED BY <2>0, <2>2, <2>3, <3>2, <3>4, <3>5, <3>6
    <2> QED BY <2>1, <2>2
  <1>18. Busy(h) BY <1>0, <1>1 DEF Busy
  <1>19. Busy(h)' BY <1>0, <1>1, <1>2, <1>15 DEF Busy, Idle
  <1>20. ASSUME NEW x \in Objects
         PROVE  (Awaits(h, x)' <=> Awaits(h, x)) /\ (Holds(h, x)' <=> Holds(h, x))
    <2>1. owner'[h] = t /\ owner[h] = t BY <1>1, <1>2
    <2>2. Awaits(h, x)' <=> Awaits(h, x) BY <1>17, <1>18, <1>19, <2>1 DEF Awaits
    <2>3. CASE o # Block BY <1>2, <1>17, <1>18, <1>19, <2>1, <2>2, <2>3 DEF Holds
    <2>4. CASE o = Block
      <3>1. points[h] = Block /\ points'[h] = Block BY <1>2, <1>11, <2>4
      <3>2. ~Has(todo[t], ReleaseStep(Block)) BY <1>3, <1>5, <1>9, <1>16
      <3>3. ~Has(todo'[t], ReleaseStep(Block)) BY <1>3, <1>17, <2>4
      <3>4. ~Holds(h, x) BY <1>18, <2>1, <3>1, <3>2 DEF Holds
      <3>5. ~Holds(h, x)' BY <1>19, <2>1, <3>1, <3>3 DEF Holds
      <3> QED BY <2>2, <3>4, <3>5
    <2> QED BY <2>3, <2>4
  <1>21. life' = [life EXCEPT ![o] = "deleted"] /\ life'[o] = "deleted" BY <1>2, <1>3, <1>7, <1>10
  <1>22. TypeInv' /\ Local(t)
    <2>1. todo' \in [Threads -> Seq(Steps)] BY <1>3, <1>14, <1>15
    <2>2. life' \in [Objects -> {"unused", "live", "deleted"}] BY <1>3, <1>7, <1>21
    <2>3. TypeInv' BY <1>2, <2>1, <2>2 DEF OwnershipInv, TypeInv
    <2> QED BY <1>2, <1>3, <1>14, <2>3 DEF Local
  <1>23. life[Block] = "deleted" => life'[Block] = "deleted" BY <1>3, <1>7, <1>21
  <1>24. (Idle(t) \/ Form(t, writing[t]))'
    <2>1. Assignment(t, h, r)' BY <1>2, <1>4 DEF Assignment
    <2>2. Deleting(e, h)'
      <3>1. CASE o = Block
        <4>1. e = Records BY <1>14, <3>1
        <4>2. points'[h] = Block /\ life'[Block] = "deleted" BY <1>2, <1>11, <1>21, <3>1
        <4> QED BY <1>12, <4>1, <4>2 DEF Deleting
      <3>2. CASE o # Block
        <4>0. /\ e = Tail(d) /\ Len(e) = Len(d) - 1 /\ Len(d) \in Nat
              /\ \A i \in 1..(Len(d) - 1) : e[i] = d[i + 1]
          BY <1>4, <1>14, <3>2, Regroup
        <4>1. \A i \in 1..Len(e) : i + 1 \in 1..Len(d) /\ i + 1 # 1 /\ e[i] = d[i + 1] BY <4>0
        <4>2. \A i \in 1..Len(e) : \E x \in Observed : e[i] = ReleaseStep(x) BY <1>8, <4>1
        <4>3. ASSUME NEW i \in 1..Len(e), NEW j \in 1..Len(e), e[i] = e[j] PROVE i = j
          <5>1. i + 1 = j + 1 BY <1>8, <4>1, <4>3
          <5> QED BY <4>0, <5>1
        <4>4. ~Has(e, DeleteStep(Block)) BY <1>16, <1>17
        <4>5. (\E x \in Observed : Has(e, ReleaseStep(x))) => points[h] = Block /\ life[Block] = "deleted"
          BY <1>7, <1>16, <3>2 DEF Deleting
        <4> QED BY <1>2, <1>23, <4>2, <4>3, <4>4, <4>5 DEF Deleting
      <3> QED BY <3>1, <3>2
    <2>4. GivingUp(e, h)' BY <2>2 DEF GivingUp
    <2>3. Assigning(t, h)' BY <1>15, <2>1, <2>4 DEF Assigning
    <2> QED BY <1>0, <1>1, <1>2, <2>3 DEF Form
  <1>25. FormInv' BY <1>22, <1>23, <1>24, FormKept DEF OwnershipInv
  <1>26. \A u \in Threads \ {t}, x \in Objects : RecordPending(u, x)' <=> RecordPending(u, x)
    BY <1>22, OthersKeepRecords DEF OwnershipInv
  <1>27. /\ o # Block => \A x \in Objects : RecordPending(t, x)' <=> RecordPending(t, x)
         /\ o = Block => \A x \in Objects : RecordPending(t, x)' <=> x \in Observed
    <2>1. CASE o # Block BY <1>2, <1>17, <2>1 DEF RecordPending
    <2>2. CASE o = Block BY <1>0, <1>2, <1>3, <1>11, <1>17, <2>2 DEF RecordPending
    <2> QED BY <2>1, <2>2
  <1>28. RecordInv'
    <2>1. CASE o # Block BY <1>23, <1>26, <1>27, <2>1 DEF OwnershipInv, RecordInv
    <2>2. CASE o = Block BY <1>11, <1>21, <1>26, <1>27, <2>2 DEF RecordInv
    <2> QED BY <2>1, <2>2
  <1>29. \A x \in Objects : Recorded(x)' <=> Recorded(x)
    <2>1. CASE o # Block
      <3>1. life'[Block] = life[Block] BY <1>3, <1>7, <1>21, <2>1
      <3> QED BY <1>26, <1>27, <2>1, <3>1 DEF Recorded
    <2>2. CASE o = Block BY <1>10, <1>27, <2>2 DEF Recorded
    <2> QED BY <2>1, <2>2
  <1>30. RefInv'
    <2> SUFFICES ASSUME NEW x \in Objects
                 PROVE  refs'[x] = Cardinality(HoldersOf(x)') + Cardinality(AwaitersOf(x)')
                                     + (IF Recorded(x)' THEN 1 ELSE 0)
      BY DEF RefInv
    <2>1. \A g \in Handles \ {h} : points'[g] = points[g] /\ (owner[g] # t \/ (~Busy(g) /\ ~Busy(g)'))
      BY <1>0, <1>2 DEF Busy
    <2>2. /\ Cardinality(HoldersOf(x)) \in Nat /\ Cardinality(AwaitersOf(x)) \in Nat
          /\ Cardinality(HoldersOf(x)') = Cardinality(HoldersOf(x))
               + (IF Holds(h, x)' THEN 1 ELSE 0) - (IF Holds(h, x) THEN 1 ELSE 0)
          /\ Cardinality(AwaitersOf(x)') = Cardinality(AwaitersOf(x))
               + (IF Awaits(h, x)' THEN 1 ELSE 0) - (IF Awaits(h, x) THEN 1 ELSE 0)
      BY <1>1, <1>22, <2>1, OneHandleMoves DEF OwnershipInv
    <2>3. refs[x] = Cardinality(HoldersOf(x)) + Cardinality(AwaitersOf(x))
                      + (IF Recorded(x) THEN 1 ELSE 0)
      BY DEF OwnershipInv, RefInv
    <2> QED BY <1>2, <1>20, <1>29, <2>2, <2>3, SMTT(30)
  <1>31. LifeInv'
    <2>1. \A u \in Threads \ {t}, x \in Objects : Has(todo'[u], DeleteStep(x)) <=> Has(todo[u], DeleteStep(x))
      BY <1>22 DEF Local
    <2>2. \A u \in Threads : ~Has(todo'[u], DeleteStep(o)) BY <1>7, <1>10, <1>17, <2>1
    <2>3. ASSUME NEW x \in Objects, x # o
          PROVE  /\ refs'[x] > 0 => life'[x] = "live"
                 /\ (life'[x] = "live" /\ refs'[x] = 0) <=> \E u \in Threads : Has(todo'[u], DeleteStep(x))
                 /\ \A u, v \in Threads : Has(todo'[u], DeleteStep(x)) /\ Has(todo'[v], DeleteStep(x)) => u = v
      <3>1. \A u \in Threads : Has(todo'[u], DeleteStep(x)) <=> Has(todo[u], DeleteStep(x))
        BY <1>17, <2>1, <2>3
      <3>2. life'[x] = life[x] /\ refs'[x] = refs[x] BY <1>2, <1>3, <1>21, <2>3
      <3> QED BY <2>3, <3>1, <3>2 DEF OwnershipInv, LifeInv
    <2>4. /\ ~(refs'[o] > 0) /\ life'[o] # "live" BY <1>2, <1>10, <1>21
    <2> QED BY <2>2, <2>3, <2>4 DEF LifeInv
  <1> QED BY <1>22, <1>25, <1>28, <1>30, <1>31 DEF OwnershipInv

------------------------------------------------------------------------------
LEMMA InitOwnership == ASSUME ConstantsAssumption, Init PROVE OwnershipInv
  <1>1. PICK h \in BlockHandles, t \in Threads :
          /\ owner = [g \in Handles |-> t]
          /\ points = [g \in Handles |-> IF g = h THEN Block ELSE None]
    BY DEF Init
  <1>2. /\ refs = [o \in Objects |-> IF o = Block \/ o \in Observed THEN 1 ELSE 0]
        /\ life = [o \in Objects |-> IF o = Block \/ o \in Observed THEN "live" ELSE "unused"]
        /\ todo = [u \in Threads |-> <<>>] /\ writing = [u \in Threads |-> None]
        /\ h \in Handles /\ Block \in Objects /\ None \notin Objects
        /\ Block \notin Observed /\ Observed \subseteq Objects
    BY DEF Init, Handles, Objects, ConstantsAssumption
  <1>3. TypeInv
    <2>1. \A g \in Handles : Kind(g, points[g]) BY <1>1, <1>2 DEF Kind
    <2>2. <<>> \in Seq(Steps) OBVIOUS
    <2> QED BY <1>1, <1>2, <2>1, <2>2 DEF TypeInv
  <1>4. FormInv BY <1>2 DEF FormInv, Idle
  <1>5. \A u \in Threads : \A x : ~Has(todo[u], x) BY <1>2, HasNothing
  <1>6. \A u \in Threads, o \in Objects : ~RecordPending(u, o) BY <1>5 DEF RecordPending
  <1>7. RecordInv BY <1>6 DEF RecordInv
  <1>8. LifeInv BY <1>2, <1>5 DEF LifeInv
  <1>9. RefInv
    <2> SUFFICES ASSUME NEW o \in Objects
                 PROVE  refs[o] = Cardinality(HoldersOf(o)) + Cardinality(AwaitersOf(o))
                                    + (IF Recorded(o) THEN 1 ELSE 0)
      BY DEF RefInv
    <2>1. \A g \in Handles : ~Busy(g) BY <1>1, <1>2 DEF Busy, Idle
    <2>2. AwaitersOf(o) = {} BY <2>1 DEF AwaitersOf, Awaits
    <2>3. HoldersOf(o) = {g \in Handles : points[g] = o} BY <2>1 DEF HoldersOf, Holds
    <2>4. HoldersOf(o) = IF o = Block THEN {h} ELSE {}
      BY <1>1, <1>2, <2>3
    <2>5. Cardinality({h}) = 1 BY FS_Singleton
    <2>6. Recorded(o) <=> o \in Observed BY <1>2, <1>6 DEF Recorded
    <2> QED BY <1>2, <2>2, <2>4, <2>5, <2>6, FS_EmptySet
  <1> QED BY <1>3, <1>4, <1>7, <1>8, <1>9 DEF OwnershipInv

LEMMA NextOwnership == ASSUME ConstantsAssumption, OwnershipInv, [Next]_vars PROVE OwnershipInv'
  <1>1. CASE UNCHANGED vars
    <2>1. UNCHANGED <<owner, points, refs, life, todo, writing>> BY <1>1 DEF vars
    <2>2. TypeInv' BY <2>1 DEF OwnershipInv, TypeInv
    <2>3. \A u \in Threads : (Idle(u) \/ Form(u, writing[u]))'
      BY <2>1, OthersKeepForm DEF OwnershipInv
    <2>4. FormInv' BY <2>3 DEF FormInv
    <2>5. \A u \in Threads, o \in Objects : RecordPending(u, o)' <=> RecordPending(u, o)
      BY <2>1 DEF RecordPending
    <2>6. RecordInv' BY <2>1, <2>5 DEF OwnershipInv, RecordInv
    <2>7. LifeInv' BY <2>1 DEF OwnershipInv, LifeInv
    <2>8. \A g \in Handles, o \in Objects : (Holds(g, o)' <=> Holds(g, o)) /\ (Awaits(g, o)' <=> Awaits(g, o))
      BY <2>1 DEF Holds, Awaits, Busy, Idle
    <2>10. ASSUME NEW o \in Objects
           PROVE  refs'[o] = Cardinality(HoldersOf(o)') + Cardinality(AwaitersOf(o)')
                               + (IF Recorded(o)' THEN 1 ELSE 0)
      <3>1. refs[o] = Cardinality(HoldersOf(o)) + Cardinality(AwaitersOf(o)) + (IF Recorded(o) THEN 1 ELSE 0)
        BY DEF OwnershipInv, RefInv
      <3>2. HoldersOf(o)' = HoldersOf(o) /\ AwaitersOf(o)' = AwaitersOf(o)
        BY <2>8 DEF HoldersOf, AwaitersOf
      <3>5. Recorded(o)' <=> Recorded(o) BY <2>1, <2>5 DEF Recorded
      <3>3. refs'[o] = refs[o] BY <2>1
      <3>4. /\ Cardinality(HoldersOf(o)') = Cardinality(HoldersOf(o))
            /\ Cardinality(AwaitersOf(o)') = Cardinality(AwaitersOf(o))
        BY <3>2
      <3> QED BY <3>1, <3>3, <3>4, <3>5
    <2>11. RefInv' BY <2>10 DEF RefInv
    <2> QED BY <2>2, <2>4, <2>6, <2>7, <2>11 DEF OwnershipInv
  <1>2. ASSUME NEW h \in Handles, NEW g \in Handles,
               CopyConstruct(h, g) \/ CopyAssign(h, g) \/ MoveAssign(h, g)
        PROVE  OwnershipInv'
    BY <1>2, BeginsKeep
  <1>3. ASSUME NEW h \in Handles, Destroy(h) \/ \E u \in Threads : Transfer(h, u)
        PROVE  OwnershipInv'
    BY <1>3, BeginsKeep, TransferKeeps
  <1>4. ASSUME NEW h \in Handles, NEW g \in Handles, NEW o \in Storages, CopyOut(h, g, o)
        PROVE  OwnershipInv'
    BY <1>4, BeginsKeep
  <1>5. ASSUME NEW h \in Handles, NEW o \in Storages, Allocate(h, o) PROVE OwnershipInv'
    BY <1>5, AllocateKeeps
  <1>6. ASSUME NEW t \in Threads, Continue(t) PROVE OwnershipInv'
    <2>1. ~Idle(t) BY <1>6 DEF Continue, Idle
    <2> QED BY <1>6, <2>1, SetsKeep, RetainsKeep, ReleasesKeep, DeletesKeep DEF Continue
  <1> QED BY <1>1, <1>2, <1>3, <1>4, <1>5, <1>6 DEF Next

\* What a value, an observation or a result points to lives as long as it does,
\* whatever the order in which threads copy, move, assign and give up their
\* handles; the last of them deletes it, once.
THEOREM OwnershipIsCounted ==
  ASSUME ConstantsAssumption
  PROVE  Spec => [](OwnedIsAlive /\ DeletedOnce /\ NothingLeaks)
  <1>1. Init => OwnershipInv BY InitOwnership
  <1>2. OwnershipInv /\ [Next]_vars => OwnershipInv' BY NextOwnership
  <1>3. OwnershipInv => OwnedIsAlive
    <2> SUFFICES ASSUME OwnershipInv, NEW h \in Readable, ~Null(points[h])
                 PROVE  /\ life[points[h]] = "live"
                        /\ points[h] = Block => \A o \in Observed : life[o] = "live"
      BY DEF OwnedIsAlive
    <2>1. h \in Handles /\ points[h] \in Objects /\ Holds(h, points[h])
      BY DEF Readable, Null, OwnershipInv, TypeInv, Holds, Busy
    <2>2. life[points[h]] = "live" BY <2>1, HeldIsAlive
    <2>3. ASSUME points[h] = Block, NEW o \in Observed PROVE life[o] = "live"
      <3>1. Recorded(o) /\ o \in Objects BY <2>2, <2>3 DEF Recorded, ConstantsAssumption, Objects
      <3> QED BY <3>1, HeldIsAlive
    <2> QED BY <2>2, <2>3
  <1>4. OwnershipInv => DeletedOnce BY DEF OwnershipInv, TypeInv, DeletedOnce
  <1>5. OwnershipInv => NothingLeaks
    <2> SUFFICES ASSUME OwnershipInv, \A t \in Threads : Idle(t), NEW o \in Objects, life[o] = "live"
                 PROVE  (\E h \in Handles : points[h] = o) \/ (o \in Observed /\ life[Block] = "live")
      BY DEF NothingLeaks
    <2>1. \A t \in Threads : \A x : ~Has(todo[t], x) BY HasNothing DEF Idle
    <2>2. refs[o] \in Nat /\ refs[o] # 0 BY <2>1 DEF OwnershipInv, LifeInv, TypeInv
    <2>3. /\ Cardinality(HoldersOf(o)) = 0 <=> HoldersOf(o) = {}
          /\ Cardinality(AwaitersOf(o)) = 0 <=> AwaitersOf(o) = {}
      BY Member DEF HoldersOf, AwaitersOf
    <2>4. AwaitersOf(o) = {} BY DEF AwaitersOf, Awaits, Busy, OwnershipInv, TypeInv
    <2>5. HoldersOf(o) # {} \/ Recorded(o)
      BY <2>2, <2>3, <2>4 DEF OwnershipInv, RefInv
    <2>6. CASE HoldersOf(o) # {} BY <2>6 DEF HoldersOf, Holds
    <2>7. CASE Recorded(o) BY <2>1, <2>7 DEF Recorded, RecordPending
    <2> QED BY <2>5, <2>6, <2>7
  <1> QED BY <1>1, <1>2, <1>3, <1>4, <1>5, PTL DEF Spec
==============================================================================
