------------------------------ MODULE HostInputs ------------------------------
(***************************************************************************)
(* How the inputs of a host program become evidence: Clang parses through  *)
(* a file system that records each lookup, the records are checked against  *)
(* the disk again and frozen, Clang parses again from the frozen records,   *)
(* and the disk is checked a last time.  Somebody else edits the disk all   *)
(* the while.  A file is its identity, its write time and its bytes; size,  *)
(* owner and permissions belong to the write time here.                    *)
(***************************************************************************)
EXTENDS Naturals, FiniteSets

CONSTANTS
  Files,      \* files of the searched directory, the main source among them
  Main,       \* the main source
  Missing,    \* the files that are absent at first
  Directory,  \* the searched directory, which is the resource directory too
  Binaries,   \* the configured compiler and its loaded runtime
  Owned,      \* compiler-owned virtual files
  OwnedRoot,  \* their virtual directory
  None,
  Asked,      \* kinds of lookup Clang makes
  kMaximumQueries,
  MaxEdits,   \* edits of the disk by somebody else
  MaxAsks     \* lookups Clang makes in one parse

Kinds == {"status", "open", "directory", "realpath", "local"}
Virtual == Owned \cup (IF Owned = {} THEN {} ELSE {OwnedRoot})
Inputs == Files \cup {Directory} \cup Virtual
Disk == Inputs \cup Binaries

ConstantsAssumption ==
  /\ Main \in Files /\ Missing \subseteq Files \ {Main}
  /\ Asked \subseteq Kinds /\ kMaximumQueries \in Nat /\ MaxEdits \in Nat /\ MaxAsks \in Nat
  /\ Directory \notin Files /\ Virtual \cap (Files \cup {Directory}) = {}
  /\ Binaries \cap Inputs = {}

VARIABLES
  world,    \* the disk: [id, time, bytes] of every path, id 0 when absent
  fresh,    \* identities, write times and bytes are never used twice
  edits, poisoned, \* edits made; a compiler control variable is set
  pc,       \* configure, prepare, source, parse, recheck, replay, compare, issued, refused
  look,     \* the observation being made: [kind, path, step, snapshot, file]
  records,  \* Records: answer for each kind and path, or None
  binary,   \* BinaryInput of each configured binary, or None
  error,    \* records.error is set
  asks,     \* lookups made in this parse
  todo,     \* records recordsUnchanged has still to compare
  sealed,   \* freeze returned a snapshot
  issued,   \* evidence exists
  audit,    \* HostInputReplay::Audit::error is set
  answers,  \* what the first parse was told
  replayed, \* what replays were told
  moment    \* the disk when the last successful recheck began

disk == <<world, fresh, edits, poisoned>>
history == <<answers, replayed, moment>>
vars == <<disk, pc, look, records, binary, error, asks, todo, sealed, issued, audit, history>>

NoFile == [id |-> 0, time |-> 0, bytes |-> 0]
Idle == [kind |-> None, path |-> None, step |-> "idle", snapshot |-> None, file |-> None]
Parent(p) == IF p \in Files THEN Directory ELSE p

------------------------------------------------------------------------------
(* The disk and somebody who edits it. *)

\* capture_file_snapshot_v1, and absentAncestors for a path that is absent
Snapshot(p) == [id |-> world[p].id, time |-> world[p].time, parent |-> world[Parent(p)].id]
\* physical status
Status(p) == [id |-> world[p].id, time |-> world[p].time]
Entries == {f \in Files : world[f].id # 0}
\* Read through a descriptor: the file opened, whatever its name means now.
BytesOf(file, p) == IF world[p].id = file.id THEN world[p].bytes ELSE file.bytes

Edit(changed) ==
  /\ edits < MaxEdits /\ edits' = edits + 1 /\ fresh' = fresh + 1
  /\ world' = changed
  /\ UNCHANGED <<poisoned, pc, look, records, binary, error, asks, todo, sealed, issued, audit, history>>

Entry(changed, p) == \* an entry of the directory was made or removed
  IF p \in Files THEN [changed EXCEPT ![Directory].time = fresh] ELSE changed

Write(p) == /\ world[p].id # 0 /\ p # Directory
            /\ Edit([world EXCEPT ![p].time = fresh, ![p].bytes = fresh])
\* The same size, within one tick of the clock.
QuietWrite(p) == /\ world[p].id # 0 /\ p # Directory
                 /\ Edit([world EXCEPT ![p].bytes = fresh])
Replace(p) == /\ p # Directory
              /\ Edit(Entry([world EXCEPT ![p] = [id |-> fresh, time |-> fresh, bytes |-> fresh]], p))
Remove(p) == /\ world[p].id # 0 /\ p # Directory
             /\ Edit(Entry([world EXCEPT ![p] = NoFile], p))
\* Another directory takes the name of the searched one; it has only a main source.
SwapDirectory ==
  Edit([p \in Disk |->
         CASE p = Directory -> [id |-> fresh, time |-> fresh, bytes |-> 0]
           [] p = Main -> [id |-> fresh, time |-> fresh, bytes |-> fresh]
           [] p \in Files \ {Main} -> NoFile
           [] OTHER -> world[p]])
Poison == /\ ~poisoned /\ poisoned' = TRUE /\ edits < MaxEdits /\ edits' = edits + 1
          /\ UNCHANGED <<world, fresh, pc, look, records, binary, error, asks, todo, sealed, issued, audit, history>>

Somebody ==
  pc # "refused" /\ ((\E p \in Disk : Write(p) \/ QuietWrite(p) \/ Replace(p) \/ Remove(p)) \/ SwapDirectory \/ Poison)

------------------------------------------------------------------------------
(* Starting. *)

Exists(p, n) == [id |-> n, time |-> n, bytes |-> n]
OwnedAnswer(k, p) ==
  CASE k = "status" -> [id |-> p, time |-> 0, parent |-> p]
    [] k = "open" -> [id |-> p, time |-> 0, bytes |-> p]
    [] k = "directory" -> IF p = OwnedRoot THEN Owned ELSE {}
    [] k = "realpath" -> p
    [] OTHER -> TRUE
AddOwnedFiles ==
  [q \in Kinds \X Inputs |->
     IF \/ q[2] \in Owned /\ q[1] \in {"status", "open"}
        \/ q[2] \in Virtual \ Owned /\ q[1] = "status"
     THEN OwnedAnswer(q[1], q[2]) ELSE None]

Init ==
  /\ world = [p \in Disk |-> IF p \in Missing \cup Virtual THEN NoFile ELSE Exists(p, 1)]
  /\ fresh = 2 /\ edits = 0 /\ poisoned \in BOOLEAN
  /\ pc = "configure" /\ look = Idle
  /\ records = [q \in Kinds \X Inputs |-> None] /\ binary = [b \in Binaries |-> None]
  /\ error = FALSE /\ asks = 0 /\ todo = {} /\ sealed = FALSE /\ issued = FALSE /\ audit = FALSE
  /\ answers = {} /\ replayed = {} /\ moment = None

Refuse == /\ pc' = "refused" /\ look' = Idle /\ todo' = {}
          /\ UNCHANGED <<disk, records, binary, error, asks, sealed, issued, audit, history>>

------------------------------------------------------------------------------
(* binaryInput: a snapshot, the bytes, a snapshot. *)

BinaryBegin(b) ==
  /\ look = Idle
  /\ IF world[b].id = 0 THEN Refuse
     ELSE /\ look' = [kind |-> "binary", path |-> b, step |-> "read", snapshot |-> Snapshot(b), file |-> None]
          /\ UNCHANGED <<disk, pc, records, binary, error, asks, todo, sealed, issued, audit, history>>

BinaryRead(b) ==
  /\ look.path = b /\ look.step = "read"
  /\ IF world[b].id = 0 THEN Refuse
     ELSE /\ look' = [look EXCEPT !.step = "after", !.file = world[b]]
          /\ UNCHANGED <<disk, pc, records, binary, error, asks, todo, sealed, issued, audit, history>>

BinaryConfirmed(b) == look.path = b /\ look.step = "after" /\ Snapshot(b) = look.snapshot
Digest(b) == [snapshot |-> look.snapshot, bytes |-> look.file.bytes]

\* environmentOkay and configure: a poisoned environment or another compiler is refused
Configure ==
  /\ pc = "configure" /\ look = Idle
  /\ \/ Refuse
     \/ /\ ~poisoned /\ pc' = "binaries"
        /\ UNCHANGED <<disk, look, records, binary, error, asks, todo, sealed, issued, audit, history>>

ConfigureBinary(b) ==
  /\ pc = "binaries" /\ binary[b] = None
  /\ \/ BinaryBegin(b)
     \/ BinaryRead(b)
     \/ /\ look.path = b /\ look.step = "after"
        /\ IF BinaryConfirmed(b)
           THEN /\ binary' = [binary EXCEPT ![b] = Digest(b)] /\ look' = Idle
                /\ UNCHANGED <<disk, pc, records, error, asks, todo, sealed, issued, audit, history>>
           ELSE Refuse

\* prepareHostInputs, up to its first lookup
Prepare ==
  /\ pc = "binaries" /\ \A b \in Binaries : binary[b] # None
  /\ pc' = "prepare" /\ records' = AddOwnedFiles
  /\ UNCHANGED <<disk, look, binary, error, asks, todo, sealed, issued, audit, history>>

------------------------------------------------------------------------------
(* InputFileSystem while it records. *)

Queries == Cardinality({q \in Kinds \X Inputs : records[q] # None})

\* A file that cannot be opened answers as one without identity.
Observe(k, p) ==
  CASE k = "open" -> NoFile
    [] k = "directory" -> IF p = Directory THEN Entries ELSE {}
    [] k = "realpath" -> world[p].id
    [] OTHER -> world[p].id # 0

Tell(k, p, answer) == answers' = answers \cup {<<k, p, answer>>}
Told == <<disk, pc, binary, todo, sealed, issued, audit, replayed, moment>>
Store(k, p, answer) ==
  /\ records' = [records EXCEPT ![k, p] = answer]
  /\ Tell(k, p, answer) /\ look' = Idle /\ UNCHANGED error

Fail == error' = TRUE /\ look' = Idle /\ UNCHANGED <<records, answers>>
Budget == Queries < kMaximumQueries /\ ~error

\* The first half of a lookup: the record, a refusal, or a first look at the disk.
Lookup(k, p) ==
  /\ look = Idle
  /\ \/ /\ records[k, p] # None
        /\ Tell(k, p, records[k, p]) /\ UNCHANGED <<look, records, error>>
     \/ /\ records[k, p] = None /\ ~Budget /\ Fail
     \/ /\ records[k, p] = None /\ Budget
        /\ look' = [kind |-> k, path |-> p, snapshot |-> Snapshot(p), file |-> None,
                    step |-> IF records["status", p] # None THEN "act" ELSE "observe"]
        /\ UNCHANGED <<records, error, answers>>

\* status: the snapshot before is taken, the physical status is asked
StatusObserve ==
  /\ look.step = "observe"
  /\ look' = [look EXCEPT !.step = "confirm", !.file = Status(look.path)]
  /\ UNCHANGED <<records, error, answers>>

\* status: the snapshot after, compared
StatusConfirm ==
  /\ look.step = "confirm"
  /\ LET p == look.path
         after == Snapshot(p)
         agrees == after = look.snapshot /\ look.file.id = after.id
     IN \/ /\ agrees /\ look.kind = "status" /\ Store("status", p, after)
        \/ /\ agrees /\ look.kind # "status"
           /\ records' = [records EXCEPT !["status", p] = after]
           /\ look' = [look EXCEPT !.step = "act"] /\ UNCHANGED <<error, answers>>
        \/ /\ ~agrees /\ look.kind \in {"status", "open"} /\ Fail
        \* the other lookups ignore what status returned
        \/ /\ ~agrees /\ look.kind \notin {"status", "open"}
           /\ error' = TRUE /\ look' = [look EXCEPT !.step = "act"] /\ UNCHANGED <<records, answers>>

\* openFileForRead: the descriptor and its status
OpenDescriptor ==
  /\ look.step = "act" /\ look.kind = "open"
  /\ LET p == look.path
         expected == records["status", p]
     IN \/ world[p].id = 0 /\ Store("open", p, NoFile)
        \/ /\ world[p].id # 0 /\ Status(p) = [id |-> expected.id, time |-> expected.time]
           /\ p # Directory
           /\ look' = [look EXCEPT !.step = "read", !.file = world[p]]
           /\ UNCHANGED <<records, error, answers>>
        \/ /\ world[p].id # 0 /\ (Status(p) # [id |-> expected.id, time |-> expected.time] \/ p = Directory)
           /\ Fail

OpenRead ==
  /\ look.step = "read" /\ look.kind = "open"
  /\ look' = [look EXCEPT !.step = "after", !.file.bytes = BytesOf(look.file, look.path)]
  /\ UNCHANGED <<records, error, answers>>

OpenConfirm ==
  /\ look.step = "after" /\ look.kind = "open"
  /\ IF Snapshot(look.path) = records["status", look.path]
     THEN Store("open", look.path, look.file)
     ELSE Fail

\* dir_begin, getRealPath and isLocal
ObserveOther ==
  /\ look.step = "act" /\ look.kind \in {"directory", "realpath", "local"}
  /\ LET k == look.kind
         p == look.path
     IN Store(k, p, IF p \in Virtual /\ records["status", p] # None /\ records["status", p].id = p
                    THEN OwnedAnswer(k, p) ELSE Observe(k, p))

LookOn == StatusObserve \/ StatusConfirm \/ OpenDescriptor \/ OpenRead \/ OpenConfirm \/ ObserveOther

\* prepareHostInputs: the resource directory, then the main source
PrepareLookup ==
  /\ pc = "prepare"
  /\ \/ records["status", Directory] = None /\ ~error /\ Lookup("status", Directory)
     \/ /\ records["status", Directory] # None /\ records["open", Main] = None /\ ~error
        /\ Lookup("open", Main)
     \/ LookOn
  /\ UNCHANGED <<Told, asks>>

PrepareEnd ==
  /\ pc = "prepare" /\ look = Idle
  /\ \/ error /\ Refuse
     \/ records["status", Directory] # None /\ records["status", Directory].id = 0 /\ Refuse
     \/ records["open", Main] # None /\ records["open", Main].id = 0 /\ Refuse
     \/ /\ records["open", Main] # None /\ records["open", Main].id # 0 /\ pc' = "parse"
        /\ UNCHANGED <<disk, look, records, binary, error, asks, todo, sealed, issued, audit, history>>

\* One lookup of the parser, or a step of the one it makes.
ParseAsk(k, p) ==
  /\ pc = "parse" /\ asks < MaxAsks /\ Lookup(k, p) /\ asks' = asks + 1
  /\ UNCHANGED Told
ParseStep == pc = "parse" /\ LookOn /\ UNCHANGED <<Told, asks>>

------------------------------------------------------------------------------
(* recordsUnchanged *)

Recorded == {q \in Kinds \X (Inputs \ Virtual) : records[q] # None}
Phase(item) == CASE item[1] = "status" -> 1 [] item[1] = "open" -> 2 [] item[1] = "realpath" -> 3
                 [] item[1] = "directory" -> 4 [] item[1] = "local" -> 5 [] OTHER -> 6
\* The maps are walked in the order of their paths.
NextItem == CHOOSE i \in todo : \A j \in todo : Phase(i) <= Phase(j)

Kept == <<disk, records, binary, error, asks, sealed, issued, audit, answers, replayed>>

\* environmentOkay again, then everything recorded is to be compared
BeginRecheck ==
  IF poisoned THEN Refuse
  ELSE /\ pc' = "recheck" /\ look' = Idle /\ moment' = world
       /\ todo' = Recorded \cup {<<"binary", b>> : b \in Binaries}
       /\ UNCHANGED Kept

Compared(item) == /\ todo' = todo \ {item} /\ look' = Idle /\ UNCHANGED <<pc, Kept, moment>>
On(item, step, file) ==
  /\ look' = [kind |-> item[1], path |-> item[2], step |-> step, snapshot |-> None, file |-> file]
  /\ UNCHANGED <<pc, todo, Kept, moment>>
At(item, step) == look.path = item[2] /\ look.kind = item[1] /\ look.step = step
Judge(item, same) == IF same THEN Compared(item) ELSE Refuse

RecheckStatus(p) ==
  LET item == <<"status", p>>
      was == records[item]
  IN /\ todo # {} /\ item = NextItem
     /\ \/ /\ look = Idle /\ IF Snapshot(p) = was THEN On(item, "status", None) ELSE Refuse
        \/ At(item, "status") /\ Judge(item, Status(p) = [id |-> was.id, time |-> was.time])

\* The bytes read again are those recorded.
SameBytes_Size(was, file) == TRUE
SameBytes(was, file) == was.bytes = file.bytes

RecheckOpen(p) ==
  LET item == <<"open", p>>
      was == records[item]
  IN /\ todo # {} /\ item = NextItem
     /\ \/ look = Idle /\ was.id = 0 /\ Judge(item, world[p].id = 0)
        \/ /\ look = Idle /\ was.id # 0
           /\ IF Status(p) = [id |-> was.id, time |-> was.time] THEN On(item, "read", world[p]) ELSE Refuse
        \/ /\ At(item, "read")
           /\ LET file == [look.file EXCEPT !.bytes = BytesOf(look.file, p)]
              IN IF SameBytes(was, file) THEN On(item, "after", file) ELSE Refuse
        \/ At(item, "after") /\ Judge(item, Snapshot(p) = records["status", p])

RecheckOther(k, p) ==
  /\ k \in {"realpath", "directory", "local"} /\ todo # {} /\ <<k, p>> = NextItem /\ look = Idle
  /\ Judge(<<k, p>>, Observe(k, p) = records[k, p])

RecheckBinary(b) ==
  /\ todo # {} /\ <<"binary", b>> = NextItem
  /\ \/ BinaryBegin(b)
     \/ BinaryRead(b)
     \/ /\ look.path = b /\ look.step = "after"
        /\ Judge(<<"binary", b>>, BinaryConfirmed(b) /\ Digest(b) = binary[b])

RecheckStep ==
  /\ pc = "recheck"
  /\ \/ \E p \in Inputs : RecheckStatus(p) \/ RecheckOpen(p) \/ \E k \in Kinds : RecheckOther(k, p)
     \/ \E b \in Binaries : RecheckBinary(b)

------------------------------------------------------------------------------
(* admitHost: parse, freeze, replay, compare, check, issue. *)

\* The parse is refused, or freeze begins; freeze refuses records with an error.
EndParse ==
  /\ pc = "parse" /\ look = Idle
  /\ \/ Refuse
     \/ ~error /\ BeginRecheck

\* HostInputSnapshot::replay begins with environmentOkay
BeginReplay ==
  /\ pc' = "replay" /\ asks' = 0 /\ audit' = poisoned /\ sealed' = TRUE /\ replayed' = {}
  /\ UNCHANGED <<disk, look, records, binary, error, todo, issued, answers, moment>>

\* freeze returns; after the replay the same comparison ends with the evidence
RecheckDone ==
  /\ pc = "recheck" /\ todo = {}
  /\ IF ~sealed THEN BeginReplay
     ELSE /\ pc' = "issued" /\ issued' = TRUE
          /\ UNCHANGED <<disk, look, records, binary, error, asks, todo, sealed, audit, history>>
ReplayAnswer(k, p) ==
  \/ /\ records[k, p] # None
     /\ replayed' = replayed \cup {<<k, p, records[k, p]>>} /\ UNCHANGED audit
  \/ /\ records[k, p] = None /\ audit' = TRUE /\ UNCHANGED replayed

ReplayAsk(k, p) ==
  /\ pc = "replay" /\ asks < MaxAsks /\ asks' = asks + 1
  /\ ReplayAnswer(k, p)
  /\ UNCHANGED <<disk, pc, look, records, binary, error, todo, sealed, issued, answers, moment>>

\* HostInputReplay::ok, the program compared with the first, unchanged
EndReplay ==
  /\ pc = "replay"
  /\ \/ Refuse
     \/ ~audit /\ ~issued /\ BeginRecheck
     \/ /\ ~audit /\ issued /\ pc' = "issued"
        /\ UNCHANGED <<disk, look, records, binary, error, asks, todo, sealed, issued, audit, history>>

\* verifyClosedRegionMatchesEvidence, some time later
Pair == pc = "issued" /\ BeginReplay

Next ==
  \/ Somebody
  \/ Configure \/ (\E b \in Binaries : ConfigureBinary(b)) \/ Prepare
  \/ PrepareLookup \/ PrepareEnd
  \/ (\E k \in Asked, p \in Inputs : ParseAsk(k, p) \/ ReplayAsk(k, p))
  \/ ParseStep \/ EndParse \/ RecheckStep \/ RecheckDone \/ EndReplay \/ Pair

Spec == Init /\ [][Next]_vars

------------------------------------------------------------------------------
(* Properties. *)

\* A snapshot that freeze returned, and one checked again before evidence is issued, is of one
\* moment: each file opened, each path found, each directory listed and each compiler binary was
\* then as the records say, and each path not found was looked for in the directory of that name.
\* Only that a path was absent the whole time is not established (recordsUnchanged).
FrozenIsOneMoment ==
  pc \in {"replay", "issued"} =>
    /\ \A q \in Recorded :
         LET was == records[q]
             then == moment[q[2]]
         IN CASE q[1] = "open" -> was.id # 0 => was = then
              [] q[1] = "status" -> /\ was.parent = moment[Parent(q[2])].id
                                    /\ was.id # 0 => was.id = then.id /\ was.time = then.time
              [] q[1] = "directory" -> q[2] = Directory => was = {f \in Files : moment[f].id # 0}
              [] OTHER -> TRUE
    /\ \A b \in Binaries : binary[b].bytes = moment[b].bytes

\* Whatever the disk has become, what a replay that passed its audit was told of bytes was so at
\* that moment, or is compiler-owned (replay, miss and verifyClosedRegionMatchesEvidence).
ReplayIsOfTheMoment ==
  pc = "issued" =>
    \A a \in replayed :
      CASE a[2] \in Virtual -> a[3] = OwnedAnswer(a[1], a[2])
        [] a[2] \notin Virtual /\ a[1] = "open" /\ a[3].id # 0 -> a[3] = moment[a[2]]
        [] a[2] \notin Virtual /\ a[1] = "status" /\ a[3].id # 0 -> a[3].time = moment[a[2]].time
        [] OTHER -> TRUE

\* One parse is never told two things of one question, however often the disk changes (the maps
\* of InputFileSystem keep failures too).
OneAnswerPerQuestion ==
  \A a, b \in answers : a[1] = b[1] /\ a[2] = b[2] => a[3] = b[3]

\* A compiler-owned header and its directory are never those of the disk, even when somebody
\* makes files of these names (addOwnedFiles).
OwnedNeverFromDisk ==
  \A a \in answers : a[2] \in Virtual =>
    IF a[1] = "open" /\ a[2] = OwnedRoot THEN a[3] = NoFile ELSE a[3] = OwnedAnswer(a[1], a[2])

\* The records stay within the bound, which a lookup that records a status first may pass by one
\* (budget).
QueriesBounded == Queries <= kMaximumQueries + 1
==============================================================================
