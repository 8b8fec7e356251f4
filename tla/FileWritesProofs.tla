--------------------------- MODULE FileWritesProofs ---------------------------
(***************************************************************************)
(* Theorems about FileWrites for any operations, workers, paths and        *)
(* faults: every row keeps its type, and what a project refers to is out   *)
(* of reach of every purge.  And what keeps the executors out of each      *)
(* other's way: the physical lock and the lease leave an operation at most *)
(* one executor that acts, and the files, versions and names an operation  *)
(* holds leave every address to at most one operation.                     *)
(*                                                                         *)
(* That every step keeps to this comes in FileCallsProofs, the content of  *)
(* the storage and the counters of the usage in FileContentProofs.         *)
(***************************************************************************)
EXTENDS FileWrites, TLAPS

-----------------------------------------------------------------------------
(* The inductive invariant *)

\* A file that exists has a name and a current version; one that does not
\* exist yet is nobody's.
EntriesFilled ==
    \A f \in Ids :
        /\ entries[f].state = "absent" => entries[f].busy = None
        /\ entries[f].state # "absent" => entries[f].current \in Ids /\ entries[f].path \in Paths

\* A version belongs to a file that exists.
VersionsFiled ==
    \A v \in Ids : versions[v].state # "unborn" =>
        versions[v].file \in Ids /\ entries[versions[v].file].state # "absent"

\* What an operation makes does not exist before its commit.
IdsFresh ==
    \A o \in Ops : ops[o].phase \in {"none", "open"} =>
        versions[o].state = "unborn" /\ entries[o].state = "absent"

\* Nothing of an object that is not planned was ever begun.
Blank(x) == x.src = None /\ x.dst = None /\ ~x.prepared /\ ~x.started /\ ~x.srcGone

\* An operation has a plan only once it is admitted, it concerns a file,
\* and a member's operation a path.
PlansFollow ==
    \A o \in Ops :
        /\ ops[o].phase = "none" => \A s \in Slots : ~Present(o, s)
        /\ \A s \in Slots : ~Present(o, s) => Blank(objs[o][s])
        /\ ops[o].phase # "none" =>
              ops[o].file \in Ids /\ (ops[o].kind \in UserKinds => ops[o].path \in Paths)

\* Executors act on operations, their calls concern planned objects, and what
\* a request has still to prepare is not published.
PlacedAs(p, r) ==
    /\ r.at # "idle" => r.op \in Ops /\ (p \in Ops => r.op = p)
    /\ r.at \in {"make", "made", "restore", "restored"} =>
           r.slot \in Slots /\ Present(r.op, r.slot)
    /\ r.at \in {"drop", "dropped"} => r.loc \in Locations
    /\ r.at = "prepare" => p \in Ops /\ ops[p].phase # "committed"
ExecutorsPlaced == \A p \in Processes : PlacedAs(p, proc[p])

\* A purge under way holds the file whose versions it deletes, and nothing
\* refers to them.
PurgesHold ==
    \A o \in Ops, v \in Ids : Unsettled(o) /\ Purging(o) /\ Present(o, v) =>
        /\ versions[v].state = "live" /\ versions[v].file = ops[o].file
        /\ entries[ops[o].file].busy = o
        /\ v \notin refs

IInv ==
    /\ RowsOK
    /\ EntriesFilled
    /\ VersionsFiled
    /\ IdsFresh
    /\ PlansFollow
    /\ ExecutorsPlaced
    /\ PurgesHold
    /\ ReferencedStays

\* Every address a plan may name is one of the storage's.
LEMMA Addresses ==
    /\ \A p \in Paths : InFiles(p) \in Locations
    /\ \A v \in Ids : InHistory(v) \in Locations /\ InTrash(v) \in Locations
                      /\ InStaging(v) \in Locations
<1>. QED
  BY DEF InFiles, InHistory, InTrash, InStaging, Locations, Internal

LEMMA Constants ==
    /\ First \in Ids /\ First \notin Ops /\ Home \in Paths /\ Ops \subseteq Ids
    /\ None \notin Ids /\ None \notin Ops /\ None \notin Workers
    /\ None \notin Paths /\ None \notin Locations
    /\ Ids \subseteq Slots /\ Ops \subseteq Processes /\ Workers \subseteq Processes
    /\ Ops \cap Workers = {} /\ "staging" \notin Ids /\ "replacement" \notin Ids
    /\ "staging" \in Slots /\ "replacement" \in Slots
    /\ \A v \in Ids : Bytes[v] \in Nat
<1>. QED
  BY FilesAssumption DEF Ids, Slots, Processes

LEMMA BlankRows ==
    /\ NoEntry \in EntryStates /\ NoVersion \in VersionStates /\ NoOp \in OpStates
    /\ NoObject \in ObjectStates /\ Idle \in ProcStates
    /\ \A v \in Ids, from \in Locations \cup {None}, to \in Locations \cup {None} :
          Object(v, from, to) \in ObjectStates /\ Object(v, from, to).ver = v
<1>. QED
  BY DEF NoEntry, NoVersion, NoOp, NoObject, Idle, Object, EntryStates, VersionStates,
         OpStates, ObjectStates, ProcStates

LEMMA InitHolds == Init => IInv
<1>. SUFFICES ASSUME Init PROVE IInv
  OBVIOUS
<1>. USE Constants, BlankRows, Addresses
<1>1. RowsOK
  <2>1. [state |-> "active", path |-> Home, current |-> First, busy |-> None, rev |-> 1]
           \in EntryStates
    BY DEF EntryStates
  <2>2. [state |-> "live", file |-> First, loc |-> InFiles(Home)] \in VersionStates
    BY DEF VersionStates
  <2>. QED
    BY <2>1, <2>2 DEF Init, RowsOK, Contents
<1>2. EntriesFilled /\ VersionsFiled
  BY DEF Init, EntriesFilled, VersionsFiled, NoEntry, NoVersion
<1>3. IdsFresh /\ PlansFollow
  BY DEF Init, IdsFresh, PlansFollow, NoEntry, NoVersion, NoOp, NoObject, Blank, Present
<1>4. ExecutorsPlaced
  BY DEF Init, ExecutorsPlaced, PlacedAs, Idle
<1>5. PurgesHold /\ ReferencedStays
  BY DEF Init, PurgesHold, ReferencedStays, Unsettled, Open, Committed, NoOp
<1>. QED
  BY <1>1, <1>2, <1>3, <1>4, <1>5 DEF IInv

-----------------------------------------------------------------------------
(* Steps that leave files, versions and references alone *)

LEMMA PlanStep ==
    ASSUME IInv, RowsOK', UNCHANGED <<entries, versions, refs>>,
           \A o \in Ops : /\ ops'[o].phase = ops[o].phase /\ ops'[o].kind = ops[o].kind
                          /\ ops'[o].file = ops[o].file /\ ops'[o].path = ops[o].path,
           \A o \in Ops, s \in Slots : Present(o, s) => Present(o, s)',
           \A o \in Ops, s \in Slots : Present(o, s)' => ops[o].phase # "none",
           \A o \in Ops, v \in Ids : Present(o, v)' => Present(o, v),
           \A o \in Ops, s \in Slots : ~Present(o, s)' => Blank(objs'[o][s]),
           \A p \in Processes : PlacedAs(p, proc[p])'
    PROVE  IInv'
<1>. USE Constants
<1>1. EntriesFilled' /\ VersionsFiled'
  BY DEF IInv, EntriesFilled, VersionsFiled
<1>2. IdsFresh' /\ PlansFollow'
  BY DEF IInv, IdsFresh, PlansFollow
<1>3. ExecutorsPlaced'
  BY DEF ExecutorsPlaced
<1>4. \A o \in Ops : (Unsettled(o) /\ Purging(o))' <=> (Unsettled(o) /\ Purging(o))
  BY DEF Unsettled, Open, Committed, Purging
<1>5. PurgesHold'
  BY <1>4 DEF IInv, PurgesHold
<1>6. ReferencedStays'
  BY <1>4 DEF IInv, ReferencedStays, RowsOK
<1>. QED
  BY <1>1, <1>2, <1>3, <1>5, <1>6 DEF IInv

\* One executor moves.
LEMMA ProcStep ==
    ASSUME IInv, NEW p \in Processes, NEW r \in ProcStates, PlacedAs(p, r),
           proc' = [proc EXCEPT ![p] = r],
           UNCHANGED <<entries, versions, refs, ops, objs, names>>,
           disk' \in [Locations -> Contents], lock' \in Processes \cup {None}, faults' \in Nat
    PROVE  IInv'
<1>1. RowsOK'
  BY DEF IInv, RowsOK
<1>2. \A q \in Processes : PlacedAs(q, proc[q])'
  BY DEF IInv, RowsOK, ExecutorsPlaced, PlacedAs, Present
<1>3. \A o \in Ops, s \in Slots : Present(o, s) = Present(o, s)'
  BY DEF Present
<1>4. \A o \in Ops, s \in Slots : Present(o, s)' => ops[o].phase # "none"
  BY <1>3 DEF IInv, PlansFollow
<1>5. \A o \in Ops, s \in Slots : ~Present(o, s)' => Blank(objs'[o][s])
  BY <1>3 DEF IInv, PlansFollow
<1>. QED
  BY <1>1, <1>2, <1>3, <1>4, <1>5, PlanStep, Constants

\* One executor goes from one stage to the next with what it has at hand.
LEMMA GoStep ==
    ASSUME IInv, NEW p \in Processes, NEW at \in {"plan", "handoff", "made", "dropped", "restored"},
           Go(p, at), proc[p].at # "idle",
           at \in {"made", "restored"} => proc[p].at \in {"make", "restore"},
           at = "dropped" => proc[p].at = "drop",
           UNCHANGED <<entries, versions, refs, ops, objs, names>>,
           disk' \in [Locations -> Contents], lock' \in Processes \cup {None}, faults' \in Nat
    PROVE  IInv'
<1>. DEFINE r == [proc[p] EXCEPT !.at = at]
<1>1. proc[p] \in ProcStates /\ PlacedAs(p, proc[p])
  BY DEF IInv, RowsOK, ExecutorsPlaced
<1>2. /\ r \in ProcStates /\ r.at = at /\ r.op = proc[p].op
      /\ r.slot = proc[p].slot /\ r.loc = proc[p].loc
  BY <1>1 DEF ProcStates
<1>3. proc' = [proc EXCEPT ![p] = r]
  BY DEF Go, IInv, RowsOK
<1>. HIDE DEF r
<1>4. PlacedAs(p, r)
  BY <1>1, <1>2 DEF PlacedAs
<1>. QED
  BY <1>2, <1>3, <1>4, ProcStep

LEMMA LockKept ==
    ASSUME IInv, NEW p \in Processes
    PROVE  Unlocked(p) \in Processes \cup {None} /\ lock \in Processes \cup {None}
<1>. QED
  BY DEF Unlocked, IInv, RowsOK

LEMMA LeaveStep ==
    ASSUME IInv, NEW p \in Processes, Leave(p), proc[p].at # "idle",
           UNCHANGED <<entries, versions, refs, ops, objs, names>>,
           disk' \in [Locations -> Contents], faults' \in Nat
    PROVE  IInv'
<1>1. Go(p, "handoff") /\ lock' \in Processes \cup {None}
  BY LockKept DEF Leave
<1>. QED
  BY <1>1, GoStep

LEMMA DieStep ==
    ASSUME IInv, NEW p \in Processes, Die(p),
           UNCHANGED <<entries, versions, refs, ops, objs, names>>,
           disk' \in [Locations -> Contents], faults' \in Nat
    PROVE  IInv'
<1>1. proc' = [proc EXCEPT ![p] = Idle] /\ lock' \in Processes \cup {None}
  BY LockKept DEF Die
<1>2. Idle \in ProcStates /\ PlacedAs(p, Idle)
  BY BlankRows DEF PlacedAs, Idle
<1>. QED
  BY <1>1, <1>2, ProcStep

LEMMA FaultCounted == ASSUME IInv PROVE faults \in Nat /\ (Fault => faults' \in Nat)
<1>. QED
  BY DEF IInv, RowsOK, Fault

\* Whatever a storage call leaves at an address, it is one of the contents.
LEMMA DiskWritten ==
    ASSUME IInv, NEW l, NEW c \in Contents
    PROVE  [disk EXCEPT ![l] = c] \in [Locations -> Contents] /\ disk \in [Locations -> Contents]
<1>. QED
  BY DEF IInv, RowsOK

LEMMA PlannedVersion ==
    ASSUME IInv, NEW p \in Processes, proc[p].at \in {"make", "made", "restore", "restored"}
    PROVE  /\ proc[p].op \in Ops /\ proc[p].slot \in Slots
           /\ p \in Ops => proc[p].op = p
           /\ objs[proc[p].op][proc[p].slot] \in ObjectStates
           /\ objs[proc[p].op][proc[p].slot].ver \in Ids
<1>1. proc[p].op \in Ops /\ proc[p].slot \in Slots /\ Present(proc[p].op, proc[p].slot)
      /\ (p \in Ops => proc[p].op = p)
  BY DEF IInv, ExecutorsPlaced, PlacedAs
<1>2. objs[proc[p].op][proc[p].slot] \in ObjectStates
  BY <1>1 DEF IInv, RowsOK
<1>. QED
  BY <1>1, <1>2 DEF Present, ObjectStates

LEMMA PartialContents ==
    /\ Ids \subseteq Contents /\ "empty" \in Contents
    /\ Residue \subseteq Contents
<1>. QED
  BY DEF Contents, Residue

\* A request's calls that write.
LEMMA MakesHold ==
    ASSUME IInv, NEW o \in Ops,
           Make(o) \/ MakeFails(o) \/ \E s \in Slots : IssueMake(o, s)
    PROVE  IInv'
<1>. USE Constants, FaultCounted, PartialContents
<1>1. CASE Make(o)
  <2>. DEFINE x == objs[o][proc[o].slot]
  <2>1. proc[o].at = "make" /\ UNCHANGED <<entries, versions, refs, ops, objs, names, faults>>
    BY <1>1 DEF Make
  <2>2. x.ver \in Ids
    BY <2>1, PlannedVersion
  <2>3. CASE disk' = [disk EXCEPT ![x.dst] = x.ver] /\ Go(o, "made") /\ UNCHANGED lock
    BY <2>1, <2>2, <2>3, DiskWritten, LockKept, GoStep
  <2>4. CASE Leave(o) /\ UNCHANGED disk
    BY <2>1, <2>4, DiskWritten, LeaveStep
  <2>. QED
    BY <1>1, <2>3, <2>4 DEF Make
<1>2. CASE MakeFails(o)
  <2>. DEFINE x == objs[o][proc[o].slot]
  <2>1. proc[o].at = "make" /\ UNCHANGED <<entries, versions, refs, ops, objs, names>>
        /\ faults' \in Nat
    BY <1>2 DEF MakeFails
  <2>2. x.ver \in Ids
    BY <2>1, PlannedVersion
  <2>3. PICK c \in {"empty", x.ver} \cup Residue : disk' = [disk EXCEPT ![x.dst] = c]
    BY <1>2 DEF MakeFails
  <2>4. disk' \in [Locations -> Contents]
    BY <2>2, <2>3, DiskWritten
  <2>5. Leave(o) \/ Die(o)
    BY <1>2 DEF MakeFails
  <2>. QED
    BY <2>1, <2>4, <2>5, LeaveStep, DieStep
<1>3. ASSUME NEW s \in Slots, IssueMake(o, s) PROVE IInv'
  <2>. DEFINE r == [proc[o] EXCEPT !.at = "make", !.slot = s]
  <2>1. proc[o] \in ProcStates /\ PlacedAs(o, proc[o]) /\ proc[o].at = "plan" /\ Present(o, s)
    BY <1>3 DEF IssueMake, NextTarget, IInv, RowsOK, ExecutorsPlaced
  <2>2. /\ r \in ProcStates /\ r.at = "make" /\ r.op = proc[o].op /\ r.slot = s
        /\ proc' = [proc EXCEPT ![o] = r]
    BY <1>3, <2>1 DEF ProcStates, IssueMake, IInv, RowsOK
  <2>. HIDE DEF r
  <2>3. PlacedAs(o, r)
    BY <2>1, <2>2 DEF PlacedAs
  <2>4. UNCHANGED <<entries, versions, refs, ops, objs, names, disk, lock, faults>>
    BY <1>3 DEF IssueMake
  <2>. QED
    BY <2>2, <2>3, <2>4, ProcStep, LockKept, DiskWritten
<1>. QED
  BY <1>1, <1>2, <1>3

\* A request's and a job's deletions.
LEMMA DropsHold ==
    ASSUME IInv, NEW p \in Processes,
           Drop(p) \/ DropFails(p) \/ \E l \in Locations : IssueDrop(p, l)
    PROVE  IInv'
<1>. USE Constants, FaultCounted, PartialContents
<1>1. CASE Drop(p)
  <2>1. /\ proc[p].at = "drop" /\ Go(p, "dropped")
        /\ UNCHANGED <<entries, versions, refs, ops, objs, names, lock, faults>>
        /\ disk' = [disk EXCEPT ![proc[p].loc] = "empty"]
    BY <1>1 DEF Drop
  <2>. QED
    BY <2>1, DiskWritten, LockKept, GoStep
<1>2. CASE DropFails(p)
  <2>1. /\ proc[p].at = "drop" /\ faults' \in Nat
        /\ UNCHANGED <<entries, versions, refs, ops, objs, names>>
        /\ Leave(p) \/ Die(p)
    BY <1>2 DEF DropFails
  <2>2. proc[p].loc \in Locations
    BY <2>1 DEF IInv, ExecutorsPlaced, PlacedAs
  <2>3. disk[proc[p].loc] \in Contents
    BY <2>2 DEF IInv, RowsOK
  <2>4. disk' \in [Locations -> Contents]
    BY <1>2, <2>3, DiskWritten DEF DropFails
  <2>. QED
    BY <2>1, <2>4, LeaveStep, DieStep
<1>3. ASSUME NEW l \in Locations, IssueDrop(p, l) PROVE IInv'
  <2>. DEFINE r == [proc[p] EXCEPT !.at = "drop", !.loc = l]
  <2>1. proc[p] \in ProcStates /\ PlacedAs(p, proc[p]) /\ proc[p].at = "plan"
    BY <1>3 DEF IssueDrop, IInv, RowsOK, ExecutorsPlaced
  <2>2. /\ r \in ProcStates /\ r.at = "drop" /\ r.op = proc[p].op /\ r.loc = l
        /\ proc' = [proc EXCEPT ![p] = r]
    BY <1>3, <2>1 DEF ProcStates, IssueDrop, IInv, RowsOK
  <2>. HIDE DEF r
  <2>3. PlacedAs(p, r)
    BY <2>1, <2>2 DEF PlacedAs
  <2>4. UNCHANGED <<entries, versions, refs, ops, objs, names, disk, lock, faults>>
    BY <1>3 DEF IssueDrop
  <2>. QED
    BY <2>2, <2>3, <2>4, ProcStep, LockKept, DiskWritten
<1>. QED
  BY <1>1, <1>2, <1>3

\* A job's copies back.
LEMMA RestoresHold ==
    ASSUME IInv, NEW w \in Workers,
           Restore(w) \/ RestoreFails(w) \/ \E s \in Slots : IssueRestore(w, s)
    PROVE  IInv'
<1>. DEFINE x == objs[proc[w].op][proc[w].slot]
<1>. USE Constants, FaultCounted, PartialContents
<1>1. CASE Restore(w)
  <2>1. proc[w].at = "restore" /\ UNCHANGED <<entries, versions, refs, ops, objs, names, faults>>
    BY <1>1 DEF Restore
  <2>2. x.ver \in Ids
    BY <2>1, PlannedVersion
  <2>3. CASE disk' = [disk EXCEPT ![x.src] = x.ver] /\ Go(w, "restored") /\ UNCHANGED lock
    BY <2>1, <2>2, <2>3, DiskWritten, LockKept, GoStep
  <2>4. CASE Leave(w) /\ UNCHANGED disk
    BY <2>1, <2>4, DiskWritten, LeaveStep
  <2>. QED
    BY <1>1, <2>3, <2>4 DEF Restore
<1>2. CASE RestoreFails(w)
  <2>1. proc[w].at = "restore" /\ UNCHANGED <<entries, versions, refs, ops, objs, names>>
        /\ faults' \in Nat
    BY <1>2 DEF RestoreFails
  <2>2. x.ver \in Ids
    BY <2>1, PlannedVersion
  <2>3. UNCHANGED disk \/ \E c \in {"empty", x.ver} \cup Residue : disk' = [disk EXCEPT ![x.src] = c]
    BY <1>2 DEF RestoreFails
  <2>4. disk' \in [Locations -> Contents]
    BY <2>2, <2>3, DiskWritten, SMTT(30)
  <2>5. Leave(w) \/ Die(w)
    BY <1>2 DEF RestoreFails
  <2>. QED
    BY <2>1, <2>4, <2>5, LeaveStep, DieStep
<1>3. ASSUME NEW s \in Slots, IssueRestore(w, s) PROVE IInv'
  <2>. DEFINE r == [proc[w] EXCEPT !.at = "restore", !.slot = s]
  <2>1. proc[w] \in ProcStates /\ PlacedAs(w, proc[w]) /\ proc[w].at = "plan"
        /\ s \in ToRestore(proc[w].op)
    BY <1>3 DEF IssueRestore, IInv, RowsOK, ExecutorsPlaced
  <2>2. /\ r \in ProcStates /\ r.at = "restore" /\ r.op = proc[w].op /\ r.slot = s
        /\ proc' = [proc EXCEPT ![w] = r]
    BY <1>3, <2>1 DEF ProcStates, IssueRestore, IInv, RowsOK
  <2>. HIDE DEF r
  <2>3. Present(proc[w].op, s)
    BY <2>1 DEF IInv, PlansFollow, ToRestore, PlacedAs, Blank
  <2>4. PlacedAs(w, r)
    BY <2>1, <2>2, <2>3 DEF PlacedAs
  <2>5. UNCHANGED <<entries, versions, refs, ops, objs, names, disk, lock, faults>>
    BY <1>3 DEF IssueRestore
  <2>. QED
    BY <2>2, <2>4, <2>5, ProcStep, LockKept, DiskWritten
<1>. QED
  BY <1>1, <1>2, <1>3

\* An executor records something about its operation's objects.
LEMMA ObjectStep ==
    ASSUME IInv, NEW o \in Ops, ops[o].phase # "none",
           UNCHANGED <<entries, versions, refs, ops, names, disk, lock, faults>>,
           objs' \in [Ops -> [Slots -> ObjectStates]],
           \A q \in Ops \ {o} : objs'[q] = objs[q],
           \A s \in Slots : /\ Present(o, s) => Present(o, s)'
                            /\ s \in Ids /\ Present(o, s)' => Present(o, s)
                            /\ ~Present(o, s)' => Blank(objs'[o][s]),
           proc' \in [Processes -> ProcStates],
           \A p \in Processes :
              \/ proc'[p] = proc[p]
              \/ proc'[p].at = "plan" /\ proc'[p].op = proc[p].op /\ proc[p].at # "idle"
    PROVE  IInv'
<1>. USE Constants
<1>1. RowsOK'
  BY DEF IInv, RowsOK
<1>2. \A q \in Ops, s \in Slots : /\ Present(q, s) => Present(q, s)'
                                  /\ s \in Ids /\ Present(q, s)' => Present(q, s)
                                  /\ ~Present(q, s)' => Blank(objs'[q][s])
                                  /\ Present(q, s)' => ops[q].phase # "none"
  BY DEF IInv, PlansFollow, Present
<1>3. \A p \in Processes : PlacedAs(p, proc[p])'
  <2>. TAKE p \in Processes
  <2>1. PlacedAs(p, proc[p])
    BY DEF IInv, ExecutorsPlaced
  <2>. QED
    BY <1>2, <2>1 DEF PlacedAs
<1>. QED
  BY <1>1, <1>2, <1>3, PlanStep

LEMMA Recorder ==
    ASSUME IInv, NEW p \in Processes, Holds(p), proc[p].at # "idle"
    PROVE  proc[p].op \in Ops /\ (p \in Ops => proc[p].op = p) /\ ops[proc[p].op].phase # "none"
<1>. QED
  BY DEF IInv, ExecutorsPlaced, PlacedAs, Holds, Unsettled, Open, Committed

LEMMA RecordMadeHolds ==
    ASSUME IInv, NEW o \in Ops, RecordMade(o) PROVE IInv'
<1>. DEFINE s == proc[o].slot
            y == [objs[o][s] EXCEPT !.prepared = TRUE, !.temp = Transient(o, s)]
            r == [proc[o] EXCEPT !.at = "plan", !.slot = None]
<1>. USE Constants
<1>1. proc[o].at = "made" /\ proc[o].op = o /\ s \in Slots /\ objs[o][s] \in ObjectStates
      /\ objs[o][s].ver \in Ids /\ ops[o].phase # "none"
  BY PlannedVersion, Recorder DEF RecordMade
<1>2. Transient(o, s) \in Nat
  BY <1>1 DEF Transient
<1>3. y \in ObjectStates /\ y.ver \in Ids
  BY <1>1, <1>2 DEF ObjectStates
<1>4. objs' = [objs EXCEPT ![o] = [objs[o] EXCEPT ![s] = y]]
  BY <1>1 DEF RecordMade, IInv, RowsOK, ObjectStates
<1>5. r \in ProcStates /\ r.at = "plan" /\ r.op = proc[o].op
      /\ proc' = [proc EXCEPT ![o] = r]
  BY <1>1, ZenonT(30) DEF RecordMade, IInv, RowsOK, ProcStates
<1>. HIDE DEF r, y, s
<1>6. /\ objs' \in [Ops -> [Slots -> ObjectStates]]
      /\ \A q \in Ops \ {o} : objs'[q] = objs[q]
      /\ \A t \in Slots : objs'[o][t] = IF t = s THEN y ELSE objs[o][t]
  BY <1>1, <1>3, <1>4 DEF IInv, RowsOK
<1>7. \A t \in Slots : /\ Present(o, t) => Present(o, t)'
                       /\ t \in Ids /\ Present(o, t)' => Present(o, t)
                       /\ ~Present(o, t)' => Blank(objs'[o][t])
  BY <1>1, <1>3, <1>6 DEF IInv, PlansFollow, Present
<1>8. proc' \in [Processes -> ProcStates] /\ \A p \in Processes :
              \/ proc'[p] = proc[p]
              \/ proc'[p].at = "plan" /\ proc'[p].op = proc[p].op /\ proc[p].at # "idle"
  BY <1>1, <1>5 DEF IInv, RowsOK
<1>9. UNCHANGED <<entries, versions, refs, ops, names, disk, lock, faults>>
  BY DEF RecordMade
<1>. QED
  BY <1>1, <1>6, <1>7, <1>8, <1>9, ObjectStep

LEMMA RecordRestoredHolds ==
    ASSUME IInv, NEW w \in Workers, RecordRestored(w) PROVE IInv'
<1>. USE Constants
<1>1. proc[w].at = "restored" /\ ops[proc[w].op].phase # "none" /\ proc[w].op \in Ops
  BY PlannedVersion, Recorder DEF RecordRestored
<1>2. PICK o \in Ops : o = proc[w].op
  BY <1>1
<1>. DEFINE s == proc[w].slot
            temp == IF objs[o][s].dstGone THEN 0 ELSE Bytes[objs[o][s].ver]
            y == [objs[o][s] EXCEPT !.restored = TRUE, !.temp = temp]
            r == [proc[w] EXCEPT !.at = "plan", !.slot = None]
<1>3. s \in Slots /\ objs[o][s] \in ObjectStates
      /\ objs[o][s].ver \in Ids /\ ops[o].phase # "none"
  BY <1>1, <1>2, PlannedVersion
<1>4. temp \in Nat
  BY <1>3
<1>5. y \in ObjectStates /\ y.ver \in Ids
  BY <1>3, <1>4 DEF ObjectStates
<1>6. objs' = [objs EXCEPT ![o] = [objs[o] EXCEPT ![s] = y]]
  BY <1>3, <1>2, ZenonT(30) DEF RecordRestored, IInv, RowsOK, ObjectStates
<1>7. r \in ProcStates /\ r.at = "plan" /\ r.op = proc[w].op
      /\ proc' = [proc EXCEPT ![w] = r]
  <2>1. proc[w] \in ProcStates
    BY DEF IInv, RowsOK
  <2>2. r \in ProcStates /\ r.at = "plan" /\ r.op = proc[w].op
    BY <2>1 DEF ProcStates
  <2>3. proc' = [proc EXCEPT ![w].at = "plan", ![w].slot = None]
    BY DEF RecordRestored
  <2>4. proc' = [proc EXCEPT ![w] = r]
    BY <2>1, <2>3 DEF IInv, RowsOK
  <2>. QED
    BY <2>2, <2>4
<1>. HIDE DEF r, y, s, temp
<1>8. /\ objs' \in [Ops -> [Slots -> ObjectStates]]
      /\ \A q \in Ops \ {o} : objs'[q] = objs[q]
      /\ \A t \in Slots : objs'[o][t] = IF t = s THEN y ELSE objs[o][t]
  BY <1>3, <1>5, <1>6 DEF IInv, RowsOK
<1>9. \A t \in Slots : /\ Present(o, t) => Present(o, t)'
                       /\ t \in Ids /\ Present(o, t)' => Present(o, t)
                       /\ ~Present(o, t)' => Blank(objs'[o][t])
  BY <1>3, <1>5, <1>8 DEF IInv, PlansFollow, Present
<1>10. proc' \in [Processes -> ProcStates] /\ \A p \in Processes :
              \/ proc'[p] = proc[p]
              \/ proc'[p].at = "plan" /\ proc'[p].op = proc[p].op /\ proc[p].at # "idle"
  BY <1>1, <1>7 DEF IInv, RowsOK
<1>11. UNCHANGED <<entries, versions, refs, ops, names, disk, lock, faults>>
  BY DEF RecordRestored
<1>. QED
  BY <1>3, <1>8, <1>9, <1>10, <1>11, ObjectStep

LEMMA IntendHolds ==
    ASSUME IInv, NEW o \in Ops, Intend(o) PROVE IInv'
<1>. DEFINE old == entries[ops[o].file].current
            y == [objs[o][old] EXCEPT !.started = TRUE]
            z == Object(o, InStaging(o), objs[o][old].src)
<1>. USE Constants
<1>1. /\ ops[o].phase # "none" /\ proc[o].at = "plan" /\ entries[ops[o].file].busy = o
      /\ entries[ops[o].file].state = "active" /\ objs[o][old].prepared
  BY Recorder DEF Intend
<1>2. ops[o].file \in Ids
  BY <1>1 DEF IInv, PlansFollow
<1>3. old \in Ids /\ objs[o][old] \in ObjectStates
  BY <1>1, <1>2 DEF IInv, EntriesFilled, RowsOK
<1>4. Present(o, old)
  BY <1>1, <1>3 DEF IInv, PlansFollow, Blank
<1>5. y \in ObjectStates /\ y.ver = objs[o][old].ver
  BY <1>3 DEF ObjectStates
<1>6. z \in ObjectStates /\ z.ver = o
  <2>1. objs[o][old].src \in Locations \cup {None}
    BY <1>3 DEF ObjectStates
  <2>. QED
    BY <2>1, Addresses, BlankRows
<1>7. objs' = [objs EXCEPT ![o] = [objs[o] EXCEPT ![old] = y, !["replacement"] = z]]
  BY <1>1, <1>3 DEF Intend, IInv, RowsOK
<1>8. UNCHANGED <<entries, versions, refs, ops, names, disk, lock, faults, proc>>
  BY DEF Intend
<1>. HIDE DEF y, z, old
<1>9. /\ objs' \in [Ops -> [Slots -> ObjectStates]]
      /\ \A q \in Ops \ {o} : objs'[q] = objs[q]
      /\ \A t \in Slots : objs'[o][t] = IF t = "replacement" THEN z
                                         ELSE IF t = old THEN y ELSE objs[o][t]
  BY <1>3, <1>5, <1>6, <1>7 DEF IInv, RowsOK
<1>10. \A t \in Slots : /\ Present(o, t) => Present(o, t)'
                        /\ t \in Ids /\ Present(o, t)' => Present(o, t)
                        /\ ~Present(o, t)' => Blank(objs'[o][t])
  BY <1>4, <1>5, <1>6, <1>9 DEF IInv, PlansFollow, Present
<1>11. proc' \in [Processes -> ProcStates]
  BY <1>8 DEF IInv, RowsOK
<1>. QED
  BY <1>1, <1>8, <1>9, <1>10, <1>11, ObjectStep

LEMMA RecordDropHolds ==
    ASSUME IInv, NEW p \in Processes, RecordDrop(p) PROVE IInv'
<1>. USE Constants
<1>1. proc[p].at = "dropped" /\ ops[proc[p].op].phase # "none" /\ proc[p].op \in Ops
      /\ proc[p].loc \in Locations
  BY Recorder DEF RecordDrop, IInv, ExecutorsPlaced, PlacedAs
<1>2. PICK o \in Ops : o = proc[p].op
  BY <1>1
<1>3. PICK D \in SUBSET Confirmed(p) :
        /\ RecordDeleted(o, D)
        /\ proc' \in {proc, [proc EXCEPT ![p].at = "plan", ![p].loc = None]}
  BY <1>2 DEF RecordDrop
<1>4. \A s \in Slots : (<<s, "source">> \in D \/ <<s, "target">> \in D) => Present(o, s)
  <2>1. \A d \in Confirmed(p) : d[1] \in PendingSource(o) \cup PendingTarget(o)
    BY <1>2 DEF Confirmed
  <2>2. \A s \in PendingSource(o) \cup PendingTarget(o) : Present(o, s)
    BY DEF PendingSource, PendingTarget, IInv, PlansFollow, Blank
  <2>. QED
    BY <1>3, <2>1, <2>2
<1>5. ASSUME NEW s \in Slots
      PROVE  /\ Deleted(objs[o][s], s, D) \in ObjectStates
             /\ Deleted(objs[o][s], s, D).ver = objs[o][s].ver
             /\ ~Present(o, s) => Blank(Deleted(objs[o][s], s, D))
  <2>1. objs[o][s] \in ObjectStates
    BY DEF IInv, RowsOK
  <2>2. ~Present(o, s) => Blank(objs[o][s]) /\ <<s, "source">> \notin D
    BY <1>4 DEF IInv, PlansFollow
  <2>. QED
    BY <2>1, <2>2 DEF Deleted, Blank, ObjectStates
<1>6. objs' = [objs EXCEPT ![o] = [s \in Slots |-> Deleted(objs[o][s], s, D)]]
  BY <1>3 DEF RecordDeleted
<1>7. /\ objs' \in [Ops -> [Slots -> ObjectStates]]
      /\ \A q \in Ops \ {o} : objs'[q] = objs[q]
      /\ \A s \in Slots : objs'[o][s] = Deleted(objs[o][s], s, D)
  BY <1>5, <1>6 DEF IInv, RowsOK
<1>8. \A s \in Slots : /\ Present(o, s) => Present(o, s)'
                       /\ s \in Ids /\ Present(o, s)' => Present(o, s)
                       /\ ~Present(o, s)' => Blank(objs'[o][s])
  BY <1>5, <1>7 DEF Present
<1>9. proc' \in [Processes -> ProcStates] /\ \A q \in Processes :
              \/ proc'[q] = proc[q]
              \/ proc'[q].at = "plan" /\ proc'[q].op = proc[q].op /\ proc[q].at # "idle"
  <2>1. proc \in [Processes -> ProcStates]
    BY DEF IInv, RowsOK
  <2>. DEFINE r == [proc[p] EXCEPT !.at = "plan", !.loc = None]
  <2>2. r \in ProcStates /\ r.at = "plan" /\ r.op = proc[p].op
    <3>1. proc[p] \in ProcStates
      BY <2>1
    <3>. QED
      BY <3>1 DEF ProcStates
  <2>3. proc' \in {proc, [proc EXCEPT ![p] = r]}
    BY <1>3, <2>1
  <2>. HIDE DEF r
  <2>. QED
    BY <1>1, <2>1, <2>2, <2>3
<1>10. UNCHANGED <<entries, versions, refs, ops, names, disk, lock, faults>>
  BY DEF RecordDrop
<1>. QED
  BY <1>1, <1>2, <1>7, <1>8, <1>9, <1>10, ObjectStep

-----------------------------------------------------------------------------
(* Leases, locks and failures *)

\* What changes of an operation is who holds it and in which state it is found.
LEMMA LeaseStep ==
    ASSUME IInv, NEW o \in Ops, NEW q \in OpStates,
           q.phase = ops[o].phase, q.kind = ops[o].kind, q.file = ops[o].file,
           q.path = ops[o].path, ops' = [ops EXCEPT ![o] = q],
           UNCHANGED <<entries, versions, refs, objs, names, disk>>,
           proc' \in [Processes -> ProcStates], \A p \in Processes : PlacedAs(p, proc'[p]),
           lock' \in Processes \cup {None}, faults' \in Nat
    PROVE  IInv'
<1>1. RowsOK'
  BY DEF IInv, RowsOK
<1>2. \A r \in Ops : /\ ops'[r].phase = ops[r].phase /\ ops'[r].kind = ops[r].kind
                     /\ ops'[r].file = ops[r].file /\ ops'[r].path = ops[r].path
  BY DEF IInv, RowsOK
<1>3. \A r \in Ops, s \in Slots : /\ Present(r, s)' = Present(r, s)
                                  /\ ~Present(r, s) => Blank(objs[r][s])
                                  /\ Present(r, s) => ops[r].phase # "none"
  BY DEF IInv, PlansFollow, Present
<1>4. \A p \in Processes : PlacedAs(p, proc[p])'
  BY <1>2 DEF PlacedAs, Present
<1>. QED
  BY <1>1, <1>2, <1>3, <1>4, Constants, PlanStep

\* An executor stops, notices that it must, or loses its lock.
LEMMA StopsHold ==
    ASSUME IInv, NEW p \in Processes, GiveUp(p) \/ Break(p) \/ Crash(p) \/ LoseLock(p)
    PROVE  IInv'
<1>. USE Constants, FaultCounted
<1>1. UNCHANGED <<entries, versions, refs, ops, objs, names>>
      /\ faults' \in Nat /\ disk' \in [Locations -> Contents]
  BY DEF GiveUp, Break, Crash, LoseLock, IInv, RowsOK
<1>2. CASE GiveUp(p) \/ Break(p)
  <2>1. Leave(p) /\ proc[p].at # "idle"
    BY <1>2 DEF GiveUp, Break, Working
  <2>. QED
    BY <1>1, <2>1, LeaveStep
<1>3. CASE Crash(p)
  BY <1>1, <1>3, DieStep DEF Crash
<1>4. CASE LoseLock(p)
  <2>1. proc[p] \in ProcStates /\ PlacedAs(p, proc[p])
    BY DEF IInv, RowsOK, ExecutorsPlaced
  <2>2. proc' = [proc EXCEPT ![p] = proc[p]] /\ lock' = None
    BY <1>4 DEF LoseLock, IInv, RowsOK
  <2>. QED
    BY <1>1, <2>1, <2>2, ProcStep
<1>. QED
  BY <1>2, <1>3, <1>4

LEMMA RefuseHolds ==
    ASSUME IInv, NEW o \in Ops, Refuse(o) PROVE IInv'
<1>1. UNCHANGED <<entries, versions, refs, ops, objs, names>> /\ Leave(o) /\ proc[o].at # "idle"
      /\ faults' \in Nat /\ disk' \in [Locations -> Contents]
  BY DEF Refuse, IInv, RowsOK
<1>. QED
  BY <1>1, LeaveStep, Constants

LEMMA HandoffHolds ==
    ASSUME IInv, NEW p \in Processes, Handoff(p) PROVE IInv'
<1>. USE Constants
<1>1. Die(p) /\ UNCHANGED <<entries, versions, refs, objs, names, usage, disk, faults>>
      /\ proc[p].at = "handoff"
  BY DEF Handoff
<1>2. CASE UNCHANGED ops
  BY <1>1, <1>2, DieStep, FaultCounted, DiskWritten DEF IInv, RowsOK
<1>3. CASE ops' = [ops EXCEPT ![proc[p].op].error = TRUE, ![proc[p].op].live = FALSE]
  <2>1. PICK o \in Ops : o = proc[p].op
    BY <1>1 DEF IInv, ExecutorsPlaced, PlacedAs
  <2>. DEFINE q == [ops[o] EXCEPT !.error = TRUE, !.live = FALSE]
  <2>2. /\ q \in OpStates /\ q.phase = ops[o].phase /\ q.kind = ops[o].kind
        /\ q.file = ops[o].file /\ q.path = ops[o].path
    <3>1. ops[o] \in OpStates
      BY DEF IInv, RowsOK
    <3>. QED
      BY <3>1 DEF OpStates
  <2>3. ops' = [ops EXCEPT ![o] = q]
    BY <1>3, <2>1 DEF IInv, RowsOK
  <2>. HIDE DEF q
  <2>4. Idle \in ProcStates /\ PlacedAs(p, Idle)
    BY BlankRows DEF PlacedAs, Idle
  <2>5. proc' \in [Processes -> ProcStates] /\ \A r \in Processes : PlacedAs(r, proc'[r])
    BY <1>1, <2>4 DEF Die, IInv, RowsOK, ExecutorsPlaced
  <2>6. lock' \in Processes \cup {None} /\ faults' \in Nat
    BY <1>1, LockKept, FaultCounted DEF Die
  <2>. QED
    BY <1>1, <2>2, <2>3, <2>5, <2>6, LeaseStep
<1>. QED
  BY <1>2, <1>3 DEF Handoff

\* Leases run out, and the day of an operation passes.
LEMMA TimeHolds ==
    ASSUME IInv, NEW o \in Ops, Stall(o) \/ Lapse(o) \/ Deadline(o) PROVE IInv'
<1>. USE Constants
<1>1. PICK q \in OpStates :
          /\ q.phase = ops[o].phase /\ q.kind = ops[o].kind
          /\ q.file = ops[o].file /\ q.path = ops[o].path /\ ops' = [ops EXCEPT ![o] = q]
  <2>1. ops[o] \in OpStates
    BY DEF IInv, RowsOK
  <2>2. CASE Stall(o) \/ Lapse(o)
    <3>. DEFINE q == [ops[o] EXCEPT !.live = FALSE]
    <3>1. /\ q \in OpStates /\ q.phase = ops[o].phase /\ q.kind = ops[o].kind
          /\ q.file = ops[o].file /\ q.path = ops[o].path
      BY <2>1 DEF OpStates
    <3>2. ops' = [ops EXCEPT ![o] = q]
      BY <2>2 DEF Stall, Lapse, IInv, RowsOK
    <3>. HIDE DEF q
    <3>. QED
      BY <3>1, <3>2
  <2>3. CASE Deadline(o)
    <3>. DEFINE q == [ops[o] EXCEPT !.due = TRUE]
    <3>1. /\ q \in OpStates /\ q.phase = ops[o].phase /\ q.kind = ops[o].kind
          /\ q.file = ops[o].file /\ q.path = ops[o].path
      BY <2>1 DEF OpStates
    <3>2. ops' = [ops EXCEPT ![o] = q]
      BY <2>3 DEF Deadline, IInv, RowsOK
    <3>. HIDE DEF q
    <3>. QED
      BY <3>1, <3>2
  <2>. QED
    BY <2>2, <2>3
<1>2. \A p \in Processes : proc[p] \in ProcStates /\ PlacedAs(p, proc[p])
  BY DEF IInv, RowsOK, ExecutorsPlaced
<1>3. proc' \in [Processes -> ProcStates] /\ \A p \in Processes : PlacedAs(p, proc'[p])
  <2>1. CASE Stall(o)
    <3>. DEFINE t == ops[o].token
                r == [proc[t] EXCEPT !.lost = TRUE]
    <3>1. proc' = [proc EXCEPT ![t].lost = TRUE]
      BY <2>1 DEF Stall
    <3>2. \A p \in Processes : [proc[p] EXCEPT !.lost = TRUE] \in ProcStates
                               /\ PlacedAs(p, [proc[p] EXCEPT !.lost = TRUE])
      <4>. TAKE p \in Processes
      <4>. DEFINE y == [proc[p] EXCEPT !.lost = TRUE]
      <4>1. /\ y \in ProcStates /\ y.at = proc[p].at /\ y.op = proc[p].op
            /\ y.slot = proc[p].slot /\ y.loc = proc[p].loc
        BY <1>2 DEF ProcStates
      <4>. HIDE DEF y
      <4>2. PlacedAs(p, y)
        BY <1>2, <4>1 DEF PlacedAs
      <4>. QED
        BY <4>1, <4>2 DEF y
    <3>3. \A p \in Processes : proc'[p] \in {proc[p], [proc[p] EXCEPT !.lost = TRUE]}
      BY <3>1 DEF IInv, RowsOK
    <3>4. proc' \in [Processes -> ProcStates]
      BY <3>1, <3>2 DEF IInv, RowsOK
    <3>. QED
      BY <1>2, <3>2, <3>3, <3>4
  <2>2. CASE UNCHANGED proc
    BY <1>2, <2>2 DEF IInv, RowsOK
  <2>. QED
    BY <2>1, <2>2 DEF Lapse, Deadline
<1>4. UNCHANGED <<entries, versions, refs, objs, names, disk, lock>>
      /\ lock' \in Processes \cup {None} /\ faults' \in Nat
  BY FaultCounted DEF Stall, Lapse, Deadline, IInv, RowsOK
<1>. QED
  BY <1>1, <1>3, <1>4, LeaseStep

LEMMA ClaimHolds ==
    ASSUME IInv, NEW w \in Workers, NEW o \in Ops, Claim(w, o) PROVE IInv'
<1>. USE Constants
<1>. DEFINE q == [ops[o] EXCEPT !.token = w, !.live = TRUE]
            r == [Idle EXCEPT !.at = "plan", !.op = o]
<1>1. /\ q \in OpStates /\ q.phase = ops[o].phase /\ q.kind = ops[o].kind
      /\ q.file = ops[o].file /\ q.path = ops[o].path
  <2>1. ops[o] \in OpStates
    BY DEF IInv, RowsOK
  <2>. QED
    BY <2>1 DEF OpStates
<1>2. ops' = [ops EXCEPT ![o] = q]
  BY DEF Claim, IInv, RowsOK
<1>3. r \in ProcStates /\ PlacedAs(w, r)
  BY DEF Idle, ProcStates, PlacedAs
<1>4. proc' = [proc EXCEPT ![w] = r] /\ lock' = w
      /\ UNCHANGED <<entries, versions, refs, objs, names, disk, faults>>
  BY DEF Claim, Started
<1>. HIDE DEF q, r
<1>5. proc' \in [Processes -> ProcStates] /\ \A p \in Processes : PlacedAs(p, proc'[p])
  BY <1>3, <1>4 DEF IInv, RowsOK, ExecutorsPlaced
<1>. QED
  BY <1>1, <1>2, <1>4, <1>5, LeaseStep, FaultCounted

-----------------------------------------------------------------------------
(* Admission: operations begin, take hold of their file and get a plan *)

LEMMA ProcPlaced ==
    ASSUME IInv, NEW p \in Processes, NEW r \in ProcStates, proc' = [proc EXCEPT ![p] = r],
           r.at \in {"idle", "prepare", "plan", "handoff"},
           r.at # "idle" => r.op \in Ops /\ (p \in Ops => r.op = p),
           r.at = "prepare" => p \in Ops /\ ops'[p].phase # "committed",
           \A q \in Ops : ops'[q].phase = "committed" => ops[q].phase = "committed",
           \A o \in Ops, s \in Slots : Present(o, s) => Present(o, s)'
    PROVE  proc' \in [Processes -> ProcStates] /\ \A q \in Processes : PlacedAs(q, proc[q])'
<1>1. proc' \in [Processes -> ProcStates]
  BY DEF IInv, RowsOK
<1>2. ASSUME NEW q \in Processes PROVE PlacedAs(q, proc[q])'
  <2>1. CASE q = p
    <3>1. proc'[q] = r
      BY <2>1 DEF IInv, RowsOK
    <3>. QED
      BY <2>1, <3>1 DEF PlacedAs
  <2>2. CASE q # p
    <3>1. proc'[q] = proc[q] /\ PlacedAs(q, proc[q])
      BY <2>2 DEF IInv, RowsOK, ExecutorsPlaced
    <3>. QED
      BY <3>1 DEF PlacedAs
  <2>. QED
    BY <2>1, <2>2
<1>. QED
  BY <1>1, <1>2

LEMMA BeginStep ==
    ASSUME IInv, NEW o \in Ops, ops[o].phase \in {"none", "open"},
           UNCHANGED <<versions, refs>>, RowsOK',
           \A g \in Ids :
              /\ entries'[g].state = entries[g].state
              /\ entries'[g].current = entries[g].current /\ entries'[g].path = entries[g].path
              /\ \/ entries'[g].busy = entries[g].busy
                 \/ entries[g].busy \in {None, o} /\ entries'[g].busy = o
                    /\ entries[g].state # "absent",
           \A q \in Ops \ {o} : ops'[q] = ops[q] /\ objs'[q] = objs[q],
           ops'[o].phase = "open", ops'[o].file \in Ids,
           ops'[o].kind \in UserKinds => ops'[o].path \in Paths,
           \A s \in Slots : ~Present(o, s)' => Blank(objs'[o][s]),
           ops'[o].kind \in {"purge"} \cup SystemKinds =>
              \A v \in Ids : Present(o, v)' =>
                 /\ versions[v].state = "live" /\ versions[v].file = ops'[o].file
                 /\ entries'[ops'[o].file].busy = o /\ v \notin refs,
           \A p \in Processes : PlacedAs(p, proc[p])'
    PROVE  IInv'
<1>. USE Constants
<1>1. EntriesFilled' /\ VersionsFiled'
  BY DEF IInv, EntriesFilled, VersionsFiled
<1>2. IdsFresh'
  BY DEF IInv, IdsFresh
<1>3. PlansFollow'
  BY DEF IInv, PlansFollow, Present
<1>4. ASSUME NEW q \in Ops, NEW v \in Ids, (Unsettled(q) /\ Purging(q) /\ Present(q, v))'
      PROVE  /\ versions[v].state = "live" /\ versions[v].file = ops'[q].file
             /\ entries'[ops'[q].file].busy = q /\ v \notin refs
  <2>1. CASE q = o
    BY <1>4, <2>1 DEF Purging
  <2>2. CASE q # o
    <3>1. Unsettled(q) /\ Purging(q) /\ Present(q, v) /\ ops'[q].file = ops[q].file
      BY <1>4, <2>2 DEF Unsettled, Open, Committed, Purging, Present
    <3>2. /\ versions[v].state = "live" /\ versions[v].file = ops[q].file
          /\ entries[ops[q].file].busy = q /\ v \notin refs /\ ops[q].file \in Ids
      BY <3>1 DEF IInv, PurgesHold, PlansFollow, Unsettled, Open, Committed
    <3>. QED
      BY <2>2, <3>1, <3>2
  <2>. QED
    BY <2>1, <2>2
<1>5. PurgesHold'
  BY <1>4 DEF PurgesHold
<1>6. ReferencedStays'
  <2>1. \A v \in refs : versions[v].state = "live" /\ versions[v].file \in Ids
                        /\ entries[versions[v].file].state = "active"
    BY DEF IInv, ReferencedStays, VersionsFiled, RowsOK
  <2>2. \A v \in refs : versions'[v].state = "live" /\ entries'[versions'[v].file].state = "active"
    BY <2>1
  <2>3. \A v \in refs, q \in Ops : (Unsettled(q) /\ Purging(q))' => ~Present(q, v)'
    BY <1>4 DEF IInv, RowsOK
  <2>. QED
    BY <2>2, <2>3 DEF ReferencedStays
<1>. QED
  BY <1>1, <1>2, <1>3, <1>5, <1>6 DEF IInv, ExecutorsPlaced

LEMMA AdmitHolds ==
    ASSUME IInv, NEW o \in Ops, NEW kind \in UserKinds, NEW f \in Ids, NEW path \in Paths,
           NEW rev \in Nat, Admit(o, kind, f, path, rev)
    PROVE  IInv'
<1>. USE Constants
<1>. DEFINE q == [NoOp EXCEPT !.phase = "open", !.kind = kind, !.file = f,
                  !.path = path, !.rev = rev, !.token = o, !.live = TRUE]
            r == [Idle EXCEPT !.at = "prepare", !.op = o]
<1>1. /\ q \in OpStates /\ q.phase = "open" /\ q.kind = kind /\ q.file = f /\ q.path = path
  BY DEF NoOp, OpStates
<1>2. r \in ProcStates /\ r.at = "prepare" /\ r.op = o
  BY DEF Idle, ProcStates
<1>3. /\ ops' = [ops EXCEPT ![o] = q] /\ proc' = [proc EXCEPT ![o] = r] /\ lock' = o
      /\ UNCHANGED <<entries, versions, refs, objs, names, usage, disk, faults>>
      /\ ops[o].phase = "none"
  BY DEF Admit
<1>. HIDE DEF q, r
<1>4. ops'[o] = q /\ \A p \in Ops \ {o} : ops'[p] = ops[p]
  BY <1>3 DEF IInv, RowsOK
<1>5. proc' \in [Processes -> ProcStates] /\ \A p \in Processes : PlacedAs(p, proc[p])'
  <2>1. \A p \in Ops, s \in Slots : Present(p, s) => Present(p, s)'
    BY <1>3 DEF Present
  <2>2. \A p \in Ops : ops'[p].phase = "committed" => ops[p].phase = "committed"
    BY <1>1, <1>4
  <2>. QED
    BY <1>1, <1>2, <1>3, <1>4, <2>1, <2>2, ProcPlaced
<1>6. RowsOK'
  BY <1>1, <1>3, <1>5 DEF IInv, RowsOK
<1>7. \A s \in Slots : ~Present(o, s)' /\ Blank(objs'[o][s])
  BY <1>3 DEF IInv, PlansFollow, Present
<1>. QED
  BY <1>1, <1>3, <1>4, <1>5, <1>6, <1>7, BeginStep

LEMMA RequestHolds ==
    ASSUME IInv, NEW o \in Ops, Request(o) PROVE IInv'
<1>. USE Constants
<1>1. ASSUME NEW path \in Paths, Admit(o, "upload", o, path, 0) PROVE IInv'
  BY <1>1, AdmitHolds DEF UserKinds
<1>2. ASSUME NEW kind \in Asks[o] \ {"upload"}, NEW f \in Ids, NEW rev \in 1 .. entries[f].rev,
             NEW path \in Paths, Admit(o, kind, f, path, rev)
      PROVE  IInv'
  <2>1. kind \in UserKinds
    BY FilesAssumption
  <2>2. rev \in Nat
    <3>1. entries[f].rev \in Nat
      BY DEF IInv, RowsOK, EntryStates
    <3>. QED
      BY <3>1
  <2>. QED
    BY <1>2, <2>1, <2>2, AdmitHolds
<1>. QED
  BY <1>1, <1>2 DEF Request

\* A file whose expired version or trash a job is to delete: its versions are
\* live, of that file and referred to by nobody.
LEMMA EnlistHolds ==
    ASSUME IInv, NEW w \in Workers, NEW o \in Ops, NEW kind \in SystemKinds, NEW f \in Ids,
           NEW doomed \in SUBSET Ids, Enlist(w, o, kind, f, doomed), entries[f].state # "absent",
           \A v \in doomed : versions[v].state = "live" /\ versions[v].file = f /\ v \notin refs
    PROVE  IInv'
<1>. USE Constants
<1>. DEFINE q == [NoOp EXCEPT !.phase = "open", !.kind = kind, !.file = f,
                  !.token = w, !.live = TRUE, !.due = TRUE]
            r == [Idle EXCEPT !.at = "plan", !.op = o]
            plan == [s \in Slots |-> IF s \in doomed THEN Object(s, versions[s].loc, None)
                                                     ELSE objs[o][s]]
            e == [entries[f] EXCEPT !.busy = o]
<1>1. /\ q \in OpStates /\ q.phase = "open" /\ q.kind = kind /\ q.file = f
      /\ kind \notin UserKinds
  BY DEF NoOp, OpStates, SystemKinds, UserKinds
<1>2. r \in ProcStates /\ r.at = "plan" /\ r.op = o
  BY DEF Idle, ProcStates
<1>3. /\ entries[f].busy = None /\ ops[o].phase = "none"
      /\ UNCHANGED <<versions, refs, names, usage, disk, faults>> /\ lock' = w
      /\ ops' = [ops EXCEPT ![o] = q] /\ proc' = [proc EXCEPT ![w] = r]
  BY DEF Enlist, Started
<1>4. objs' = [objs EXCEPT ![o] = plan]
  BY DEF Enlist
<1>5. entries' = [entries EXCEPT ![f] = e] /\ e \in EntryStates
      /\ e.state = entries[f].state /\ e.current = entries[f].current
      /\ e.path = entries[f].path /\ e.busy = o
  <2>1. entries[f] \in EntryStates
    BY DEF IInv, RowsOK
  <2>. QED
    BY <2>1 DEF Enlist, IInv, RowsOK, EntryStates
<1>6. \A s \in Slots : /\ plan[s] \in ObjectStates
                       /\ plan[s].ver # None <=> s \in doomed
                       /\ s \notin doomed => Blank(plan[s])
  <2>. TAKE s \in Slots
  <2>1. CASE s \in doomed
    <3>1. versions[s].loc \in Locations \cup {None}
      BY <2>1 DEF IInv, RowsOK, VersionStates
    <3>2. plan[s] = Object(s, versions[s].loc, None)
      BY <2>1
    <3>. QED
      BY <2>1, <3>1, <3>2, BlankRows
  <2>2. CASE s \notin doomed
    <3>1. plan[s] = objs[o][s] /\ objs[o][s] \in ObjectStates
      BY <2>2 DEF IInv, RowsOK
    <3>2. ~Present(o, s) /\ Blank(objs[o][s])
      BY <1>3 DEF IInv, PlansFollow
    <3>. QED
      BY <2>2, <3>1, <3>2 DEF Present
  <2>. QED
    BY <2>1, <2>2
<1>7. objs' \in [Ops -> [Slots -> ObjectStates]] /\ objs'[o] = plan
      /\ \A p \in Ops \ {o} : objs'[p] = objs[p]
  <2>1. plan \in [Slots -> ObjectStates]
    BY <1>6
  <2>. QED
    BY <1>4, <2>1 DEF IInv, RowsOK
<1>. HIDE DEF q, r, plan, e
<1>8. \A p \in Ops, s \in Slots : Present(p, s) => Present(p, s)'
  BY <1>3, <1>7 DEF IInv, PlansFollow, Present
<1>9. proc' \in [Processes -> ProcStates] /\ \A p \in Processes : PlacedAs(p, proc[p])'
  <2>1. \A p \in Ops : ops'[p].phase = "committed" => ops[p].phase = "committed"
    BY <1>1, <1>3 DEF IInv, RowsOK
  <2>. QED
    BY <1>2, <1>3, <1>8, <2>1, ProcPlaced
<1>10. RowsOK'
  BY <1>1, <1>3, <1>5, <1>7, <1>9 DEF IInv, RowsOK
<1>11. \A g \in Ids : entries'[g] = IF g = f THEN e ELSE entries[g]
  BY <1>5 DEF IInv, RowsOK
<1>12. \A p \in Ops \ {o} : ops'[p] = ops[p] /\ objs'[p] = objs[p]
  BY <1>3, <1>7 DEF IInv, RowsOK
<1>13. ops'[o] = q
  BY <1>3 DEF IInv, RowsOK
<1>14. \A s \in Slots : (Present(o, s)' <=> s \in doomed) /\ (~Present(o, s)' => Blank(objs'[o][s]))
  BY <1>6, <1>7 DEF Present
<1>15. entries'[f].busy = o
  BY <1>5, <1>11
<1>16. \A g \in Ids :
          /\ entries'[g].state = entries[g].state
          /\ entries'[g].current = entries[g].current /\ entries'[g].path = entries[g].path
          /\ \/ entries'[g].busy = entries[g].busy
             \/ entries[g].busy \in {None, o} /\ entries'[g].busy = o
                /\ entries[g].state # "absent"
  BY <1>3, <1>5, <1>11
<1>17. \A v \in Ids : Present(o, v)' =>
                 /\ versions[v].state = "live" /\ versions[v].file = ops'[o].file
                 /\ entries'[ops'[o].file].busy = o /\ v \notin refs
  BY <1>1, <1>13, <1>14, <1>15
<1>. QED
  BY <1>1, <1>3, <1>9, <1>10, <1>12, <1>13, <1>14, <1>16, <1>17, BeginStep

LEMMA EnlistingHolds ==
    ASSUME IInv, NEW w \in Workers, NEW o \in Ops,
           (\E v \in Ids : EnlistHistory(w, o, v)) \/ (\E f \in Ids : EnlistTrash(w, o, f))
    PROVE  IInv'
<1>1. ASSUME NEW v \in Ids, EnlistHistory(w, o, v) PROVE IInv'
  <2>. DEFINE f == versions[v].file
  <2>1. f \in Ids /\ entries[f].state # "absent" /\ v \notin refs /\ versions[v].state = "live"
        /\ Enlist(w, o, "history_purge", f, {v})
    BY <1>1 DEF EnlistHistory, IInv, VersionsFiled
  <2>. QED
    BY <2>1, EnlistHolds DEF SystemKinds
<1>2. ASSUME NEW f \in Ids, EnlistTrash(w, o, f) PROVE IInv'
  <2>1. /\ entries[f].state # "absent" /\ Enlist(w, o, "trash_purge", f, VersionsOf(f))
        /\ VersionsOf(f) \subseteq Ids
    BY <1>2 DEF EnlistTrash, VersionsOf
  <2>2. \A v \in VersionsOf(f) :
            versions[v].state = "live" /\ versions[v].file = f /\ v \notin refs
    BY <1>2 DEF EnlistTrash, VersionsOf, Referenced
  <2>. QED
    BY <2>1, <2>2, EnlistHolds DEF SystemKinds
<1>. QED
  BY <1>1, <1>2

\* A request prepares: it takes hold of the file it concerns and plans its
\* objects; only a purge plans without a destination.
LEMMA PrepareStep ==
    ASSUME IInv, NEW o \in Ops, proc[o].at = "prepare", Holds(o), Go(o, "plan"),
           UNCHANGED <<versions, refs, disk, lock, faults>>,
           entries' \in {entries, [entries EXCEPT ![ops[o].file].busy = o]},
           entries' # entries => entries[ops[o].file].busy \in {None, o}
                                 /\ entries[ops[o].file].state # "absent",
           names' \in [Paths -> Ops \cup {None}],
           ops' \in {ops, [ops EXCEPT ![o].reserved = Bytes[o]]},
           ops[o].kind \in UserKinds,
           objs' \in [Ops -> [Slots -> ObjectStates]], \A q \in Ops \ {o} : objs'[q] = objs[q],
           \A s \in Slots : objs'[o][s] = objs[o][s] \/ objs'[o][s].ver # None,
           ops[o].kind = "purge" =>
              /\ entries'[ops[o].file].busy = o
              /\ \A s \in Slots : objs'[o][s] = objs[o][s] \/ s \in VersionsOf(ops[o].file) \ refs
    PROVE  IInv'
<1>. USE Constants
<1>1. /\ ops[o].phase = "open" /\ proc[o] \in ProcStates /\ proc[o].op = o
      /\ ops[o].file \in Ids /\ (ops[o].kind \in UserKinds => ops[o].path \in Paths)
  <2>1. proc[o].op = o /\ ops[o].phase # "committed" /\ proc[o] \in ProcStates
    BY DEF IInv, ExecutorsPlaced, PlacedAs, RowsOK
  <2>2. ops[o].phase = "open"
    BY <2>1 DEF Holds, Unsettled, Open, Committed
  <2>. QED
    BY <2>1, <2>2 DEF IInv, PlansFollow
<1>2. ops[o] \in OpStates
  BY DEF IInv, RowsOK
<1>3. /\ ops' \in [Ops -> OpStates] /\ \A q \in Ops \ {o} : ops'[q] = ops[q]
      /\ ops'[o].phase = "open" /\ ops'[o].file = ops[o].file
      /\ ops'[o].path = ops[o].path /\ ops'[o].kind = ops[o].kind
  <2>1. CASE ops' = ops
    BY <1>1, <2>1 DEF IInv, RowsOK
  <2>2. CASE ops' = [ops EXCEPT ![o].reserved = Bytes[o]]
    BY <1>1, <1>2, <2>2, ZenonT(30) DEF IInv, RowsOK, OpStates
  <2>. QED
    BY <2>1, <2>2
<1>4. \A s \in Slots : objs'[o][s] = objs[o][s] \/ objs'[o][s].ver # None
  OBVIOUS
<1>5. \A g \in Ids :
          /\ entries'[g] \in EntryStates
          /\ entries'[g].state = entries[g].state
          /\ entries'[g].current = entries[g].current /\ entries'[g].path = entries[g].path
          /\ \/ entries'[g].busy = entries[g].busy
             \/ entries[g].busy \in {None, o} /\ entries'[g].busy = o
                /\ entries[g].state # "absent"
  <2>1. CASE entries' = entries
    BY <2>1 DEF IInv, RowsOK
  <2>2. CASE entries' # entries
    <3>1. entries' = [entries EXCEPT ![ops[o].file].busy = o]
      BY <2>2
    <3>. DEFINE e == [entries[ops[o].file] EXCEPT !.busy = o]
    <3>2. entries[ops[o].file] \in EntryStates
      BY <1>1 DEF IInv, RowsOK
    <3>3. /\ e \in EntryStates /\ e.state = entries[ops[o].file].state /\ e.busy = o
          /\ e.current = entries[ops[o].file].current /\ e.path = entries[ops[o].file].path
      BY <3>2 DEF EntryStates
    <3>4. \A g \in Ids : entries'[g] = IF g = ops[o].file THEN e ELSE entries[g]
      BY <1>1, <3>1 DEF IInv, RowsOK
    <3>. HIDE DEF e
    <3>. QED
      BY <2>2, <3>3, <3>4 DEF IInv, RowsOK
  <2>. QED
    BY <2>1, <2>2
<1>6. entries' \in [Ids -> EntryStates]
  BY <1>5 DEF IInv, RowsOK
<1>7. \A q \in Ops, s \in Slots : Present(q, s) => Present(q, s)'
  BY <1>4 DEF Present
<1>8. \A s \in Slots : ~Present(o, s)' => Blank(objs'[o][s])
  BY <1>4 DEF Present, IInv, PlansFollow
<1>9. /\ proc' \in [Processes -> ProcStates]
      /\ \A p \in Processes : PlacedAs(p, proc[p])'
  <2>. DEFINE r == [proc[o] EXCEPT !.at = "plan"]
  <2>1. r \in ProcStates /\ r.at = "plan" /\ r.op = o
    BY <1>1 DEF ProcStates
  <2>2. proc' = [proc EXCEPT ![o] = r]
    BY DEF Go, IInv, RowsOK
  <2>3. \A q \in Ops : ops'[q].phase = "committed" => ops[q].phase = "committed"
    BY <1>1, <1>3
  <2>. HIDE DEF r
  <2>. QED
    BY <1>7, <2>1, <2>2, <2>3, ProcPlaced
<1>10. RowsOK'
  BY <1>3, <1>4, <1>6, <1>9 DEF IInv, RowsOK
<1>11. ASSUME ops'[o].kind \in {"purge"} \cup SystemKinds
       PROVE  \A v \in Ids : Present(o, v)' =>
                 /\ versions[v].state = "live" /\ versions[v].file = ops'[o].file
                 /\ entries'[ops'[o].file].busy = o /\ v \notin refs
  <2>. SUFFICES ASSUME NEW v \in Ids, Present(o, v)'
                PROVE  /\ versions[v].state = "live" /\ versions[v].file = ops[o].file
                       /\ entries'[ops[o].file].busy = o /\ v \notin refs
    BY <1>3
  <2>1. CASE Present(o, v)
    <3>1. Unsettled(o) /\ Purging(o)
      BY <1>1, <1>3, <1>11 DEF Unsettled, Open, Purging
    <3>2. /\ versions[v].state = "live" /\ versions[v].file = ops[o].file
          /\ entries[ops[o].file].busy = o /\ v \notin refs
      BY <2>1, <3>1 DEF IInv, PurgesHold
    <3>. QED
      BY <1>1, <1>5, <3>2
  <2>2. CASE ~Present(o, v)
    <3>1. objs'[o][v] # objs[o][v]
      BY <2>2 DEF Present
    <3>2. ops[o].kind = "purge"
      BY <1>3, <1>11 DEF UserKinds, SystemKinds
    <3>. QED
      BY <3>1, <3>2 DEF VersionsOf
  <2>. QED
    BY <2>1, <2>2
<1>. QED
  BY <1>1, <1>3, <1>4, <1>5, <1>8, <1>9, <1>10, <1>11, BeginStep

LEMMA PrepareHolds ==
    ASSUME IInv, NEW o \in Ops, Prepare(o) PROVE IInv'
<1>. USE Constants
<1>. DEFINE f == ops[o].file
<1>1. /\ proc[o].at = "prepare" /\ Holds(o) /\ Go(o, "plan")
      /\ UNCHANGED <<versions, refs, disk, lock, faults>>
  BY DEF Prepare
<1>2. ops[o] \in OpStates /\ f \in Ids /\ (ops[o].kind \in UserKinds => ops[o].path \in Paths)
  BY <1>1, Recorder DEF IInv, RowsOK, PlansFollow, ExecutorsPlaced, PlacedAs
<1>3. /\ names \in [Paths -> Ops \cup {None}] /\ objs \in [Ops -> [Slots -> ObjectStates]]
      /\ \A v \in Ids : versions[v].loc \in Locations \cup {None}
  BY DEF IInv, RowsOK, VersionStates
<1>4. CASE PrepareUpload(o)
  <2>. DEFINE x == Object(o, None, InFiles(ops[o].path))
  <2>1. ops[o].kind = "upload" /\ ops[o].kind \in UserKinds
    BY <1>4 DEF PrepareUpload, CanUpload, UserKinds
  <2>2. x \in ObjectStates /\ x.ver = o
    BY <1>2, <2>1, Addresses, BlankRows
  <2>3. objs' = [objs EXCEPT ![o][o] = x]
    BY <1>4 DEF PrepareUpload
  <2>4. UNCHANGED entries /\ ops' = [ops EXCEPT ![o].reserved = Bytes[o]]
        /\ names' \in [Paths -> Ops \cup {None}]
    BY <1>3, <1>4 DEF PrepareUpload, Reserve
  <2>. HIDE DEF x
  <2>5. /\ objs' \in [Ops -> [Slots -> ObjectStates]] /\ \A q \in Ops \ {o} : objs'[q] = objs[q]
        /\ \A s \in Slots : objs'[o][s] = objs[o][s] \/ objs'[o][s].ver # None
    BY <1>3, <2>2, <2>3
  <2>. QED
    BY <1>1, <2>1, <2>4, <2>5, PrepareStep
<1>5. CASE PrepareOverwrite(o)
  <2>. DEFINE old == entries[f].current
              x == Object(o, None, InStaging(o))
              y == Object(old, versions[old].loc, InHistory(old))
  <2>1. /\ ops[o].kind = "overwrite" /\ ops[o].kind \in UserKinds
        /\ entries[f].state = "active" /\ entries[f].busy \in {None, o}
    BY <1>5 DEF PrepareOverwrite, CanOverwrite, UserKinds
  <2>2. old \in Ids
    BY <1>2, <2>1 DEF IInv, EntriesFilled
  <2>3. x \in ObjectStates /\ x.ver = o
    BY Addresses, BlankRows
  <2>4. y \in ObjectStates /\ y.ver = old
    BY <1>3, <2>2, Addresses, BlankRows
  <2>5. objs' = [objs EXCEPT ![o]["staging"] = x, ![o][old] = y]
    BY <1>5 DEF PrepareOverwrite
  <2>6. /\ entries' = [entries EXCEPT ![f].busy = o]
        /\ ops' = [ops EXCEPT ![o].reserved = Bytes[o]]
        /\ names' \in [Paths -> Ops \cup {None}]
    BY <1>3, <1>5 DEF PrepareOverwrite, Reserve
  <2>. HIDE DEF x, y, old
  <2>7. /\ objs' \in [Ops -> [Slots -> ObjectStates]] /\ \A q \in Ops \ {o} : objs'[q] = objs[q]
        /\ \A s \in Slots : objs'[o][s] = objs[o][s] \/ objs'[o][s].ver # None
    BY <1>3, <2>2, <2>3, <2>4, <2>5
  <2>. QED
    BY <1>1, <2>1, <2>6, <2>7, PrepareStep
<1>6. CASE PrepareRelocation(o)
  <2>. DEFINE moved == IF ops[o].kind = "purge" THEN VersionsOf(f) ELSE {entries[f].current}
              to == Destination(o)
  <2>1. /\ ops[o].kind \in {"move", "trash", "restore", "purge"} /\ ops[o].kind \in UserKinds
        /\ entries[f].state \in {"active", "trashed"} /\ entries[f].busy \in {None, o}
        /\ ops[o].kind = "purge" => ~Referenced(f)
    BY <1>6 DEF PrepareRelocation, CanRelocate, UserKinds
  <2>2. entries[f].current \in Ids /\ moved \subseteq Ids
    BY <1>2, <2>1 DEF IInv, EntriesFilled, VersionsOf
  <2>3. to \in Locations \cup {None}
    BY <1>2, <2>1, <2>2, Addresses DEF Destination
  <2>4. objs' = [objs EXCEPT ![o] = [s \in Slots |->
             IF s \in moved THEN Object(s, versions[s].loc, to) ELSE objs[o][s]]]
    BY <1>6 DEF PrepareRelocation
  <2>5. /\ entries' = [entries EXCEPT ![f].busy = o] /\ UNCHANGED ops
        /\ names' \in [Paths -> Ops \cup {None}]
    BY <1>3, <1>6 DEF PrepareRelocation
  <2>6. entries'[f].busy = o
    BY <1>2, <2>5 DEF IInv, RowsOK, EntryStates
  <2>7. ops[o].kind = "purge" => moved \subseteq VersionsOf(f) \ refs
    BY <2>1 DEF Referenced, VersionsOf
  <2>. HIDE DEF moved, to
  <2>8. \A s \in moved : Object(s, versions[s].loc, to) \in ObjectStates
                         /\ Object(s, versions[s].loc, to).ver # None
    BY <1>3, <2>2, <2>3, BlankRows
  <2>9. /\ objs' \in [Ops -> [Slots -> ObjectStates]] /\ \A q \in Ops \ {o} : objs'[q] = objs[q]
        /\ \A s \in Slots : objs'[o][s] = IF s \in moved THEN Object(s, versions[s].loc, to)
                                                       ELSE objs[o][s]
    <3>1. [s \in Slots |-> IF s \in moved THEN Object(s, versions[s].loc, to) ELSE objs[o][s]]
             \in [Slots -> ObjectStates]
      BY <1>3, <2>8
    <3>. QED
      BY <1>3, <2>4, <3>1
  <2>10. \A s \in Slots : objs'[o][s] = objs[o][s] \/ objs'[o][s].ver # None
    BY <2>8, <2>9
  <2>11. ops[o].kind = "purge" =>
            \A s \in Slots : objs'[o][s] = objs[o][s] \/ s \in VersionsOf(f) \ refs
    BY <2>7, <2>9
  <2>12. entries[f].busy \in {None, o} /\ entries[f].state # "absent"
    BY <2>1
  <2>. QED
    BY <1>1, <2>1, <2>5, <2>6, <2>9, <2>10, <2>11, <2>12, PrepareStep
<1>. QED
  BY <1>4, <1>5, <1>6 DEF Prepare

-----------------------------------------------------------------------------
(* Publication and completion *)

\* An operation ends or is published: what it made comes to be, and nothing
\* that others hold or refer to changes hands.
LEMMA SettleStep ==
    ASSUME IInv, NEW o \in Ops, Unsettled(o), UNCHANGED <<refs, objs>>, RowsOK',
           \A q \in Ops \ {o} : ops'[q] = ops[q],
           ops'[o].phase \in {"completed", "failed"} \/ (ops'[o].phase = "committed" /\ ~Purging(o)),
           ops'[o].kind = ops[o].kind, ops'[o].file = ops[o].file, ops'[o].path = ops[o].path,
           \A p \in Processes : PlacedAs(p, proc[p])',
           EntriesFilled', VersionsFiled',
           \A q \in Ops \ {o} : ops[q].phase \in {"none", "open"} =>
              versions'[q].state = "unborn" /\ entries'[q].state = "absent",
           \A q \in Ops \ {o}, v \in Ids : Unsettled(q) /\ Purging(q) /\ Present(q, v) =>
              /\ versions'[v].state = "live" /\ versions'[v].file = versions[v].file
              /\ entries'[ops[q].file].busy = q,
           \A v \in refs :
              versions'[v].state = "live" /\ entries'[versions'[v].file].state = "active"
    PROVE  IInv'
<1>. USE Constants
<1>1. IdsFresh'
  BY DEF IInv, IdsFresh
<1>2. PlansFollow'
  BY DEF IInv, PlansFollow, Present, Unsettled, Open, Committed
<1>3. ASSUME NEW q \in Ops, (Unsettled(q) /\ Purging(q))'
      PROVE  q # o /\ Unsettled(q) /\ Purging(q)
  BY <1>3 DEF Unsettled, Open, Committed, Purging
<1>4. PurgesHold'
  BY <1>3 DEF IInv, PurgesHold, Present
<1>5. ReferencedStays'
  BY <1>3 DEF IInv, ReferencedStays, Present
<1>. QED
  BY <1>1, <1>2, <1>4, <1>5 DEF IInv, ExecutorsPlaced

\* What the facts of an open operation and of others' purges come to.
LEMMA OthersKept ==
    ASSUME IInv, NEW o \in Ops, Open(o)
    PROVE  /\ versions[o].state = "unborn" /\ entries[o].state = "absent"
           /\ \A v \in Ids : versions[v].state # "unborn" => v # o /\ versions[v].file # o
           /\ \A q \in Ops, v \in Ids : Unsettled(q) /\ Purging(q) /\ Present(q, v) =>
                 /\ v # o /\ ops[q].file # o /\ ops[q].file \in Ids
                 /\ versions[v].state = "live" /\ versions[v].file = ops[q].file
                 /\ entries[ops[q].file].busy = q
           /\ \A v \in refs : v \in Ids /\ v # o /\ versions[v].state = "live"
                 /\ versions[v].file \in Ids \ {o} /\ entries[versions[v].file].state = "active"
<1>. USE Constants
<1>1. versions[o].state = "unborn" /\ entries[o].state = "absent"
  BY DEF IInv, IdsFresh, Open
<1>2. \A v \in Ids : versions[v].state # "unborn" =>
          v # o /\ versions[v].file # o /\ versions[v].file \in Ids
  BY <1>1 DEF IInv, VersionsFiled
<1>3. ASSUME NEW q \in Ops, NEW v \in Ids, Unsettled(q), Purging(q), Present(q, v)
      PROVE  /\ v # o /\ ops[q].file # o /\ ops[q].file \in Ids
             /\ versions[v].state = "live" /\ versions[v].file = ops[q].file
             /\ entries[ops[q].file].busy = q
  BY <1>2, <1>3 DEF IInv, PurgesHold
<1>4. \A v \in refs : v \in Ids /\ v # o /\ versions[v].state = "live"
          /\ versions[v].file \in Ids \ {o} /\ entries[versions[v].file].state = "active"
  BY <1>2 DEF IInv, ReferencedStays, RowsOK
<1>. QED
  BY <1>1, <1>2, <1>3, <1>4

\* A held file exists, has a name and a current version.
LEMMA HeldFile ==
    ASSUME IInv, NEW f \in Ids, NEW o \in Ops, entries[f].busy = o
    PROVE  entries[f].state # "absent" /\ entries[f].current \in Ids /\ entries[f].path \in Paths
<1>. QED
  BY Constants DEF IInv, EntriesFilled

\* The rows of an operation that ends, and its executor.
LEMMA EndingRows ==
    ASSUME IInv, NEW o \in Ops
    PROVE  /\ ops[o] \in OpStates
           /\ Completed(o) \in OpStates /\ Completed(o).phase = "completed"
           /\ Completed(o).kind = ops[o].kind /\ Completed(o).file = ops[o].file
           /\ Completed(o).path = ops[o].path
           /\ Released(o) \in [Paths -> Ops \cup {None}]
           /\ Freed(o) \in [Ids -> EntryStates]
           /\ \A g \in Ids : /\ Freed(o)[g].state = entries[g].state
                             /\ Freed(o)[g].path = entries[g].path
                             /\ Freed(o)[g].current = entries[g].current
                             /\ Freed(o)[g].rev = entries[g].rev
                             /\ Freed(o)[g].busy = IF entries[g].busy = o THEN None
                                                   ELSE entries[g].busy
<1>1. ops[o] \in OpStates /\ names \in [Paths -> Ops \cup {None}]
  BY DEF IInv, RowsOK
<1>2. Completed(o) \in OpStates /\ Completed(o).phase = "completed"
      /\ Completed(o).kind = ops[o].kind /\ Completed(o).file = ops[o].file
      /\ Completed(o).path = ops[o].path
  BY <1>1 DEF Completed, OpStates
<1>3. Released(o) \in [Paths -> Ops \cup {None}]
  BY <1>1 DEF Released
<1>4. ASSUME NEW g \in Ids
      PROVE  /\ Freed(o)[g] \in EntryStates
             /\ Freed(o)[g].state = entries[g].state /\ Freed(o)[g].path = entries[g].path
             /\ Freed(o)[g].current = entries[g].current /\ Freed(o)[g].rev = entries[g].rev
             /\ Freed(o)[g].busy = IF entries[g].busy = o THEN None ELSE entries[g].busy
  <2>1. entries[g] \in EntryStates
    BY DEF IInv, RowsOK
  <2>. QED
    BY <2>1 DEF Freed, EntryStates
<1>5. Freed(o) \in [Ids -> EntryStates]
  BY <1>4 DEF Freed
<1>. QED
  BY <1>1, <1>2, <1>3, <1>4, <1>5

LEMMA DiePlaced ==
    ASSUME IInv, NEW p \in Processes, Die(p), UNCHANGED objs,
           \A q \in Ops : ops'[q].phase = "committed" => ops[q].phase = "committed"
    PROVE  /\ proc' \in [Processes -> ProcStates] /\ lock' \in Processes \cup {None}
           /\ \A q \in Processes : PlacedAs(q, proc[q])'
<1>1. Idle \in ProcStates /\ Idle.at = "idle"
  BY BlankRows DEF Idle
<1>2. \A o \in Ops, s \in Slots : Present(o, s) => Present(o, s)'
  BY DEF Present
<1>3. proc' = [proc EXCEPT ![p] = Idle] /\ lock' \in Processes \cup {None}
  BY LockKept DEF Die
<1>. QED
  BY <1>1, <1>2, <1>3, ProcPlaced

\* finishOperation, the end of a committed operation and of an undone one.
LEMMA EndHolds ==
    ASSUME IInv, NEW p \in Processes, NEW o \in Ops, Unsettled(o), Die(p),
           entries' = Freed(o), names' = Released(o),
           NEW r \in OpStates, ops' = [ops EXCEPT ![o] = r], r.phase \in {"completed", "failed"},
           r.kind = ops[o].kind, r.file = ops[o].file, r.path = ops[o].path,
           UNCHANGED <<versions, refs, objs, disk, faults>>
    PROVE  IInv'
<1>. USE Constants, EndingRows
<1>1. ops' \in [Ops -> OpStates] /\ ops'[o] = r /\ \A q \in Ops \ {o} : ops'[q] = ops[q]
  BY DEF IInv, RowsOK
<1>2. /\ proc' \in [Processes -> ProcStates] /\ lock' \in Processes \cup {None}
      /\ \A q \in Processes : PlacedAs(q, proc[q])'
  BY <1>1, DiePlaced
<1>3. RowsOK'
  BY <1>1, <1>2 DEF IInv, RowsOK
<1>4. EntriesFilled' /\ VersionsFiled'
  <2>1. EntriesFilled'
    BY DEF IInv, EntriesFilled
  <2>2. VersionsFiled'
    BY DEF IInv, VersionsFiled
  <2>. QED
    BY <2>1, <2>2
<1>5. \A q \in Ops \ {o} : ops[q].phase \in {"none", "open"} =>
              versions'[q].state = "unborn" /\ entries'[q].state = "absent"
  BY DEF IInv, IdsFresh
<1>6. \A q \in Ops \ {o}, v \in Ids : Unsettled(q) /\ Purging(q) /\ Present(q, v) =>
              /\ versions'[v].state = "live" /\ versions'[v].file = versions[v].file
              /\ entries'[ops[q].file].busy = q
  <2>1. \A q \in Ops : Unsettled(q) => ops[q].file \in Ids
    BY DEF IInv, PlansFollow, Unsettled, Open, Committed
  <2>. QED
    BY <2>1 DEF IInv, PurgesHold
<1>7. \A v \in refs :
              versions'[v].state = "live" /\ entries'[versions'[v].file].state = "active"
  <2>1. \A v \in refs : versions[v].state = "live" /\ versions[v].file \in Ids
                        /\ entries[versions[v].file].state = "active"
    BY DEF IInv, ReferencedStays, VersionsFiled, RowsOK
  <2>. QED
    BY <2>1
<1>. QED
  BY <1>1, <1>2, <1>3, <1>4, <1>5, <1>6, <1>7, SettleStep

LEMMA FinishHolds ==
    ASSUME IInv, NEW p \in Processes, Finish(p) PROVE IInv'
<1>1. PICK o \in Ops : o = proc[p].op
  BY Recorder DEF Finish
<1>2. /\ Unsettled(o) /\ Die(p) /\ entries' = Freed(o) /\ names' = Released(o)
      /\ ops' = [ops EXCEPT ![o] = Completed(o)]
      /\ UNCHANGED <<versions, refs, objs, usage, disk, faults>>
  BY <1>1 DEF Finish, Unsettled
<1>. QED
  BY <1>2, EndingRows, EndHolds

LEMMA AbortHolds ==
    ASSUME IInv, NEW w \in Workers, Abort(w) PROVE IInv'
<1>1. PICK o \in Ops : o = proc[w].op
  BY Recorder, Constants DEF Abort
<1>. DEFINE r == [ops[o] EXCEPT !.phase = "failed", !.reserved = 0, !.live = FALSE]
<1>2. /\ Unsettled(o) /\ Die(w) /\ entries' = Freed(o) /\ names' = Released(o)
      /\ ops' = [ops EXCEPT ![o].phase = "failed", ![o].reserved = 0, ![o].live = FALSE]
      /\ UNCHANGED <<versions, refs, objs, disk, faults>>
  BY <1>1 DEF Abort, Undoing, Unsettled
<1>3. r \in OpStates /\ r.phase = "failed" /\ r.kind = ops[o].kind /\ r.file = ops[o].file
      /\ r.path = ops[o].path
  <2>1. ops[o] \in OpStates
    BY DEF IInv, RowsOK
  <2>. QED
    BY <2>1 DEF OpStates
<1>4. ops' = [ops EXCEPT ![o] = r]
  BY <1>2, EndingRows DEF IInv, RowsOK
<1>. HIDE DEF r
<1>. QED
  BY <1>2, <1>3, <1>4, EndHolds, Constants

\* The rest of the rows when an operation is published but not yet finished.
LEMMA PublishedRows ==
    ASSUME IInv, NEW o \in Ops, Open(o), Publish(o), UNCHANGED <<objs, proc>>
    PROVE  /\ ops' \in [Ops -> OpStates] /\ \A q \in Ops \ {o} : ops'[q] = ops[q]
           /\ ops'[o].phase = "committed" /\ ops'[o].kind = ops[o].kind
           /\ ops'[o].file = ops[o].file /\ ops'[o].path = ops[o].path
           /\ proc[o].at = "plan" => \A p \in Processes : PlacedAs(p, proc[p])'
<1>. DEFINE r == [ops[o] EXCEPT !.phase = "committed", !.reserved = 0]
<1>1. ops[o] \in OpStates
  BY DEF IInv, RowsOK
<1>2. r \in OpStates /\ r.phase = "committed" /\ r.kind = ops[o].kind
      /\ r.file = ops[o].file /\ r.path = ops[o].path
  BY <1>1 DEF OpStates
<1>3. ops' = [ops EXCEPT ![o] = r]
  BY <1>1 DEF Publish, IInv, RowsOK
<1>. HIDE DEF r
<1>4. ops' \in [Ops -> OpStates] /\ ops'[o] = r /\ \A q \in Ops \ {o} : ops'[q] = ops[q]
  BY <1>2, <1>3 DEF IInv, RowsOK
<1>5. ASSUME proc[o].at = "plan", NEW p \in Processes PROVE PlacedAs(p, proc[p])'
  <2>1. PlacedAs(p, proc[p])
    BY DEF IInv, ExecutorsPlaced
  <2>. QED
    BY <1>4, <1>5, <2>1 DEF PlacedAs, Present
<1>. QED
  BY <1>2, <1>4, <1>5

LEMMA CommitUploadHolds ==
    ASSUME IInv, NEW o \in Ops, Open(o), CommitUpload(o), Die(o),
           UNCHANGED <<refs, objs, disk, faults>>
    PROVE  IInv'
<1>. USE Constants
<1>. DEFINE e == [state |-> "active", path |-> ops[o].path, current |-> o,
                  busy |-> None, rev |-> 1]
            y == [state |-> "live", file |-> o, loc |-> InFiles(ops[o].path)]
<1>1. ops[o].path \in Paths
  BY DEF CommitUpload, IInv, PlansFollow, Open, UserKinds
<1>2. e \in EntryStates /\ y \in VersionStates
  BY <1>1, Addresses DEF EntryStates, VersionStates
<1>3. /\ entries' = [entries EXCEPT ![o] = e] /\ versions' = [versions EXCEPT ![o] = y]
      /\ ops' = [ops EXCEPT ![o] = Completed(o)] /\ names' = Released(o)
  BY DEF CommitUpload
<1>4. /\ \A g \in Ids : entries'[g] = IF g = o THEN e ELSE entries[g]
      /\ \A v \in Ids : versions'[v] = IF v = o THEN y ELSE versions[v]
  BY <1>3 DEF IInv, RowsOK
<1>5. /\ ops' \in [Ops -> OpStates] /\ ops'[o] = Completed(o)
      /\ \A q \in Ops \ {o} : ops'[q] = ops[q]
  BY <1>3, EndingRows DEF IInv, RowsOK
<1>6. /\ proc' \in [Processes -> ProcStates] /\ lock' \in Processes \cup {None}
      /\ \A q \in Processes : PlacedAs(q, proc[q])'
  BY <1>5, EndingRows, DiePlaced
<1>7. RowsOK'
  BY <1>2, <1>3, <1>5, <1>6, EndingRows DEF IInv, RowsOK
<1>8. EntriesFilled'
  BY <1>1, <1>4 DEF IInv, EntriesFilled
<1>9. VersionsFiled'
  BY <1>4 DEF IInv, VersionsFiled
<1>10. \A q \in Ops \ {o} : ops[q].phase \in {"none", "open"} =>
              versions'[q].state = "unborn" /\ entries'[q].state = "absent"
  BY <1>4 DEF IInv, IdsFresh
<1>11. \A q \in Ops \ {o}, v \in Ids : Unsettled(q) /\ Purging(q) /\ Present(q, v) =>
              /\ versions'[v].state = "live" /\ versions'[v].file = versions[v].file
              /\ entries'[ops[q].file].busy = q
  BY <1>4, OthersKept
<1>12. \A v \in refs :
              versions'[v].state = "live" /\ entries'[versions'[v].file].state = "active"
  BY <1>4, OthersKept
<1>13. Unsettled(o)
  BY DEF Unsettled
<1>. QED
  BY <1>5, <1>6, <1>7, <1>8, <1>9, <1>10, <1>11, <1>12, <1>13, EndingRows, SettleStep

LEMMA CommitOverwriteHolds ==
    ASSUME IInv, NEW o \in Ops, Open(o), CommitOverwrite(o), proc[o].at = "plan",
           UNCHANGED <<refs, objs, disk, faults, lock, proc>>
    PROVE  IInv'
<1>. USE Constants
<1>. DEFINE f == ops[o].file
            old == entries[f].current
            e == [entries[f] EXCEPT !.current = o, !.rev = @ + 1]
            x == [versions[old] EXCEPT !.loc = InHistory(old)]
            y == [state |-> "live", file |-> f, loc |-> InFiles(entries[f].path)]
<1>1. /\ f \in Ids /\ entries[f].busy = o /\ entries[f].state # "absent"
      /\ old \in Ids /\ entries[f].path \in Paths
      /\ entries[f] \in EntryStates
  <2>1. f \in Ids /\ entries[f].busy = o
    BY DEF CommitOverwrite, IInv, PlansFollow, Open
  <2>. QED
    BY <2>1, HeldFile DEF IInv, RowsOK
<1>2. e \in EntryStates /\ e.state = entries[f].state /\ e.busy = o
      /\ e.current = o /\ e.path = entries[f].path
  <2>1. entries[f].rev \in Nat /\ entries[f].rev + 1 \in Nat
    BY <1>1 DEF EntryStates
  <2>2. e = [entries[f] EXCEPT !.current = o, !.rev = entries[f].rev + 1]
    OBVIOUS
  <2>. QED
    BY <1>1, <2>1, <2>2 DEF EntryStates
<1>3. x \in VersionStates /\ x.state = versions[old].state /\ x.file = versions[old].file
  <2>1. versions[old] \in VersionStates
    BY <1>1 DEF IInv, RowsOK
  <2>. QED
    BY <1>1, <2>1, Addresses DEF VersionStates
<1>4. y \in VersionStates /\ y.state = "live" /\ y.file = f
  BY <1>1, Addresses DEF VersionStates
<1>5. entries' = [entries EXCEPT ![f] = e]
  BY <1>1 DEF CommitOverwrite, IInv, RowsOK
<1>6. versions' = [versions EXCEPT ![old] = x, ![o] = y]
  BY <1>1 DEF CommitOverwrite, IInv, RowsOK
<1>7. Publish(o) /\ UNCHANGED names /\ ~Purging(o)
  BY DEF CommitOverwrite, Purging, SystemKinds
<1>. HIDE DEF e, x, y, old
<1>8. /\ \A g \in Ids : entries'[g] = IF g = f THEN e ELSE entries[g]
      /\ \A v \in Ids : versions'[v] = IF v = o THEN y ELSE IF v = old THEN x ELSE versions[v]
  BY <1>1, <1>5, <1>6 DEF IInv, RowsOK
<1>9. \A v \in Ids \ {o} : versions'[v].state = versions[v].state
                           /\ versions'[v].file = versions[v].file
  BY <1>3, <1>8
<1>10. \A g \in Ids : entries'[g].state = entries[g].state /\ entries'[g].busy = entries[g].busy
  BY <1>1, <1>2, <1>8
<1>11. RowsOK'
  <2>1. entries' \in [Ids -> EntryStates] /\ versions' \in [Ids -> VersionStates]
    BY <1>2, <1>3, <1>4, <1>5, <1>6 DEF IInv, RowsOK
  <2>. QED
    BY <1>7, <2>1, PublishedRows DEF IInv, RowsOK
<1>12. EntriesFilled'
  BY <1>1, <1>2, <1>8 DEF IInv, EntriesFilled
<1>13. VersionsFiled'
  BY <1>1, <1>4, <1>8, <1>9, <1>10 DEF IInv, VersionsFiled
<1>14. \A q \in Ops \ {o} : ops[q].phase \in {"none", "open"} =>
              versions'[q].state = "unborn" /\ entries'[q].state = "absent"
  BY <1>9, <1>10 DEF IInv, IdsFresh
<1>15. \A q \in Ops \ {o}, v \in Ids : Unsettled(q) /\ Purging(q) /\ Present(q, v) =>
              /\ versions'[v].state = "live" /\ versions'[v].file = versions[v].file
              /\ entries'[ops[q].file].busy = q
  BY <1>9, <1>10, OthersKept
<1>16. \A v \in refs :
              versions'[v].state = "live" /\ entries'[versions'[v].file].state = "active"
  BY <1>9, <1>10, OthersKept
<1>17. Unsettled(o)
  BY DEF Unsettled
<1>. QED
  BY <1>7, <1>11, <1>12, <1>13, <1>14, <1>15, <1>16, <1>17, PublishedRows, SettleStep

LEMMA CommitRelocationHolds ==
    ASSUME IInv, NEW o \in Ops, Open(o), CommitRelocation(o), proc[o].at = "plan",
           UNCHANGED <<refs, objs, disk, faults, lock, proc>>
    PROVE  IInv'
<1>. USE Constants
<1>. DEFINE f == ops[o].file
            v == entries[f].current
            trash == ops[o].kind = "trash"
            e == [entries[f] EXCEPT !.rev = @ + 1,
                     !.state = IF trash THEN "trashed" ELSE "active",
                     !.path = IF trash THEN @ ELSE ops[o].path]
            x == [versions[v] EXCEPT !.loc = objs[o][v].dst]
<1>1. /\ f \in Ids /\ entries[f].busy = o /\ entries[f].state # "absent"
      /\ v \in Ids /\ entries[f].path \in Paths /\ ops[o].path \in Paths
      /\ entries[f] \in EntryStates
  <2>1. f \in Ids /\ entries[f].busy = o /\ ops[o].path \in Paths
    BY DEF CommitRelocation, IInv, PlansFollow, Open, UserKinds
  <2>. QED
    BY <2>1, HeldFile DEF IInv, RowsOK
<1>2. e \in EntryStates /\ e.state = (IF trash THEN "trashed" ELSE "active") /\ e.busy = o
      /\ e.current = v /\ e.path \in Paths
  <2>1. entries[f].rev \in Nat /\ entries[f].rev + 1 \in Nat
    BY <1>1 DEF EntryStates
  <2>2. PICK state \in {"trashed", "active"}, path \in Paths :
            /\ state = (IF trash THEN "trashed" ELSE "active")
            /\ e = [entries[f] EXCEPT !.rev = entries[f].rev + 1, !.state = state, !.path = path]
    <3>1. CASE trash
      <4>1. e = [entries[f] EXCEPT !.rev = entries[f].rev + 1, !.state = "trashed",
                                   !.path = entries[f].path]
        BY <3>1
      <4>. QED
        BY <1>1, <3>1, <4>1
    <3>2. CASE ~trash
      <4>1. e = [entries[f] EXCEPT !.rev = entries[f].rev + 1, !.state = "active",
                                   !.path = ops[o].path]
        BY <3>2
      <4>. QED
        BY <1>1, <3>2, <4>1
    <3>. QED
      BY <3>1, <3>2
  <2>. QED
    BY <1>1, <2>1, <2>2 DEF EntryStates
<1>3. x \in VersionStates /\ x.state = versions[v].state /\ x.file = versions[v].file
  <2>1. versions[v] \in VersionStates /\ objs[o][v] \in ObjectStates
    BY <1>1 DEF IInv, RowsOK
  <2>2. objs[o][v].dst \in Locations \cup {None}
    BY <2>1 DEF ObjectStates
  <2>. QED
    BY <2>1, <2>2 DEF VersionStates
<1>4. entries' = [entries EXCEPT ![f] = e]
  BY <1>1 DEF CommitRelocation, IInv, RowsOK
<1>5. versions' = [versions EXCEPT ![v] = x]
  BY <1>1 DEF CommitRelocation, IInv, RowsOK
<1>6. Publish(o) /\ UNCHANGED names /\ ~Purging(o) /\ (trash => ~Referenced(f))
  BY DEF CommitRelocation, Purging, SystemKinds
<1>. HIDE DEF e, x, v, trash
<1>7. \A g \in Ids : entries'[g] = IF g = f THEN e ELSE entries[g]
  BY <1>1, <1>4 DEF IInv, RowsOK
<1>8. \A u \in Ids : versions'[u].state = versions[u].state /\ versions'[u].file = versions[u].file
  BY <1>1, <1>3, <1>5 DEF IInv, RowsOK
<1>9. RowsOK'
  <2>1. entries' \in [Ids -> EntryStates] /\ versions' \in [Ids -> VersionStates]
    BY <1>2, <1>3, <1>4, <1>5 DEF IInv, RowsOK
  <2>. QED
    BY <1>6, <2>1, PublishedRows DEF IInv, RowsOK
<1>10. EntriesFilled'
  BY <1>1, <1>2, <1>7 DEF IInv, EntriesFilled
<1>11. VersionsFiled'
  BY <1>2, <1>7, <1>8 DEF IInv, VersionsFiled
<1>12. \A q \in Ops \ {o} : ops[q].phase \in {"none", "open"} =>
              versions'[q].state = "unborn" /\ entries'[q].state = "absent"
  BY <1>1, <1>7, <1>8 DEF IInv, IdsFresh
<1>13. \A q \in Ops \ {o}, u \in Ids : Unsettled(q) /\ Purging(q) /\ Present(q, u) =>
              /\ versions'[u].state = "live" /\ versions'[u].file = versions[u].file
              /\ entries'[ops[q].file].busy = q
  BY <1>1, <1>7, <1>8, OthersKept
<1>14. \A u \in refs :
              versions'[u].state = "live" /\ entries'[versions'[u].file].state = "active"
  <2>1. trash => \A u \in refs : versions[u].file # f
    BY <1>6 DEF Referenced
  <2>. QED
    BY <1>2, <1>7, <1>8, <2>1, OthersKept
<1>15. Unsettled(o)
  BY DEF Unsettled
<1>. QED
  BY <1>6, <1>9, <1>10, <1>11, <1>12, <1>13, <1>14, <1>15, PublishedRows, SettleStep

\* The end of a purge, by the request or by a job: only versions of its own
\* plan go, and nobody refers to them.
LEMMA PurgeHolds ==
    ASSUME IInv, NEW p \in Processes, NEW o \in Ops, Open(o), Purge(o), Die(p),
           UNCHANGED <<refs, objs, disk, faults>>
    PROVE  IInv'
<1>. USE Constants
<1>. DEFINE f == ops[o].file
            gone == {v \in Ids : Present(o, v) /\ versions[v].state = "live"}
            history == ops[o].kind = "history_purge"
            e == [Freed(o)[f] EXCEPT !.state = "purged", !.rev = @ + 1]
<1>1. /\ f \in Ids /\ entries[f].busy = o /\ entries[f].state # "absent"
      /\ entries[f].current \in Ids /\ entries[f].path \in Paths
  <2>1. f \in Ids /\ entries[f].busy = o
    BY DEF Purge, IInv, PlansFollow, Open
  <2>. QED
    BY <2>1, HeldFile
<1>2. Unsettled(o) /\ Purging(o)
  BY DEF Purge, Unsettled
<1>3. \A v \in gone : versions[v].file = f /\ v \notin refs
  BY <1>2 DEF IInv, PurgesHold
<1>4. e \in EntryStates /\ e.state = "purged" /\ e.path = entries[f].path
      /\ e.current = entries[f].current /\ e.busy = None
  <2>1. Freed(o)[f] \in EntryStates
    BY <1>1, EndingRows
  <2>2. Freed(o)[f].rev \in Nat /\ Freed(o)[f].rev + 1 \in Nat
    BY <2>1 DEF EntryStates
  <2>3. e = [Freed(o)[f] EXCEPT !.state = "purged", !.rev = Freed(o)[f].rev + 1]
    OBVIOUS
  <2>4. /\ Freed(o)[f].path = entries[f].path /\ Freed(o)[f].busy = None
        /\ Freed(o)[f].current = entries[f].current
    BY <1>1, EndingRows
  <2>. QED
    BY <2>1, <2>2, <2>3, <2>4 DEF EntryStates
<1>5. /\ history => entries' = Freed(o)
      /\ ~history => entries' = [Freed(o) EXCEPT ![f] = e] /\ ~Referenced(f)
  <2>1. ~history => entries' = [Freed(o) EXCEPT ![f].state = "purged", ![f].rev = @ + 1]
                    /\ ~Referenced(f)
    BY DEF Purge
  <2>2. history => entries' = Freed(o)
    BY DEF Purge
  <2>3. Freed(o) \in [Ids -> EntryStates]
    BY EndingRows
  <2>. QED
    BY <1>1, <2>1, <2>2, <2>3
<1>6. versions' = [v \in Ids |->
              IF v \in gone THEN [versions[v] EXCEPT !.state = "purged"] ELSE versions[v]]
      /\ ops' = [ops EXCEPT ![o] = Completed(o)] /\ names' = Released(o)
  BY DEF Purge
<1>. HIDE DEF e, gone, history
<1>7. /\ \A g \in Ids : entries'[g] \in EntryStates
      /\ \A g \in Ids \ {f} : entries'[g] = Freed(o)[g]
      /\ IF history THEN entries'[f] = Freed(o)[f] ELSE entries'[f] = e
      /\ entries' \in [Ids -> EntryStates]
  <2>1. Freed(o) \in [Ids -> EntryStates]
    BY EndingRows
  <2>2. CASE history
    BY <1>1, <1>5, <2>1, <2>2
  <2>3. CASE ~history
    BY <1>1, <1>4, <1>5, <2>1, <2>3
  <2>. QED
    BY <2>2, <2>3
<1>8. /\ versions' \in [Ids -> VersionStates]
      /\ \A v \in Ids : versions'[v].file = versions[v].file
      /\ \A v \in Ids \ gone : versions'[v].state = versions[v].state
      /\ \A v \in gone : versions[v].state # "unborn"
  <2>1. ASSUME NEW v \in Ids
        PROVE  /\ versions'[v] \in VersionStates /\ versions'[v].file = versions[v].file
               /\ v \notin gone => versions'[v].state = versions[v].state
    <3>1. versions[v] \in VersionStates
      BY DEF IInv, RowsOK
    <3>. QED
      BY <1>6, <3>1 DEF VersionStates
  <2>2. \A v \in gone : versions[v].state # "unborn"
    BY DEF gone
  <2>. QED
    BY <1>6, <2>1, <2>2
<1>9. /\ ops' \in [Ops -> OpStates] /\ ops'[o] = Completed(o)
      /\ \A q \in Ops \ {o} : ops'[q] = ops[q]
  BY <1>6, EndingRows DEF IInv, RowsOK
<1>10. /\ proc' \in [Processes -> ProcStates] /\ lock' \in Processes \cup {None}
       /\ \A q \in Processes : PlacedAs(q, proc[q])'
  BY <1>9, EndingRows, DiePlaced
<1>11. RowsOK'
  BY <1>6, <1>7, <1>8, <1>9, <1>10, EndingRows DEF IInv, RowsOK
<1>12. \A g \in Ids : /\ entries[g].state = "absent" => entries'[g].state = "absent"
                                                       /\ entries'[g].busy = entries[g].busy
                      /\ entries[g].state # "absent" => entries'[g].state # "absent"
                      /\ entries'[g].current = entries[g].current
                      /\ entries'[g].path = entries[g].path
  <2>. TAKE g \in Ids
  <2>1. entries[g].state = "absent" => g # f /\ entries[g].busy # o
    BY <1>1 DEF IInv, EntriesFilled
  <2>2. CASE g = f
    BY <1>1, <1>4, <1>7, <2>1, <2>2, EndingRows
  <2>3. CASE g # f
    BY <1>7, <2>1, <2>3, EndingRows
  <2>. QED
    BY <2>2, <2>3
<1>13. EntriesFilled'
  BY <1>12 DEF IInv, EntriesFilled
<1>14. VersionsFiled'
  <2>1. \A v \in Ids : versions'[v].state # "unborn" => versions[v].state # "unborn"
    BY <1>8
  <2>. QED
    BY <1>8, <1>12, <2>1 DEF IInv, VersionsFiled
<1>15. \A q \in Ops \ {o} : ops[q].phase \in {"none", "open"} =>
              versions'[q].state = "unborn" /\ entries'[q].state = "absent"
  BY <1>8, <1>12 DEF IInv, IdsFresh
<1>16. ASSUME NEW q \in Ops \ {o}, NEW v \in Ids, Unsettled(q), Purging(q), Present(q, v)
       PROVE  /\ versions'[v].state = "live" /\ versions'[v].file = versions[v].file
              /\ entries'[ops[q].file].busy = q
  <2>1. /\ versions[v].state = "live" /\ versions[v].file = ops[q].file
        /\ ops[q].file \in Ids /\ entries[ops[q].file].busy = q
    BY <1>16, OthersKept
  <2>2. ops[q].file # f /\ v \notin gone
    BY <1>1, <1>3, <2>1
  <2>. QED
    BY <1>7, <1>8, <2>1, <2>2, EndingRows
<1>17. ASSUME NEW v \in refs
       PROVE  versions'[v].state = "live" /\ entries'[versions'[v].file].state = "active"
  <2>1. v \in Ids \ gone /\ versions[v].state = "live" /\ versions[v].file \in Ids
        /\ entries[versions[v].file].state = "active"
    BY <1>3, OthersKept
  <2>2. ~history => versions[v].file # f
    BY <1>5 DEF Referenced
  <2>3. CASE versions[v].file = f
    BY <1>1, <1>7, <1>8, <2>1, <2>2, <2>3, EndingRows
  <2>4. CASE versions[v].file # f
    BY <1>7, <1>8, <2>1, <2>4, EndingRows
  <2>. QED
    BY <2>3, <2>4
<1>. QED
  BY <1>2, <1>9, <1>10, <1>11, <1>13, <1>14, <1>15, <1>16, <1>17, EndingRows, SettleStep

LEMMA CommitHolds ==
    ASSUME IInv, NEW o \in Ops, Commit(o) PROVE IInv'
<1>. USE Constants
<1>1. proc[o].at = "plan" /\ Open(o) /\ UNCHANGED <<refs, objs, disk, faults>>
  BY DEF Commit
<1>. QED
  BY <1>1, CommitUploadHolds, PurgeHolds, CommitOverwriteHolds, CommitRelocationHolds DEF Commit

LEMMA PurgeByJobHolds ==
    ASSUME IInv, NEW w \in Workers, PurgeByJob(w) PROVE IInv'
<1>. USE Constants
<1>1. PICK o \in Ops : o = proc[w].op
  BY Recorder DEF PurgeByJob
<1>2. Open(o) /\ Purge(o) /\ Die(w) /\ UNCHANGED <<refs, objs, disk, faults>>
  BY <1>1 DEF PurgeByJob
<1>. QED
  BY <1>2, PurgeHolds

-----------------------------------------------------------------------------
(* Projects *)

\* A reference begins where no operation holds the file, so no purge of it is
\* under way.
LEMMA ReferencesHold ==
    ASSUME IInv, NEW v \in Ids, Refer(v) \/ Unrefer(v) PROVE IInv'
<1>. USE Constants
<1>1. /\ UNCHANGED <<entries, versions, ops, objs, names, usage, disk, lock, proc, faults>>
      /\ refs' \subseteq Ids
  BY DEF Refer, Unrefer, IInv, RowsOK
<1>2. RowsOK' /\ EntriesFilled' /\ VersionsFiled' /\ IdsFresh' /\ PlansFollow'
  BY <1>1 DEF IInv, RowsOK, EntriesFilled, VersionsFiled, IdsFresh, PlansFollow, Present
<1>3. ExecutorsPlaced'
  BY <1>1 DEF IInv, ExecutorsPlaced, PlacedAs, Present
<1>4. \A o \in Ops, u \in Ids : /\ Unsettled(o)' = Unsettled(o) /\ Purging(o)' = Purging(o)
                                /\ Present(o, u)' = Present(o, u)
  BY <1>1 DEF Unsettled, Open, Committed, Purging, Present
<1>5. Refer(v) => /\ versions[v].state = "live" /\ entries[versions[v].file].state = "active"
                  /\ refs' = refs \cup {v}
                  /\ \A o \in Ops : Unsettled(o) /\ Purging(o) => ~Present(o, v)
  <2>1. Refer(v) => /\ versions[v].state = "live" /\ entries[versions[v].file].state = "active"
                    /\ entries[versions[v].file].busy = None /\ refs' = refs \cup {v}
    BY DEF Refer
  <2>. QED
    BY <2>1 DEF IInv, PurgesHold
<1>6. Unrefer(v) => refs' \subseteq refs
  BY DEF Unrefer
<1>7. PurgesHold'
  BY <1>1, <1>4, <1>5, <1>6 DEF IInv, PurgesHold
<1>8. ReferencedStays'
  BY <1>1, <1>4, <1>5, <1>6 DEF IInv, ReferencedStays, RowsOK
<1>. QED
  BY <1>2, <1>3, <1>7, <1>8 DEF IInv

-----------------------------------------------------------------------------
(* Theorems *)

LEMMA StepHolds == IInv /\ [Next]_vars => IInv'
<1>. SUFFICES ASSUME IInv, [Next]_vars PROVE IInv'
  OBVIOUS
<1>. USE Constants
<1>1. CASE UNCHANGED vars
  BY <1>1 DEF vars, IInv, RowsOK, EntriesFilled, VersionsFiled, IdsFresh, PlansFollow,
              ExecutorsPlaced, PlacedAs, PurgesHold, ReferencedStays, Present, Unsettled,
              Open, Committed, Purging
<1>2. ASSUME NEW p \in Processes, Advance(p) PROVE IInv'
  BY <1>2, DropsHold, RecordDropHolds, FinishHolds, StopsHold, HandoffHolds DEF Advance
<1>3. ASSUME NEW o \in Ops, Request(o) \/ Refuse(o) \/ ServeRequest(o) \/ Lapse(o) \/ Deadline(o)
      PROVE  IInv'
  BY <1>2, <1>3, RequestHolds, RefuseHolds, PrepareHolds, MakesHold, RecordMadeHolds,
     IntendHolds, CommitHolds, TimeHolds DEF ServeRequest
<1>4. ASSUME NEW w \in Workers, ServeJob(w) PROVE IInv'
  BY <1>2, <1>4, RestoresHold, RecordRestoredHolds, AbortHolds, PurgeByJobHolds DEF ServeJob
<1>5. ASSUME NEW w \in Workers, NEW o \in Ops,
             \/ Claim(w, o)
             \/ \E v \in Ids : EnlistHistory(w, o, v)
             \/ \E f \in Ids : EnlistTrash(w, o, f)
      PROVE  IInv'
  BY <1>5, ClaimHolds, EnlistingHolds
<1>6. ASSUME NEW v \in Ids, Refer(v) \/ Unrefer(v) PROVE IInv'
  BY <1>6, ReferencesHold
<1>7. CASE Mishap
  <2>1. ASSUME NEW o \in Ops, MakeFails(o) \/ Stall(o) PROVE IInv'
    BY <2>1, MakesHold, TimeHolds
  <2>2. ASSUME NEW w \in Workers, RestoreFails(w) PROVE IInv'
    BY <2>2, RestoresHold
  <2>3. ASSUME NEW p \in Processes, DropFails(p) \/ Break(p) \/ Crash(p) \/ LoseLock(p)
        PROVE  IInv'
    BY <2>3, DropsHold, StopsHold
  <2>. QED
    BY <1>7, <2>1, <2>2, <2>3 DEF Mishap
<1>. QED
  BY <1>1, <1>3, <1>4, <1>5, <1>6, <1>7 DEF Next

\* The inductive invariant of files, versions, plans and executors holds in
\* every reachable state (repositories/files.ts, file-maintenance.ts).
THEOREM InvariantHolds == Spec => []IInv
<1>. QED
  BY InitHolds, StepHolds, PTL DEF Spec

\* Files, versions, operations, objects, the storage and the executors keep
\* their types, whatever fails (schema/files.ts).
THEOREM RowsHold == Spec => []RowsOK
<1>1. IInv => RowsOK
  BY DEF IInv
<1>. QED
  BY <1>1, InvariantHolds, PTL

\* What a project refers to stays live in an active file, and no purge of a
\* member or of maintenance gets hold of it: replaceReferences and the checks
\* at the planning and at the end of a purge suffice, whatever happens between.
THEOREM ReferencesKept == Spec => []ReferencedStays
<1>1. IInv => ReferencedStays
  BY DEF IInv
<1>. QED
  BY <1>1, InvariantHolds, PTL

-----------------------------------------------------------------------------
(* Locks and leases *)

\* An executor that may still act on what it knows: inside a call, or with a
\* lease it has not lost.
Active(p) == Calling(p) \/ (Working(p) /\ ~proc[p].lost)
Holder(p) == Unsettled(proc[p].op) /\ ops[proc[p].op].token = p

\* Who works under a lease has it, who has the lock works on its operation,
\* and a call goes on under one of them.  A lease that was lost is not live
\* again for the executor that lost it.
HoldersWork ==
    \A p \in Processes :
        /\ Working(p) /\ ~proc[p].lost => Holder(p) /\ ops[proc[p].op].live
        /\ lock = p => Working(p) /\ Holder(p)
        /\ Calling(p) => lock = p \/ ~proc[p].lost
        /\ Working(p) /\ proc[p].lost /\ Holder(p) => ~ops[proc[p].op].live

LEMMA ActiveHolds ==
    ASSUME IInv, HoldersWork, NEW p \in Processes, Active(p)
    PROVE  /\ Working(p) /\ proc[p].op \in Ops /\ Holder(p)
           /\ lock = p \/ ops[proc[p].op].live
<1>1. Working(p) /\ Holder(p) /\ (lock = p \/ ops[proc[p].op].live)
  BY DEF Active, Calling, Working, HoldersWork
<1>. QED
  BY <1>1 DEF IInv, ExecutorsPlaced, PlacedAs, Working

LEMMA ActiveApart ==
    ASSUME IInv, HoldersWork, NEW p \in Processes, NEW q \in Processes, Active(p), Active(q), p # q
    PROVE  proc[p].op # proc[q].op
<1>. QED
  BY ActiveHolds DEF Holder

\* An executor goes on, is through with its operation, or stops.
LEMMA ExecutorStep ==
    ASSUME IInv, HoldersWork, NEW p \in Processes,
           \A q \in Processes \ {p} : proc'[q] = proc[q],
           \A o \in Ops :
              /\ Unsettled(o)' => Unsettled(o)
              /\ \/ Unsettled(o)' = Unsettled(o) /\ ops'[o].token = ops[o].token
                    /\ ops'[o].live = ops[o].live
                 \/ ops[o].token = p /\ ops'[o].token \in {p, None} /\ ~Working(p)',
           \/ ~Working(p)' /\ lock' = Unlocked(p)
           \/ /\ Working(p) /\ Working(p)' /\ proc'[p].op = proc[p].op
              /\ proc'[p].lost = proc[p].lost /\ lock' = lock
              /\ Calling(p)' => Calling(p) \/ ~proc[p].lost
    PROVE  HoldersWork'
<1>. USE Constants
<1>1. \A q \in Processes : Working(q) => proc[q].op \in Ops
  BY DEF IInv, ExecutorsPlaced, PlacedAs, Working
<1>2. Calling(p)' => Working(p)'
  BY DEF Calling, Working
<1>3. None \notin Processes
  BY FilesAssumption DEF Processes, Ids
<1>4. ASSUME NEW q \in Processes \ {p}
      PROVE  /\ Working(q)' = Working(q) /\ Calling(q)' = Calling(q)
             /\ Working(q) => /\ Holder(q) => Holder(q)' /\ ops'[proc[q].op].live = ops[proc[q].op].live
                              /\ Holder(q)' => Holder(q)
             /\ lock' = q => lock = q
             /\ lock = q => lock' = q
  <2>1. proc'[q] = proc[q]
    OBVIOUS
  <2>2. Working(q)' = Working(q) /\ Calling(q)' = Calling(q)
    BY <2>1 DEF Working, Calling
  <2>3. Working(q) => /\ Holder(q) => Holder(q)' /\ ops'[proc[q].op].live = ops[proc[q].op].live
                      /\ Holder(q)' => Holder(q)
    BY <1>1, <1>3, <2>1 DEF Holder
  <2>4. (lock' = q => lock = q) /\ (lock = q => lock' = q)
    BY <1>3 DEF Unlocked
  <2>. QED
    BY <2>2, <2>3, <2>4
<1>5. ASSUME NEW q \in Processes \ {p}
      PROVE  /\ (Working(q) /\ ~proc[q].lost)' => Holder(q)' /\ ops'[proc'[q].op].live
             /\ lock' = q => Working(q)' /\ Holder(q)'
             /\ Calling(q)' => lock' = q \/ ~proc'[q].lost
             /\ (Working(q) /\ proc[q].lost /\ Holder(q))' => ~ops'[proc'[q].op].live
  BY <1>4 DEF HoldersWork
<1>6. /\ (Working(p) /\ ~proc[p].lost)' => Holder(p)' /\ ops'[proc'[p].op].live
      /\ lock' = p => Working(p)' /\ Holder(p)'
      /\ Calling(p)' => lock' = p \/ ~proc'[p].lost
      /\ (Working(p) /\ proc[p].lost /\ Holder(p))' => ~ops'[proc'[p].op].live
  <2>1. CASE ~Working(p)' /\ lock' = Unlocked(p)
    BY <1>2, <1>3, <2>1 DEF Unlocked
  <2>2. CASE /\ Working(p) /\ Working(p)' /\ proc'[p].op = proc[p].op
             /\ proc'[p].lost = proc[p].lost /\ lock' = lock
             /\ Calling(p)' => Calling(p) \/ ~proc[p].lost
    BY <1>1, <2>2 DEF HoldersWork, Holder
  <2>. QED
    BY <2>1, <2>2
<1>. QED
  BY <1>5, <1>6 DEF HoldersWork

\* An operation gets an executor: nobody is in the physical stage, and nobody
\* has a lease of the operation.
LEMMA TakeStep ==
    ASSUME IInv, HoldersWork, NEW p \in Processes, NEW o \in Ops,
           lock = None, ops[o].phase = "none" \/ ~ops[o].live,
           lock' = p, proc'[p].at \in {"prepare", "plan"}, proc'[p].op = o, ~proc'[p].lost,
           \A q \in Processes \ {p} : proc'[q] = proc[q],
           Unsettled(o)', ops'[o].token = p, ops'[o].live,
           \A q \in Ops \ {o} : ops'[q] = ops[q]
    PROVE  HoldersWork'
<1>. USE Constants
<1>1. None \notin Processes
  BY FilesAssumption DEF Processes, Ids
<1>2. ops[o].phase = "none" => ~Unsettled(o)
  BY DEF Unsettled, Open, Committed
<1>3. ASSUME NEW q \in Processes \ {p}
      PROVE  /\ (Working(q) /\ ~proc[q].lost)' => Holder(q)' /\ ops'[proc'[q].op].live
             /\ lock' # q
             /\ Calling(q)' => ~proc'[q].lost
             /\ (Working(q) /\ proc[q].lost /\ Holder(q))' => ~ops'[proc'[q].op].live
  <2>1. Working(q)' = Working(q) /\ Calling(q)' = Calling(q) /\ proc'[q] = proc[q]
    BY DEF Working, Calling
  <2>2. Working(q) => proc[q].op \in Ops
    BY DEF IInv, ExecutorsPlaced, PlacedAs, Working
  <2>3. Working(q) /\ ~proc[q].lost => Holder(q) /\ ops[proc[q].op].live
    BY DEF HoldersWork
  <2>4. Working(q) /\ ~proc[q].lost => proc[q].op # o
    BY <1>2, <2>3 DEF Holder
  <2>5. Calling(q) => ~proc[q].lost
    BY <1>1 DEF HoldersWork
  <2>6. Working(q) /\ proc[q].lost /\ Holder(q) => ~ops[proc[q].op].live
    BY DEF HoldersWork
  <2>7. Working(q) /\ Holder(q)' => proc[q].op # o
    BY <2>1 DEF Holder
  <2>. QED
    BY <2>1, <2>2, <2>3, <2>4, <2>5, <2>6, <2>7 DEF Holder, Unsettled, Open, Committed
<1>4. Working(p)' /\ Holder(p)' /\ ops'[proc'[p].op].live /\ ~proc'[p].lost
  BY DEF Working, Holder
<1>. QED
  BY <1>3, <1>4 DEF HoldersWork

\* A lease runs out: on an executor that is gone, or that notices it only by
\* losing it.
LEMMA LeaseEnds ==
    ASSUME IInv, HoldersWork, NEW o \in Ops, Stall(o) \/ Lapse(o) \/ Deadline(o)
    PROVE  HoldersWork'
<1>. USE Constants
<1>1. \A q \in Ops : /\ ops'[q].phase = ops[q].phase /\ ops'[q].token = ops[q].token
                     /\ q # o \/ Deadline(o) => ops'[q].live = ops[q].live
  BY DEF Stall, Lapse, Deadline, IInv, RowsOK, OpStates
<1>2. \A q \in Ops : Unsettled(q)' = Unsettled(q)
  BY <1>1 DEF Unsettled, Open, Committed
<1>3. lock' = lock
  BY DEF Stall, Lapse, Deadline
<1>4. \A p \in Processes : proc[p] \in ProcStates
  BY DEF IInv, RowsOK
<1>5. ASSUME NEW p \in Processes
      PROVE  /\ proc'[p].at = proc[p].at /\ proc'[p].op = proc[p].op
             /\ ~(Stall(o) /\ p = ops[o].token) => proc'[p].lost = proc[p].lost
             /\ proc[p].lost => proc'[p].lost
             /\ Stall(o) /\ p = ops[o].token => proc'[p].lost /\ (Calling(p) => lock = p)
  <2>1. CASE Stall(o)
    <3>1. proc' = [proc EXCEPT ![ops[o].token].lost = TRUE]
          /\ (Calling(ops[o].token) => lock = ops[o].token)
      BY <2>1 DEF Stall
    <3>2. CASE p = ops[o].token
      BY <3>1, <3>2, <1>4, <2>1 DEF ProcStates, IInv, RowsOK
    <3>3. CASE p # ops[o].token
      BY <3>1, <3>3 DEF IInv, RowsOK
    <3>. QED
      BY <3>2, <3>3
  <2>2. CASE (Lapse(o) \/ Deadline(o)) /\ ~Stall(o)
    BY <2>2 DEF Lapse, Deadline
  <2>. QED
    BY <2>1, <2>2
<1>6. ASSUME NEW p \in Processes
      PROVE  Working(p)' = Working(p) /\ Calling(p)' = Calling(p)
             /\ (Working(p) => Holder(p)' = Holder(p) /\ proc[p].op \in Ops)
  <2>1. Working(p) => proc[p].op \in Ops
    BY DEF IInv, ExecutorsPlaced, PlacedAs, Working
  <2>. QED
    BY <1>1, <1>2, <1>5, <2>1 DEF Working, Calling, Holder
<1>7. ASSUME NEW p \in Processes, Working(p)', ~proc'[p].lost
      PROVE  Holder(p)' /\ ops'[proc'[p].op].live
  <2>1. Working(p) /\ ~proc[p].lost
    BY <1>5, <1>6, <1>7
  <2>2. Holder(p) /\ ops[proc[p].op].live /\ proc[p].op \in Ops
    BY <1>6, <2>1 DEF HoldersWork
  <2>3. proc[p].op = o => ~Lapse(o) /\ ~Stall(o)
    <3>1. proc[p].op = o => Engaged(ops[o].token, o) /\ p = ops[o].token
      BY <2>1, <2>2 DEF Engaged, Holder
    <3>. QED
      BY <1>5, <1>7, <3>1 DEF Lapse
  <2>. QED
    BY <1>1, <1>5, <1>6, <2>1, <2>2, <2>3
<1>8. ASSUME NEW p \in Processes, lock' = p PROVE Working(p)' /\ Holder(p)'
  BY <1>3, <1>6, <1>8 DEF HoldersWork
<1>9. ASSUME NEW p \in Processes, Calling(p)' PROVE lock' = p \/ ~proc'[p].lost
  <2>1. Calling(p) /\ Working(p)
    BY <1>6, <1>9 DEF Calling, Working
  <2>2. CASE Stall(o) /\ p = ops[o].token
    BY <1>3, <1>5, <2>1, <2>2
  <2>3. CASE ~(Stall(o) /\ p = ops[o].token)
    BY <1>3, <1>5, <2>1, <2>3 DEF HoldersWork
  <2>. QED
    BY <2>2, <2>3
<1>10. ASSUME NEW p \in Processes, Working(p)', proc'[p].lost, Holder(p)'
       PROVE  ~ops'[proc'[p].op].live
  <2>1. Working(p) /\ Holder(p) /\ proc[p].op \in Ops
    BY <1>6, <1>10
  <2>2. CASE proc[p].lost
    <3>1. ~ops[proc[p].op].live
      BY <2>1, <2>2 DEF HoldersWork
    <3>2. proc[p].op = o => ~ops'[o].live
      BY <3>1, <1>1 DEF Stall, Lapse
    <3>. QED
      BY <1>1, <1>5, <2>1, <3>1, <3>2
  <2>3. CASE ~proc[p].lost
    <3>1. Stall(o) /\ p = ops[o].token
      BY <1>5, <1>10, <2>3
    <3>2. PICK q \in Ops : q = proc[p].op
      BY <2>1
    <3>3. Engaged(p, o)
      BY <3>1 DEF Stall
    <3>4. q = o /\ ops'[o].live = FALSE
      BY <3>1, <3>2, <3>3 DEF Engaged, Stall, IInv, RowsOK, OpStates
    <3>. QED
      BY <1>5, <3>2, <3>4
  <2>. QED
    BY <2>2, <2>3
<1>. QED
  BY <1>7, <1>8, <1>9, <1>10 DEF HoldersWork

\* What an executor's own move does to the executors.
LEMMA StopEffect ==
    ASSUME IInv, NEW p \in Processes, Leave(p) \/ Die(p)
    PROVE  /\ ~Working(p)' /\ lock' = Unlocked(p)
           /\ \A q \in Processes \ {p} : proc'[q] = proc[q]
<1>1. proc \in [Processes -> ProcStates]
  BY DEF IInv, RowsOK
<1>2. lock' = Unlocked(p) /\ proc' \in {[proc EXCEPT ![p].at = "handoff"], [proc EXCEPT ![p] = Idle]}
  BY DEF Leave, Die, Go
<1>3. proc'[p].at \in {"handoff", "idle"}
  BY <1>1, <1>2 DEF ProcStates, Idle
<1>. QED
  BY <1>1, <1>2, <1>3 DEF Working

LEMMA GoEffect ==
    ASSUME IInv, NEW p \in Processes, NEW at, Go(p, at)
    PROVE  /\ proc'[p].at = at /\ proc'[p].op = proc[p].op /\ proc'[p].slot = proc[p].slot
           /\ proc'[p].loc = proc[p].loc /\ proc'[p].lost = proc[p].lost
           /\ \A q \in Processes \ {p} : proc'[q] = proc[q]
<1>1. proc \in [Processes -> ProcStates]
  BY DEF IInv, RowsOK
<1>. QED
  BY <1>1 DEF Go, ProcStates

LEMMA IssueEffect ==
    ASSUME IInv, NEW p \in Processes, NEW at, NEW t,
           \/ proc' = [proc EXCEPT ![p].at = at, ![p].slot = t]
           \/ proc' = [proc EXCEPT ![p].at = at, ![p].loc = t]
    PROVE  /\ proc'[p].at = at /\ proc'[p].op = proc[p].op /\ proc'[p].lost = proc[p].lost
           /\ proc' = [proc EXCEPT ![p].at = at, ![p].slot = t] => proc'[p].slot = t
           /\ proc' = [proc EXCEPT ![p].at = at, ![p].loc = t] => proc'[p].loc = t
           /\ \A q \in Processes \ {p} : proc'[q] = proc[q]
<1>1. proc \in [Processes -> ProcStates] /\ proc[p] \in ProcStates
  BY DEF IInv, RowsOK
<1>. QED
  BY <1>1 DEF ProcStates

\* A call is issued, returns or fails; an executor gives up, breaks off or dies.
LEMMA MovesKeepHolders ==
    ASSUME IInv, HoldersWork, NEW p \in Processes, UNCHANGED ops,
           \/ Leave(p) \/ Die(p)
           \/ Working(p) /\ UNCHANGED lock /\ \E at \in {"plan", "made", "dropped", "restored"} : Go(p, at)
           \/ /\ Working(p) /\ UNCHANGED lock
              /\ \E at \in {"make", "drop", "restore", "plan"}, t \in Slots \cup Locations \cup {None} :
                    /\ at # "plan" => ~proc[p].lost
                    /\ \/ proc' = [proc EXCEPT ![p].at = at, ![p].slot = t]
                       \/ proc' = [proc EXCEPT ![p].at = at, ![p].loc = t]
    PROVE  HoldersWork'
<1>1. \A o \in Ops : Unsettled(o)' = Unsettled(o) /\ ops'[o].token = ops[o].token
                                      /\ ops'[o].live = ops[o].live
  BY DEF Unsettled, Open, Committed
<1>2. CASE Leave(p) \/ Die(p)
  BY <1>1, <1>2, StopEffect, ExecutorStep
<1>3. ASSUME NEW at \in {"plan", "made", "dropped", "restored"}, Go(p, at), Working(p), UNCHANGED lock
      PROVE  HoldersWork'
  <2>1. Working(p)' /\ ~Calling(p)'
    BY <1>3, GoEffect DEF Working, Calling
  <2>. QED
    BY <1>1, <1>3, <2>1, GoEffect, ExecutorStep
<1>4. ASSUME NEW at \in {"make", "drop", "restore", "plan"}, NEW t \in Slots \cup Locations \cup {None},
             at # "plan" => ~proc[p].lost, Working(p), UNCHANGED lock,
             \/ proc' = [proc EXCEPT ![p].at = at, ![p].slot = t]
             \/ proc' = [proc EXCEPT ![p].at = at, ![p].loc = t]
      PROVE  HoldersWork'
  <2>1. /\ proc'[p].at = at /\ proc'[p].op = proc[p].op /\ proc'[p].lost = proc[p].lost
        /\ \A q \in Processes \ {p} : proc'[q] = proc[q]
    <3>1. CASE proc' = [proc EXCEPT ![p].at = at, ![p].slot = t]
      BY <3>1, IssueEffect
    <3>2. CASE proc' = [proc EXCEPT ![p].at = at, ![p].loc = t]
      BY <3>2, IssueEffect
    <3>. QED
      BY <1>4, <3>1, <3>2
  <2>2. Working(p)' /\ (Calling(p)' => ~proc[p].lost)
    BY <1>4, <2>1 DEF Working, Calling
  <2>. QED
    BY <1>1, <1>4, <2>1, <2>2, ExecutorStep
<1>. QED
  BY <1>2, <1>3, <1>4

\* An executor settles its operation, or reports the failure, and goes.
LEMMA LeavingKeepsHolders ==
    ASSUME IInv, HoldersWork, NEW p \in Processes, NEW o \in Ops, ops[o].token = p, Unsettled(o),
           Die(p), ops'[o].token \in {p, None}, \A q \in Ops \ {o} : ops'[q] = ops[q]
    PROVE  HoldersWork'
<1>1. \A q \in Ops :
           /\ Unsettled(q)' => Unsettled(q)
           /\ \/ Unsettled(q)' = Unsettled(q) /\ ops'[q].token = ops[q].token
                 /\ ops'[q].live = ops[q].live
              \/ ops[q].token = p /\ ops'[q].token \in {p, None} /\ ~Working(p)'
  BY StopEffect DEF Unsettled, Open, Committed
<1>. QED
  BY <1>1, StopEffect, ExecutorStep

\* A transaction that leaves the operation with its executor.
LEMMA StayingKeepsHolders ==
    ASSUME IInv, HoldersWork, NEW o \in Ops, NEW op \in OpStates, Open(o),
           ops' = [ops EXCEPT ![o] = op], op.phase \in {"open", "committed"},
           op.token = ops[o].token, op.live = ops[o].live, UNCHANGED lock,
           UNCHANGED proc \/ (Working(o) /\ Go(o, "plan"))
    PROVE  HoldersWork'
<1>. USE Constants
<1>1. \A q \in Ops : Unsettled(q)' = Unsettled(q) /\ ops'[q].token = ops[q].token
                     /\ ops'[q].live = ops[q].live
  BY DEF Unsettled, Open, Committed, IInv, RowsOK
<1>2. CASE UNCHANGED proc
  <2>1. \A p \in Processes : Working(p) => proc[p].op \in Ops
    BY DEF IInv, ExecutorsPlaced, PlacedAs, Working
  <2>2. \A p \in Processes :
            /\ Working(p)' = Working(p) /\ Calling(p)' = Calling(p)
            /\ Working(p) => Holder(p)' = Holder(p)
                             /\ ops'[proc'[p].op].live = ops[proc[p].op].live
    BY <1>1, <1>2, <2>1 DEF Working, Calling, Holder
  <2>. QED
    BY <1>2, <2>2 DEF HoldersWork
<1>3. CASE Working(o) /\ Go(o, "plan")
  <2>1. Working(o)' /\ ~Calling(o)'
    BY <1>3, GoEffect DEF Working, Calling
  <2>. QED
    BY <1>1, <1>3, <2>1, GoEffect, ExecutorStep
<1>. QED
  BY <1>2, <1>3

LEMMA PrepareKeepsHolders ==
    ASSUME IInv, HoldersWork, NEW o \in Ops, Prepare(o) PROVE HoldersWork'
<1>. USE Constants
<1>1. ops[o] \in OpStates /\ Bytes[o] \in Nat /\ o \in Processes
  BY DEF IInv, RowsOK
<1>2. /\ proc[o].at = "prepare" /\ Holds(o) /\ Go(o, "plan") /\ UNCHANGED lock
      /\ PrepareUpload(o) \/ PrepareOverwrite(o) \/ PrepareRelocation(o)
  BY DEF Prepare
<1>3. Open(o)
  <2>1. Unsettled(proc[o].op) /\ proc[o].op = o /\ ops[o].phase # "committed"
    BY <1>1, <1>2 DEF Holds, IInv, ExecutorsPlaced, PlacedAs
  <2>. QED
    BY <2>1 DEF Unsettled, Open, Committed
<1>4. PICK op \in OpStates : /\ ops' = [ops EXCEPT ![o] = op] /\ op.phase = ops[o].phase
                             /\ op.token = ops[o].token /\ op.live = ops[o].live
  <2>1. CASE UNCHANGED ops
    BY <1>1, <2>1 DEF IInv, RowsOK
  <2>2. CASE Reserve(o)
    <3>. DEFINE op == [ops[o] EXCEPT !.reserved = Bytes[o]]
    <3>1. /\ op \in OpStates /\ op.phase = ops[o].phase
          /\ op.token = ops[o].token /\ op.live = ops[o].live
      BY <1>1 DEF OpStates
    <3>2. ops' = [ops EXCEPT ![o] = op]
      BY <1>1, <2>2 DEF Reserve, IInv, RowsOK
    <3>. QED
      BY <3>1, <3>2
  <2>. QED
    BY <1>2, <2>1, <2>2 DEF PrepareUpload, PrepareOverwrite, PrepareRelocation
<1>5. Working(o) /\ op.phase \in {"open", "committed"}
  BY <1>2, <1>3, <1>4 DEF Working, Open
<1>. QED
  BY <1>2, <1>3, <1>4, <1>5, StayingKeepsHolders

LEMMA RecordsKeepHolders ==
    ASSUME IInv, HoldersWork, NEW p \in Processes,
           \/ p \in Ops /\ (RecordMade(p) \/ Intend(p))
           \/ p \in Workers /\ RecordRestored(p)
           \/ RecordDrop(p)
    PROVE  HoldersWork'
<1>. USE Constants
<1>1. UNCHANGED <<ops, lock>> /\ Working(p)
  BY DEF RecordMade, Intend, RecordRestored, RecordDrop, Working
<1>2. \/ UNCHANGED proc
      \/ proc' = [proc EXCEPT ![p].at = "plan", ![p].slot = None]
      \/ proc' = [proc EXCEPT ![p].at = "plan", ![p].loc = None]
  BY DEF RecordMade, Intend, RecordRestored, RecordDrop
<1>3. CASE UNCHANGED proc
  BY <1>1, <1>3 DEF HoldersWork, Holder, Working, Calling, Unsettled, Open, Committed
<1>. QED
  BY <1>1, <1>2, <1>3, MovesKeepHolders

LEMMA CommitKeepsHolders ==
    ASSUME IInv, HoldersWork, NEW o \in Ops, Commit(o) PROVE HoldersWork'
<1>. USE Constants
<1>1. /\ proc[o].at = "plan" /\ Holds(o) /\ Open(o)
      /\ \/ CommitUpload(o) /\ Die(o)
         \/ Purge(o) /\ Die(o)
         \/ (CommitOverwrite(o) \/ CommitRelocation(o)) /\ UNCHANGED <<lock, proc>>
  BY DEF Commit
<1>2. ops[o].token = o /\ ops[o] \in OpStates
  BY <1>1 DEF Holds, IInv, ExecutorsPlaced, PlacedAs, RowsOK
<1>3. CASE (CommitUpload(o) \/ Purge(o)) /\ Die(o)
  <2>1. ops' = [ops EXCEPT ![o] = Completed(o)]
    BY <1>3 DEF CommitUpload, Purge
  <2>2. ops'[o].token = None /\ \A q \in Ops \ {o} : ops'[q] = ops[q]
    BY <1>2, <2>1 DEF Completed, OpStates, IInv, RowsOK
  <2>. QED
    BY <1>1, <1>2, <1>3, <2>2, LeavingKeepsHolders DEF Unsettled
<1>4. CASE (CommitOverwrite(o) \/ CommitRelocation(o)) /\ UNCHANGED <<lock, proc>>
  <2>1. Publish(o)
    BY <1>4 DEF CommitOverwrite, CommitRelocation
  <2>. DEFINE op == [ops[o] EXCEPT !.phase = "committed", !.reserved = 0]
  <2>2. /\ op \in OpStates /\ op.phase = "committed"
        /\ op.token = ops[o].token /\ op.live = ops[o].live
    BY <1>2 DEF OpStates
  <2>3. ops' = [ops EXCEPT ![o] = op]
    BY <1>2, <2>1 DEF Publish, IInv, RowsOK
  <2>. HIDE DEF op
  <2>. QED
    BY <1>1, <1>4, <2>2, <2>3, StayingKeepsHolders
<1>. QED
  BY <1>1, <1>3, <1>4

LEMMA EndsKeepHolders ==
    ASSUME IInv, HoldersWork, NEW p \in Processes,
           Finish(p) \/ Handoff(p) \/ (p \in Workers /\ (Abort(p) \/ PurgeByJob(p)))
    PROVE  HoldersWork'
<1>. USE Constants
<1>1. proc[p].at # "idle" /\ Die(p)
  BY DEF Finish, Handoff, Abort, PurgeByJob
<1>2. PICK o \in Ops : o = proc[p].op
  BY <1>1 DEF IInv, ExecutorsPlaced, PlacedAs
<1>3. CASE UNCHANGED ops
  BY <1>1, <1>3, MovesKeepHolders
<1>4. CASE ~UNCHANGED ops
  <2>1. ops[o].token = p /\ Unsettled(o)
    BY <1>2, <1>4 DEF Finish, Handoff, Abort, PurgeByJob, Holds
  <2>2. ops'[o].token \in {p, None} /\ \A q \in Ops \ {o} : ops'[q] = ops[q]
    <3>1. ops[o] \in OpStates
      BY DEF IInv, RowsOK
    <3>2. CASE ops' = [ops EXCEPT ![o] = Completed(o)]
      BY <3>1, <3>2 DEF Completed, OpStates, IInv, RowsOK
    <3>3. CASE Handoff(p) \/ Abort(p)
      <4>1. \/ ops' = [ops EXCEPT ![o].error = TRUE, ![o].live = FALSE]
            \/ ops' = [ops EXCEPT ![o].phase = "failed", ![o].reserved = 0, ![o].live = FALSE]
        BY <1>2, <1>4, <3>3 DEF Handoff, Abort
      <4>2. ops'[o].token = ops[o].token
        BY <3>1, <4>1 DEF OpStates, IInv, RowsOK
      <4>. QED
        BY <2>1, <4>1, <4>2 DEF IInv, RowsOK
    <3>. QED
      BY <1>2, <3>2, <3>3 DEF Finish, PurgeByJob, Purge
  <2>. QED
    BY <1>1, <2>1, <2>2, LeavingKeepsHolders
<1>. QED
  BY <1>3, <1>4

LEMMA TakingKeepsHolders ==
    ASSUME IInv, HoldersWork,
           \/ \E o \in Ops : Request(o)
           \/ \E w \in Workers, o \in Ops :
                 \/ Claim(w, o)
                 \/ \E v \in Ids : EnlistHistory(w, o, v)
                 \/ \E f \in Ids : EnlistTrash(w, o, f)
    PROVE  HoldersWork'
<1>. USE Constants
<1>1. ASSUME NEW o \in Ops, NEW kind, NEW f, NEW path, NEW rev, Admit(o, kind, f, path, rev)
      PROVE  HoldersWork'
  <2>1. /\ lock = None /\ ops[o].phase = "none" /\ lock' = o
        /\ ops' = [ops EXCEPT ![o] = [NoOp EXCEPT !.phase = "open", !.kind = kind, !.file = f,
                  !.path = path, !.rev = rev, !.token = o, !.live = TRUE]]
        /\ proc' = [proc EXCEPT ![o] = [Idle EXCEPT !.at = "prepare", !.op = o]]
    BY <1>1 DEF Admit
  <2>2. /\ ops'[o].phase = "open" /\ ops'[o].token = o /\ ops'[o].live
        /\ \A q \in Ops \ {o} : ops'[q] = ops[q]
    BY <2>1 DEF NoOp, IInv, RowsOK
  <2>3. /\ proc'[o].at = "prepare" /\ proc'[o].op = o /\ ~proc'[o].lost
        /\ \A q \in Processes \ {o} : proc'[q] = proc[q]
    BY <2>1 DEF Idle, IInv, RowsOK
  <2>4. Unsettled(o)'
    BY <2>2 DEF Unsettled, Open
  <2>. QED
    BY <2>1, <2>2, <2>3, <2>4, TakeStep
<1>2. ASSUME NEW w \in Workers, NEW o \in Ops, Started(w, o)
      PROVE  /\ proc'[w].at = "plan" /\ proc'[w].op = o /\ ~proc'[w].lost
             /\ \A q \in Processes \ {w} : proc'[q] = proc[q]
  BY <1>2 DEF Started, Idle, IInv, RowsOK
<1>3. ASSUME NEW w \in Workers, NEW o \in Ops, Claim(w, o) PROVE HoldersWork'
  <2>1. /\ lock = None /\ Unsettled(o) /\ ~ops[o].live /\ lock' = w /\ Started(w, o)
        /\ ops' = [ops EXCEPT ![o].token = w, ![o].live = TRUE]
    BY <1>3 DEF Claim, Candidate
  <2>2. /\ ops'[o].phase = ops[o].phase /\ ops'[o].token = w /\ ops'[o].live
        /\ \A q \in Ops \ {o} : ops'[q] = ops[q]
    BY <2>1 DEF IInv, RowsOK, OpStates
  <2>3. Unsettled(o)'
    BY <2>1, <2>2 DEF Unsettled, Open, Committed
  <2>. QED
    BY <1>2, <2>1, <2>2, <2>3, TakeStep
<1>4. ASSUME NEW w \in Workers, NEW o \in Ops, NEW kind, NEW f, NEW doomed, Enlist(w, o, kind, f, doomed)
      PROVE  HoldersWork'
  <2>1. /\ lock = None /\ ops[o].phase = "none" /\ lock' = w /\ Started(w, o)
        /\ ops' = [ops EXCEPT ![o] = [NoOp EXCEPT !.phase = "open", !.kind = kind, !.file = f,
                  !.token = w, !.live = TRUE, !.due = TRUE]]
    BY <1>4 DEF Enlist
  <2>2. /\ ops'[o].phase = "open" /\ ops'[o].token = w /\ ops'[o].live
        /\ \A q \in Ops \ {o} : ops'[q] = ops[q]
    BY <2>1 DEF NoOp, IInv, RowsOK
  <2>3. Unsettled(o)'
    BY <2>2 DEF Unsettled, Open
  <2>. QED
    BY <1>2, <2>1, <2>2, <2>3, TakeStep
<1>. QED
  BY <1>1, <1>3, <1>4 DEF Request, EnlistHistory, EnlistTrash

\* The lock breaks: what was held under it is still held by the lease.
LEMMA LosingKeepsHolders ==
    ASSUME IInv, HoldersWork, NEW p \in Processes, LoseLock(p) PROVE HoldersWork'
<1>1. UNCHANGED <<ops, proc>> /\ lock = p /\ lock' = None
      /\ (Calling(p) => ops[proc[p].op].live)
  BY DEF LoseLock
<1>2. None \notin Processes
  BY FilesAssumption DEF Processes, Ids
<1>. QED
  BY <1>1, <1>2 DEF HoldersWork, Holder, Working, Calling, Unsettled, Open, Committed

LEMMA LocksHold == IInv /\ HoldersWork /\ [Next]_vars => HoldersWork'
<1>. SUFFICES ASSUME IInv, HoldersWork, [Next]_vars PROVE HoldersWork'
  OBVIOUS
<1>. USE Constants
<1>1. CASE UNCHANGED vars
  BY <1>1 DEF vars, HoldersWork, Holder, Working, Calling, Unsettled, Open, Committed
<1>2. ASSUME NEW p \in Processes, Advance(p) PROVE HoldersWork'
  <2>1. ASSUME NEW l \in Locations, IssueDrop(p, l) PROVE HoldersWork'
    <3>1. /\ Working(p) /\ UNCHANGED <<ops, lock>> /\ ~proc[p].lost
          /\ proc' = [proc EXCEPT ![p].at = "drop", ![p].loc = l]
      BY <2>1 DEF IssueDrop, Working
    <3>. QED
      BY <3>1, MovesKeepHolders
  <2>2. CASE Drop(p)
    <3>1. Working(p) /\ UNCHANGED <<ops, lock>> /\ Go(p, "dropped")
      BY <2>2 DEF Drop, Working
    <3>. QED
      BY <3>1, MovesKeepHolders
  <2>3. CASE GiveUp(p)
    <3>1. Leave(p) /\ UNCHANGED ops
      BY <2>3 DEF GiveUp
    <3>. QED
      BY <3>1, MovesKeepHolders
  <2>. QED
    BY <1>2, <2>1, <2>2, <2>3, RecordsKeepHolders, EndsKeepHolders DEF Advance
<1>3. ASSUME NEW o \in Ops, ServeRequest(o) PROVE HoldersWork'
  <2>1. ASSUME NEW s \in Slots, IssueMake(o, s) PROVE HoldersWork'
    <3>1. /\ Working(o) /\ UNCHANGED <<ops, lock>> /\ ~proc[o].lost
          /\ proc' = [proc EXCEPT ![o].at = "make", ![o].slot = s]
      BY <2>1 DEF IssueMake, Working
    <3>. QED
      BY <3>1, MovesKeepHolders
  <2>2. CASE Make(o)
    <3>1. Working(o) /\ UNCHANGED ops /\ ((Go(o, "made") /\ UNCHANGED lock) \/ Leave(o))
      BY <2>2 DEF Make, Working
    <3>. QED
      BY <3>1, MovesKeepHolders
  <2>. QED
    BY <1>2, <1>3, <2>1, <2>2, PrepareKeepsHolders, RecordsKeepHolders, CommitKeepsHolders
       DEF ServeRequest
<1>4. ASSUME NEW w \in Workers, ServeJob(w) PROVE HoldersWork'
  <2>1. ASSUME NEW s \in Slots, IssueRestore(w, s) PROVE HoldersWork'
    <3>1. /\ Working(w) /\ UNCHANGED <<ops, lock>> /\ ~proc[w].lost
          /\ proc' = [proc EXCEPT ![w].at = "restore", ![w].slot = s]
      BY <2>1 DEF IssueRestore, Working
    <3>. QED
      BY <3>1, MovesKeepHolders
  <2>2. CASE Restore(w)
    <3>1. Working(w) /\ UNCHANGED ops /\ ((Go(w, "restored") /\ UNCHANGED lock) \/ Leave(w))
      BY <2>2 DEF Restore, Working
    <3>. QED
      BY <3>1, MovesKeepHolders
  <2>. QED
    BY <1>2, <1>4, <2>1, <2>2, RecordsKeepHolders, EndsKeepHolders DEF ServeJob
<1>5. ASSUME NEW v \in Ids, Refer(v) \/ Unrefer(v) PROVE HoldersWork'
  BY <1>5 DEF Refer, Unrefer, HoldersWork, Holder, Working, Calling, Unsettled, Open, Committed
<1>6. CASE Mishap
  <2>1. ASSUME NEW p \in Processes, UNCHANGED ops, Leave(p) \/ Die(p) PROVE HoldersWork'
    BY <2>1, MovesKeepHolders
  <2>2. ASSUME NEW o \in Ops, MakeFails(o) PROVE HoldersWork'
    BY <2>1, <2>2 DEF MakeFails
  <2>3. ASSUME NEW w \in Workers, RestoreFails(w) PROVE HoldersWork'
    BY <2>1, <2>3 DEF RestoreFails
  <2>4. ASSUME NEW p \in Processes, DropFails(p) \/ Break(p) \/ Crash(p) PROVE HoldersWork'
    BY <2>1, <2>4 DEF DropFails, Break, Crash
  <2>. QED
    BY <1>6, <2>2, <2>3, <2>4, LeaseEnds, LosingKeepsHolders DEF Mishap
<1>7. ASSUME NEW o \in Ops, Refuse(o) PROVE HoldersWork'
  <2>1. Leave(o) /\ UNCHANGED ops
    BY <1>7 DEF Refuse
  <2>. QED
    BY <2>1, MovesKeepHolders
<1>. QED
  BY <1>1, <1>3, <1>4, <1>5, <1>6, <1>7, LeaseEnds, TakingKeepsHolders DEF Next

LEMMA LocksBegin == Init => HoldersWork
<1>1. None \notin Processes
  BY FilesAssumption DEF Processes, Ids
<1>. QED
  BY <1>1 DEF Init, HoldersWork, Working, Calling, Idle

-----------------------------------------------------------------------------
(* Addresses and plans *)

\* An operation has an address to itself: the name it reserved, with the file
\* that bears it, the history and the trash of the file it is busy with, and
\* its staging.
Owned(o, l) ==
    \/ \E q \in Paths : /\ l = InFiles(q) /\ names[q] = o
                        /\ \A g \in Ids : entries[g].state = "active" /\ entries[g].path = q
                              => entries[g].busy = o
    \/ \E v \in Ids : /\ l \in {InHistory(v), InTrash(v)} /\ versions[v].state # "unborn"
                      /\ entries[versions[v].file].busy = o
    \/ l = InStaging(o)
Touches(o, l) == \E s \in Slots : objs[o][s].src = l \/ objs[o][s].dst = l
PlansOwned ==
    \A o \in Ops, l \in Locations : Unsettled(o) /\ Touches(o, l) => Owned(o, l)

Placed(v) ==
    LET e == entries[versions[v].file]
    IN  /\ e.state \in {"active", "trashed"}
        /\ v # e.current => versions[v].loc = InHistory(v)
        /\ v = e.current /\ e.state = "active" => versions[v].loc = InFiles(e.path)
        /\ v = e.current /\ e.state = "trashed" => versions[v].loc = InTrash(v)
VersionsPlaced == \A v \in Ids : versions[v].state = "live" => Placed(v)
CurrentLives ==
    \A f \in Ids : entries[f].state \in {"active", "trashed"} =>
        versions[entries[f].current].state = "live" /\ versions[entries[f].current].file = f
PathsApart ==
    \A f, g \in Ids : entries[f].state = "active" /\ entries[g].state = "active"
        /\ entries[f].path = entries[g].path => f = g
BusyHeld ==
    \A f \in Ids, o \in Ops : entries[f].busy = o =>
        Unsettled(o) /\ ops[o].file = f /\ ops[o].kind # "upload"

UploadShaped(o) ==
    \A s \in Slots : Present(o, s) =>
        /\ s = o /\ Open(o) /\ objs[o][s].ver = o
        /\ objs[o][s].src = None /\ objs[o][s].dst = InFiles(ops[o].path)
        /\ ~objs[o][s].started /\ ~objs[o][s].srcGone
Held(o, v) ==
    /\ versions[v].state = "live" /\ versions[v].file = ops[o].file
    /\ entries[ops[o].file].busy = o /\ objs[o][v].ver = v
StagingShaped(o) ==
    Present(o, "staging") =>
        /\ objs[o]["staging"].ver = o /\ objs[o]["staging"].src = None
        /\ objs[o]["staging"].dst = InStaging(o)
        /\ ~objs[o]["staging"].started /\ ~objs[o]["staging"].srcGone
ReplacementShaped(o) ==
    LET x == objs[o]["replacement"]
    IN  Present(o, "replacement") =>
          /\ x.ver = o /\ x.src = InStaging(o) /\ ~x.started
          /\ x.dst = InFiles(entries[ops[o].file].path)
          /\ Open(o) => ~x.srcGone
          /\ \A v \in Ids : Present(o, v) => objs[o][v].started /\ (x.prepared => objs[o][v].srcGone)
ArchiveShaped(o, v) ==
    LET x == objs[o][v]
    IN  Present(o, v) =>
          /\ Held(o, v) /\ v # o /\ entries[ops[o].file].state = "active"
          /\ x.src = InFiles(entries[ops[o].file].path) /\ x.dst = InHistory(v)
          /\ v = entries[ops[o].file].current <=> Open(o)
          /\ x.srcGone => x.started
          /\ x.started => x.prepared
OverwriteShaped(o) ==
    /\ StagingShaped(o) /\ ReplacementShaped(o) /\ \A v \in Ids : ArchiveShaped(o, v)
    /\ Planned(o) => \E v \in Ids : Present(o, v)
    /\ Committed(o) => Present(o, "replacement") /\ objs[o]["replacement"].prepared
RelocationShaped(o) ==
    \A s \in Slots : Present(o, s) =>
        LET x == objs[o][s]
        IN  /\ s \in Ids /\ s = entries[ops[o].file].current /\ Held(o, s)
            /\ x.src # None /\ x.src # x.dst /\ \A v \in Ids : x.src # InHistory(v)
            /\ x.dst = IF ops[o].kind = "trash" THEN InTrash(s) ELSE InFiles(ops[o].path)
            /\ versions[s].loc = IF Open(o) THEN x.src ELSE x.dst
            /\ ~x.started /\ (Open(o) => ~x.srcGone)
PurgeShaped(o) ==
    /\ ~Committed(o)
    /\ \A s \in Slots : Present(o, s) =>
        /\ s \in Ids /\ Held(o, s)
        /\ objs[o][s].src = versions[s].loc /\ objs[o][s].src \in {InHistory(s), InTrash(s)}
        /\ objs[o][s].dst = None /\ ~objs[o][s].started
        /\ ops[o].kind # "history_purge" => \A v \in VersionsOf(ops[o].file) : Present(o, v)
Shaped(o) ==
    /\ ops[o].kind = "upload" => UploadShaped(o)
    /\ ops[o].kind = "overwrite" => OverwriteShaped(o)
    /\ ops[o].kind \in {"move", "trash", "restore"} => RelocationShaped(o)
    /\ Purging(o) => PurgeShaped(o)
PlansShaped == \A o \in Ops : Unsettled(o) => ops[o].kind # "none" /\ Shaped(o)

RequestFirst ==
    \A o \in Ops : ops[o].phase = "none" \/ (Open(o) /\ ops[o].token = o)
        => \A s \in Slots : ~objs[o][s].restored
\* What was restored stays: nothing that was written over it is left to delete.
Clear(o) ==
    \A s \in Slots : objs[o][s].started /\ objs[o][s].restored =>
        Open(o) /\ \A t \in Slots : objs[o][t].dst = objs[o][s].src => objs[o][t].dstGone
RestoredClear == \A o \in Ops : Unsettled(o) => Clear(o)

LEMMA AddressesApart ==
    /\ \A p \in Paths, q \in Paths : InFiles(p) = InFiles(q) => p = q
    /\ \A v \in Ids, u \in Ids :
          /\ InHistory(v) = InHistory(u) => v = u
          /\ InTrash(v) = InTrash(u) => v = u
          /\ InStaging(v) = InStaging(u) => v = u
          /\ InHistory(v) # InTrash(u) /\ InHistory(v) # InStaging(u) /\ InTrash(v) # InStaging(u)
    /\ \A p \in Paths, v \in Ids :
          InFiles(p) # InHistory(v) /\ InFiles(p) # InTrash(v) /\ InFiles(p) # InStaging(v)
    /\ \A p \in Paths : InFiles(p) # None
    /\ \A v \in Ids : InHistory(v) # None /\ InTrash(v) # None /\ InStaging(v) # None
<1>1. None \notin Locations
  BY FilesAssumption
<1>. QED
  BY <1>1, Addresses DEF InFiles, InHistory, InTrash, InStaging

LEMMA OwnedApart ==
    ASSUME NEW o \in Ops, NEW q \in Ops, NEW l, Owned(o, l), Owned(q, l)
    PROVE  o = q
<1>. USE Constants, AddressesApart
<1>1. CASE \E n \in Paths : l = InFiles(n) /\ names[n] = o
  BY <1>1 DEF Owned
<1>2. CASE \E v \in Ids : l \in {InHistory(v), InTrash(v)} /\ entries[versions[v].file].busy = o
  BY <1>2 DEF Owned
<1>3. CASE l = InStaging(o)
  BY <1>3 DEF Owned
<1>. QED
  BY <1>1, <1>2, <1>3 DEF Owned

-----------------------------------------------------------------------------
(* A step on one operation *)

Book ==
    /\ PlansOwned /\ VersionsPlaced /\ CurrentLives /\ PathsApart
    /\ BusyHeld /\ PlansShaped /\ RequestFirst /\ RestoredClear

\* What a step on operation o leaves to the others: their rows, the files they
\* are busy with and the names they reserved.
Leaves(o) ==
    /\ \A q \in Ops \ {o} : ops'[q] = ops[q] /\ objs'[q] = objs[q]
    /\ \A f \in Ids : entries[f].busy \notin {None, o} => entries'[f] = entries[f]
    /\ \A f \in Ids, q \in Ops \ {o} : entries'[f].busy = q => entries[f].busy = q
    /\ \A f \in Ids : entries'[f].state = "active" =>
          \/ names[entries'[f].path] \in {None, o}
          \/ entries[f].state = "active" /\ entries'[f].path = entries[f].path
    /\ \A v \in Ids : versions'[v] # versions[v] =>
          /\ versions[v].state = "unborn" \/ entries[versions[v].file].busy = o
          /\ versions'[v].file \in Ids /\ entries[versions'[v].file].busy \in {None, o}
          /\ versions'[v].state = "live" => Unsettled(o) /\ Touches(o, versions'[v].loc)
    /\ \A n \in Paths : names[n] \notin {None, o} => names'[n] = names[n]

LEMMA OwnedKept ==
    ASSUME IInv, NEW o \in Ops, Leaves(o), NEW q \in Ops \ {o}, NEW l, Owned(q, l)
    PROVE  Owned(q, l)'
<1>. USE Constants
<1>1. CASE \E n \in Paths : /\ l = InFiles(n) /\ names[n] = q
                        /\ \A g \in Ids : entries[g].state = "active" /\ entries[g].path = n
                              => entries[g].busy = q
  <2>1. PICK n \in Paths : /\ l = InFiles(n) /\ names[n] = q
                        /\ \A g \in Ids : entries[g].state = "active" /\ entries[g].path = n
                              => entries[g].busy = q
    BY <1>1
  <2>2. names'[n] = q
    BY <2>1 DEF Leaves
  <2>3. ASSUME NEW g \in Ids, entries'[g].state = "active", entries'[g].path = n
        PROVE  entries'[g].busy = q
    BY <2>1, <2>3 DEF Leaves
  <2>. QED
    BY <2>1, <2>2, <2>3 DEF Owned
<1>2. CASE \E v \in Ids : /\ l \in {InHistory(v), InTrash(v)} /\ versions[v].state # "unborn"
                      /\ entries[versions[v].file].busy = q
  <2>1. PICK v \in Ids : /\ l \in {InHistory(v), InTrash(v)} /\ versions[v].state # "unborn"
                      /\ entries[versions[v].file].busy = q
    BY <1>2
  <2>2. versions'[v] = versions[v]
    BY <2>1 DEF Leaves
  <2>3. entries'[versions[v].file] = entries[versions[v].file]
    BY <2>1 DEF Leaves, IInv, VersionsFiled
  <2>. QED
    BY <2>1, <2>2, <2>3 DEF Owned
<1>3. CASE l = InStaging(q)
  BY <1>3 DEF Owned
<1>. QED
  BY <1>1, <1>2, <1>3 DEF Owned

LEMMA FileKept ==
    ASSUME IInv, NEW o \in Ops, Leaves(o), NEW q \in Ops \ {o}, NEW f \in Ids, entries[f].busy = q
    PROVE  /\ entries'[f] = entries[f]
           /\ \A v \in Ids : versions[v].state # "unborn" /\ versions[v].file = f
                 => versions'[v] = versions[v]
           /\ \A v \in Ids : versions'[v].file = f => versions'[v] = versions[v]
<1>. USE Constants
<1>. QED
  BY DEF Leaves

LEMMA OthersShaped ==
    ASSUME IInv, Book, NEW o \in Ops, Leaves(o), NEW q \in Ops \ {o}, Unsettled(q)
    PROVE  Unsettled(q)' /\ ops'[q].kind # "none" /\ Shaped(q)'
<1>. USE Constants
<1>1. ops'[q] = ops[q] /\ objs'[q] = objs[q]
  BY DEF Leaves
<1>2. Shaped(q) /\ ops[q].kind # "none" /\ ops[q].file \in Ids
  BY DEF Book, PlansShaped, IInv, PlansFollow, Unsettled, Open, Committed
<1>3. Unsettled(q)' /\ (Open(q)' = Open(q)) /\ (Committed(q)' = Committed(q)) /\ (Purging(q)' = Purging(q))
  BY <1>1 DEF Unsettled, Open, Committed, Purging
<1>4. \A s \in Slots : Present(q, s)' = Present(q, s)
  BY <1>1 DEF Present
<1>. DEFINE f == ops[q].file
<1>5. ASSUME NEW v \in Ids, Held(q, v)
      PROVE  Held(q, v)' /\ entries'[f] = entries[f] /\ versions'[v] = versions[v]
  <2>1. entries[f].busy = q /\ versions[v].file = f /\ versions[v].state = "live"
    BY <1>5 DEF Held
  <2>2. entries'[f] = entries[f] /\ versions'[v] = versions[v]
    BY <1>2, <2>1, FileKept
  <2>. QED
    BY <1>1, <1>5, <2>2 DEF Held
<1>6. ops[q].kind = "upload" => UploadShaped(q)'
  BY <1>1, <1>2, <1>3, <1>4 DEF Shaped, UploadShaped
<1>7. ASSUME ops[q].kind = "overwrite" PROVE OverwriteShaped(q)'
  <2>1. OverwriteShaped(q)
    BY <1>2, <1>7 DEF Shaped
  <2>2. StagingShaped(q)'
    BY <1>1, <1>4, <2>1 DEF OverwriteShaped, StagingShaped
  <2>3. Planned(q) => entries'[f] = entries[f]
    BY <1>5, <2>1 DEF OverwriteShaped, ArchiveShaped
  <2>4. ReplacementShaped(q)'
    BY <1>1, <1>3, <1>4, <2>1, <2>3 DEF OverwriteShaped, ReplacementShaped, Planned
  <2>5. \A v \in Ids : ArchiveShaped(q, v)'
    BY <1>1, <1>3, <1>4, <1>5, <2>1 DEF OverwriteShaped, ArchiveShaped
  <2>. QED
    BY <1>1, <1>3, <1>4, <2>1, <2>2, <2>4, <2>5 DEF OverwriteShaped, Planned
<1>8. ASSUME ops[q].kind \in {"move", "trash", "restore"} PROVE RelocationShaped(q)'
  <2>1. RelocationShaped(q)
    BY <1>2, <1>8 DEF Shaped
  <2>. QED
    BY <1>1, <1>3, <1>4, <1>5, <2>1 DEF RelocationShaped
<1>9. ASSUME Purging(q) PROVE PurgeShaped(q)'
  <2>1. PurgeShaped(q)
    BY <1>2, <1>9 DEF Shaped
  <2>2. ASSUME NEW s \in Ids, Held(q, s) PROVE VersionsOf(ops[q].file)' \subseteq VersionsOf(ops[q].file)
    <3>1. entries[f].busy = q
      BY <2>2 DEF Held
    <3>2. \A v \in Ids : versions'[v].file = f => versions'[v] = versions[v]
      BY <1>2, <3>1, FileKept
    <3>. QED
      BY <1>1, <3>2 DEF VersionsOf
  <2>3. ASSUME NEW s \in Slots, Present(q, s)'
        PROVE  /\ s \in Ids /\ Held(q, s)'
               /\ objs'[q][s].src = versions'[s].loc /\ objs'[q][s].src \in {InHistory(s), InTrash(s)}
               /\ objs'[q][s].dst = None /\ ~objs'[q][s].started
               /\ ops'[q].kind # "history_purge" => \A v \in VersionsOf(ops[q].file)' : Present(q, v)'
    <3>1. /\ s \in Ids /\ Held(q, s)
          /\ objs[q][s].src = versions[s].loc /\ objs[q][s].src \in {InHistory(s), InTrash(s)}
          /\ objs[q][s].dst = None /\ ~objs[q][s].started
          /\ ops[q].kind # "history_purge" => \A v \in VersionsOf(ops[q].file) : Present(q, v)
      BY <1>4, <2>1, <2>3 DEF PurgeShaped
    <3>2. ops'[q].kind # "history_purge" => \A v \in VersionsOf(ops[q].file)' : Present(q, v)'
      <4>1. \A v \in VersionsOf(ops[q].file)' : v \in VersionsOf(ops[q].file) /\ v \in Slots
        BY <2>2, <3>1 DEF VersionsOf
      <4>. QED
        BY <1>1, <1>4, <3>1, <4>1
    <3>. QED
      BY <1>1, <1>5, <3>1, <3>2
  <2>. QED
    BY <1>3, <2>1, <2>3 DEF PurgeShaped
<1>. QED
  BY <1>1, <1>2, <1>3, <1>6, <1>7, <1>8, <1>9 DEF Shaped

\* What operation o itself is left with.
OwnBook(o) ==
    /\ Unsettled(o) =>
          /\ ops[o].kind # "none" /\ Shaped(o) /\ Clear(o)
          /\ \A l \in Locations : Touches(o, l) => Owned(o, l)
    /\ ops[o].phase = "none" \/ (Open(o) /\ ops[o].token = o)
          => \A s \in Slots : ~objs[o][s].restored
    /\ \A f \in Ids : entries[f].busy = o =>
          Unsettled(o) /\ ops[o].file = f /\ ops[o].kind # "upload"

LEMMA OwnBookHolds == ASSUME Book, NEW o \in Ops PROVE OwnBook(o)
<1>. QED
  BY DEF Book, OwnBook, PlansShaped, PlansOwned, RequestFirst, RestoredClear, BusyHeld

LEMMA BookStep ==
    ASSUME IInv, Book, NEW o \in Ops, Leaves(o), OwnBook(o)',
           VersionsPlaced', CurrentLives', PathsApart'
    PROVE  Book'
<1>. USE Constants
<1>1. PlansOwned'
  <2>. SUFFICES ASSUME NEW q \in Ops, NEW l \in Locations, Unsettled(q)', Touches(q, l)'
                PROVE  Owned(q, l)'
    BY DEF PlansOwned
  <2>1. CASE q = o
    BY <2>1 DEF OwnBook
  <2>2. CASE q # o
    <3>1. ops'[q] = ops[q] /\ objs'[q] = objs[q]
      BY <2>2 DEF Leaves
    <3>2. Unsettled(q) /\ Touches(q, l)
      BY <3>1 DEF Unsettled, Open, Committed, Touches
    <3>3. Owned(q, l)
      BY <3>2 DEF Book, PlansOwned
    <3>. QED
      BY <2>2, <3>3, OwnedKept
  <2>. QED
    BY <2>1, <2>2
<1>2. PlansShaped'
  <2>. SUFFICES ASSUME NEW q \in Ops, Unsettled(q)' PROVE ops'[q].kind # "none" /\ Shaped(q)'
    BY DEF PlansShaped
  <2>1. CASE q = o
    BY <2>1 DEF OwnBook
  <2>2. CASE q # o
    <3>1. Unsettled(q)
      BY <2>2 DEF Leaves, Unsettled, Open, Committed
    <3>. QED
      BY <2>2, <3>1, OthersShaped
  <2>. QED
    BY <2>1, <2>2
<1>3. RequestFirst'
  <2>. SUFFICES ASSUME NEW q \in Ops, ops'[q].phase = "none" \/ (Open(q)' /\ ops'[q].token = q)
                PROVE  \A s \in Slots : ~objs'[q][s].restored
    BY DEF RequestFirst
  <2>1. CASE q = o
    BY <2>1 DEF OwnBook
  <2>2. CASE q # o
    BY <2>2 DEF Leaves, Book, RequestFirst, Open
  <2>. QED
    BY <2>1, <2>2
<1>4. BusyHeld'
  <2>. SUFFICES ASSUME NEW f \in Ids, NEW q \in Ops, entries'[f].busy = q
                PROVE  Unsettled(q)' /\ ops'[q].file = f /\ ops'[q].kind # "upload"
    BY DEF BusyHeld
  <2>1. CASE q = o
    BY <2>1 DEF OwnBook
  <2>2. CASE q # o
    BY <2>2 DEF Leaves, Book, BusyHeld, Unsettled, Open, Committed
  <2>. QED
    BY <2>1, <2>2
<1>5. RestoredClear'
  <2>. SUFFICES ASSUME NEW q \in Ops, Unsettled(q)' PROVE Clear(q)'
    BY DEF RestoredClear
  <2>1. CASE q = o
    BY <2>1 DEF OwnBook
  <2>2. CASE q # o
    BY <2>2 DEF Leaves, Book, RestoredClear, Clear, Unsettled, Open, Committed
  <2>. QED
    BY <2>1, <2>2
<1>. QED
  BY <1>1, <1>2, <1>3, <1>4, <1>5 DEF Book

\* Files keep their place while nothing of them changes but who is busy with them.
LEMMA FilesKept ==
    ASSUME IInv, Book, UNCHANGED versions,
           \A f \in Ids : /\ entries'[f].state = entries[f].state /\ entries'[f].path = entries[f].path
                          /\ entries'[f].current = entries[f].current
    PROVE  VersionsPlaced' /\ CurrentLives' /\ PathsApart'
<1>. USE Constants
<1>1. VersionsPlaced'
  BY DEF Book, VersionsPlaced, Placed, IInv, VersionsFiled
<1>2. CurrentLives'
  BY DEF Book, CurrentLives
<1>3. PathsApart'
  BY DEF Book, PathsApart
<1>. QED
  BY <1>1, <1>2, <1>3

\* A step on the plan of an operation, or on who holds it.
LEMMA PlanBookStep ==
    ASSUME IInv, Book, NEW o \in Ops, UNCHANGED <<entries, versions, names>>,
           \A q \in Ops \ {o} : ops'[q] = ops[q] /\ objs'[q] = objs[q], OwnBook(o)'
    PROVE  Book' /\ Leaves(o)
<1>1. Leaves(o)
  BY DEF Leaves
<1>. QED
  BY <1>1, FilesKept, BookStep

\* The rows of an operation stay, whoever holds it and whatever happens to its
\* lease.
LEMMA LeaseBookStep ==
    ASSUME IInv, Book, UNCHANGED <<entries, versions, names, objs>>,
           \A o \in Ops : /\ ops'[o].phase = ops[o].phase /\ ops'[o].kind = ops[o].kind
                          /\ ops'[o].file = ops[o].file /\ ops'[o].path = ops[o].path
                          /\ Open(o) /\ ops'[o].token = o => ops[o].token = o
    PROVE  Book'
<1>. USE Constants
<1>1. \A o \in Ops : /\ Unsettled(o)' = Unsettled(o) /\ Open(o)' = Open(o)
                      /\ Committed(o)' = Committed(o) /\ Purging(o)' = Purging(o)
                      /\ \A s \in Slots : Present(o, s)' = Present(o, s)
                      /\ Planned(o)' = Planned(o)
  BY DEF Unsettled, Open, Committed, Purging, Present, Planned
<1>2. VersionsPlaced' /\ CurrentLives' /\ PathsApart'
  BY FilesKept
<1>3. PlansOwned'
  BY <1>1 DEF Book, PlansOwned, Owned, Touches
<1>4. BusyHeld' /\ RequestFirst' /\ RestoredClear'
  BY <1>1 DEF Book, BusyHeld, RequestFirst, RestoredClear, Clear
<1>5. PlansShaped'
  <2>. SUFFICES ASSUME NEW o \in Ops, Unsettled(o) PROVE ops'[o].kind # "none" /\ Shaped(o)'
    BY <1>1 DEF PlansShaped
  <2>1. Shaped(o) /\ ops[o].kind # "none"
    BY DEF Book, PlansShaped
  <2>2. UploadShaped(o) => UploadShaped(o)'
    BY <1>1 DEF UploadShaped
  <2>3. \A v \in Ids : Held(o, v) => Held(o, v)'
    BY DEF Held
  <2>4. OverwriteShaped(o) => OverwriteShaped(o)'
    BY <1>1, <2>3 DEF OverwriteShaped, StagingShaped, ReplacementShaped, ArchiveShaped
  <2>5. RelocationShaped(o) => RelocationShaped(o)'
    BY <1>1, <2>3 DEF RelocationShaped
  <2>6. PurgeShaped(o) => PurgeShaped(o)'
    BY <1>1, <2>3 DEF PurgeShaped, VersionsOf
  <2>. QED
    BY <1>1, <2>1, <2>2, <2>4, <2>5, <2>6 DEF Shaped
<1>. QED
  BY <1>2, <1>3, <1>4, <1>5 DEF Book

-----------------------------------------------------------------------------
(* What an executor is about *)

Exposed(o, v) == Unsettled(o) /\ Present(o, v) /\ (Purging(o) \/ objs[o][v].started)
Spared(o, l) ==
    /\ \A v \in Ids : versions[v].state = "live" /\ versions[v].loc = l => Exposed(o, v)
    /\ \A s \in Slots : objs[o][s].started =>
          l # IF objs[o][s].restored THEN objs[o][s].src ELSE objs[o][s].dst
MakeFits(p) ==
    LET o == proc[p].op
        s == proc[p].slot
    IN  /\ p \in Ops /\ Open(o) /\ Present(o, s) /\ objs[o][s].dst # None /\ ~objs[o][s].prepared
        /\ s = "replacement" => \A v \in Ids : Present(o, v) => objs[o][v].srcGone
DropFits(p) ==
    LET o == proc[p].op
        l == proc[p].loc
    IN  /\ l \in Locations /\ Touches(o, l)
        /\ p \in Ops /\ Open(o) => Purging(o) \/ \E s \in Slots : objs[o][s].started /\ objs[o][s].src = l
        /\ proc[p].at = "drop" => Spared(o, l)
        /\ proc[p].at = "drop" /\ p \in Ops /\ Open(o) =>
              \A s \in Slots : objs[o][s].prepared => objs[o][s].dst # l
RestoreFits(p) ==
    LET o == proc[p].op
        s == proc[p].slot
    IN  /\ p \in Workers /\ Open(o) /\ objs[o][s].started /\ ~objs[o][s].restored
        /\ \A t \in Slots : objs[o][t].dst = objs[o][s].src => objs[o][t].dstGone
\* A request prepares nothing twice, and what it is to publish is planned.
RequestFits(o) ==
    /\ proc[o].at = "prepare" => Open(o) /\ ~Planned(o)
    /\ proc[o].at # "prepare" /\ Open(o) /\ ~Purging(o) => Planned(o)
CallFits(p) ==
    /\ proc[p].at \in {"make", "made"} => MakeFits(p)
    /\ proc[p].at \in {"drop", "dropped"} => DropFits(p)
    /\ proc[p].at \in {"restore", "restored"} => RestoreFits(p)
    /\ p \in Ops => RequestFits(p)
CallsFit == \A p \in Processes : Active(p) => CallFits(p)

LEMMA OtherFits ==
    ASSUME IInv, Book, NEW o \in Ops, Leaves(o), NEW p \in Processes, proc'[p] = proc[p],
           proc[p].op \in Ops \ {o}, Unsettled(proc[p].op), p \in Ops => proc[p].op = p,
           CallFits(p)
    PROVE  CallFits(p)'
<1>. USE Constants
<1>1. PICK q \in Ops \ {o} : q = proc[p].op
  OBVIOUS
<1>2. ops'[q] = ops[q] /\ objs'[q] = objs[q]
  BY DEF Leaves
<1>3. (Open(q)' = Open(q)) /\ (Unsettled(q)' = Unsettled(q)) /\ (Purging(q)' = Purging(q))
      /\ \A s \in Slots : Present(q, s)' = Present(q, s)
  BY <1>2 DEF Unsettled, Open, Committed, Purging, Present
<1>4. MakeFits(p) => MakeFits(p)'
  BY <1>1, <1>2 DEF MakeFits, Open, Present
<1>5. RestoreFits(p) => RestoreFits(p)'
  BY <1>1, <1>2, <1>3 DEF RestoreFits
<1>6. p \in Ops /\ RequestFits(p) => RequestFits(p)'
  BY <1>1, <1>2, <1>3 DEF RequestFits, Planned
<1>7. ASSUME DropFits(p) PROVE DropFits(p)'
  <2>. DEFINE l == proc[p].loc
  <2>1. l \in Locations /\ Touches(q, l)
    BY <1>1, <1>7 DEF DropFits
  <2>2. Owned(q, l)
    BY <1>1, <2>1 DEF Book, PlansOwned
  <2>3. Spared(q, l) => Spared(q, l)'
    <3>1. ASSUME Spared(q, l), NEW v \in Ids, versions'[v].state = "live", versions'[v].loc = l
          PROVE  Exposed(q, v)'
      <4>1. versions'[v] = versions[v]
        <5>1. ASSUME versions'[v] # versions[v] PROVE FALSE
          <6>1. Unsettled(o) /\ Touches(o, l)
            BY <3>1, <5>1 DEF Leaves
          <6>2. Owned(o, l)
            BY <2>1, <6>1 DEF Book, PlansOwned
          <6>. QED
            BY <2>2, <6>2, OwnedApart
        <5>. QED
          BY <5>1
      <4>2. Exposed(q, v)
        BY <3>1, <4>1 DEF Spared
      <4>. QED
        BY <1>2, <1>3, <4>2 DEF Exposed
    <3>. QED
      BY <1>1, <1>2, <3>1 DEF Spared
  <2>. QED
    <3>1. Touches(q, l)'
      BY <1>2, <2>1 DEF Touches
    <3>2. \A s \in Slots : objs'[q][s] = objs[q][s]
      BY <1>2
    <3>. QED
      BY <1>1, <1>3, <1>7, <2>1, <2>3, <3>1, <3>2 DEF DropFits
<1>. QED
  BY <1>1, <1>4, <1>5, <1>6, <1>7 DEF CallFits

\* Nothing an executor is about changes while the rows stay.
LEMMA SameFits ==
    ASSUME IInv, UNCHANGED <<entries, versions, objs>>,
           \A o \in Ops : /\ ops'[o].phase = ops[o].phase /\ ops'[o].kind = ops[o].kind
                          /\ ops'[o].file = ops[o].file,
           NEW p \in Processes, proc[p].op \in Ops, p \in Ops => proc[p].op = p,
           proc'[p].at = proc[p].at, proc'[p].op = proc[p].op,
           proc'[p].slot = proc[p].slot, proc'[p].loc = proc[p].loc,
           CallFits(p)
    PROVE  CallFits(p)'
<1>. USE Constants
<1>1. PICK q \in Ops : q = proc[p].op
  OBVIOUS
<1>2. (Open(q)' = Open(q)) /\ (Unsettled(q)' = Unsettled(q)) /\ (Purging(q)' = Purging(q))
      /\ \A s \in Slots : Present(q, s)' = Present(q, s)
  BY DEF Unsettled, Open, Committed, Purging, Present
<1>3. MakeFits(p) => MakeFits(p)'
  BY <1>1, <1>2 DEF MakeFits, Present
<1>4. RestoreFits(p) => RestoreFits(p)'
  BY <1>1, <1>2 DEF RestoreFits
<1>5. p \in Ops /\ RequestFits(p) => RequestFits(p)'
  BY <1>1, <1>2 DEF RequestFits, Planned
<1>6. DropFits(p) => DropFits(p)'
  <2>. SUFFICES ASSUME DropFits(p) PROVE DropFits(p)'
    OBVIOUS
  <2>1. PICK l \in Locations : l = proc[p].loc
    BY DEF DropFits
  <2>2. Touches(q, l)' <=> Touches(q, l)
    BY DEF Touches
  <2>3. Spared(q, l)' <=> Spared(q, l)
    BY <1>2 DEF Spared, Exposed
  <2>. QED
    BY <1>1, <1>2, <2>1, <2>2, <2>3 DEF DropFits
<1>. QED
  BY <1>1, <1>3, <1>4, <1>5, <1>6 DEF CallFits

\* An executor moves while the rows stay.
LEMMA MoveCallsStep ==
    ASSUME IInv, HoldersWork, CallsFit, UNCHANGED <<entries, versions, objs>>,
           \A o \in Ops : /\ ops'[o].phase = ops[o].phase /\ ops'[o].kind = ops[o].kind
                          /\ ops'[o].file = ops[o].file,
           NEW p \in Processes, \A q \in Processes \ {p} : proc'[q] = proc[q],
           Active(p)' => CallFits(p)'
    PROVE  CallsFit'
<1>. SUFFICES ASSUME NEW q \in Processes \ {p}, Active(q)' PROVE CallFits(q)'
  BY DEF CallsFit
<1>1. proc'[q] = proc[q]
  OBVIOUS
<1>2. Active(q)
  BY <1>1 DEF Active, Calling, Working
<1>3. CallFits(q)
  BY <1>2 DEF CallsFit
<1>4. proc[q].op \in Ops /\ (q \in Ops => proc[q].op = q)
  BY <1>2, ActiveHolds DEF IInv, ExecutorsPlaced, PlacedAs, Working
<1>. QED
  BY <1>1, <1>3, <1>4, SameFits

\* An executor changes what belongs to its operation.
LEMMA OwnCallsStep ==
    ASSUME IInv, HoldersWork, Book, CallsFit,
           NEW o \in Ops, Leaves(o), NEW p \in Processes,
           \A q \in Processes \ {p} : proc'[q] = proc[q] /\ (Active(q) => proc[q].op # o),
           Active(p)' => CallFits(p)'
    PROVE  CallsFit'
<1>. SUFFICES ASSUME NEW q \in Processes \ {p}, Active(q)' PROVE CallFits(q)'
  BY DEF CallsFit
<1>1. proc'[q] = proc[q]
  OBVIOUS
<1>2. Active(q)
  BY <1>1 DEF Active, Calling, Working
<1>3. CallFits(q) /\ proc[q].op # o
  BY <1>2 DEF CallsFit
<1>4. proc[q].op \in Ops /\ (q \in Ops => proc[q].op = q) /\ Unsettled(proc[q].op)
  BY <1>2, ActiveHolds DEF IInv, ExecutorsPlaced, PlacedAs, Working, Holder
<1>. QED
  BY <1>1, <1>3, <1>4, OtherFits

\* Who may record is alone with the operation.
LEMMA HoldsAlone ==
    ASSUME IInv, HoldersWork, NEW p \in Processes, Working(p), Holds(p)
    PROVE  /\ Active(p) /\ proc[p].op \in Ops /\ Unsettled(proc[p].op)
           /\ ops[proc[p].op].token = p /\ (p \in Ops => proc[p].op = p)
           /\ \A q \in Processes \ {p} : Active(q) => proc[q].op # proc[p].op
<1>1. Active(p)
  BY DEF Active, Holds
<1>. QED
  BY <1>1, ActiveHolds, ActiveApart DEF Holds, IInv, ExecutorsPlaced, PlacedAs, Working

\* An operation that is taken is nobody's before.
LEMMA TakesAlone ==
    ASSUME IInv, HoldersWork, NEW o \in Ops, lock = None, ops[o].phase = "none" \/ ~ops[o].live,
           NEW q \in Processes, Active(q)
    PROVE  proc[q].op # o
<1>1. None \notin Processes
  BY FilesAssumption DEF Processes, Ids
<1>2. ops[proc[q].op].live /\ Holder(q)
  BY <1>1, ActiveHolds
<1>. QED
  BY <1>2 DEF Holder, Unsettled, Open, Committed

-----------------------------------------------------------------------------
(* Moves of an executor *)

LEMMA StopsFit ==
    ASSUME IInv, HoldersWork, Book, CallsFit, NEW p \in Processes, Leave(p) \/ Die(p),
           UNCHANGED <<entries, versions, names, objs>>,
           \A o \in Ops : /\ ops'[o].phase = ops[o].phase /\ ops'[o].kind = ops[o].kind
                          /\ ops'[o].file = ops[o].file /\ ops'[o].path = ops[o].path
                          /\ ops'[o].token = ops[o].token
    PROVE  Book' /\ CallsFit'
<1>1. ~Active(p)'
  BY StopEffect DEF Active, Calling, Working
<1>2. \A q \in Processes \ {p} : proc'[q] = proc[q]
  BY StopEffect
<1>. QED
  BY <1>1, <1>2, LeaseBookStep, MoveCallsStep

\* A call returns.
LEMMA ReturnFits ==
    ASSUME IInv, HoldersWork, Book, CallsFit, NEW p \in Processes, NEW at, Go(p, at),
           \/ proc[p].at = "make" /\ at = "made"
           \/ proc[p].at = "drop" /\ at = "dropped"
           \/ proc[p].at = "restore" /\ at = "restored",
           UNCHANGED <<entries, versions, names, objs, ops>>
    PROVE  Book' /\ CallsFit'
<1>. USE Constants
<1>1. Active(p) /\ CallFits(p)
  BY DEF Active, Calling, CallsFit
<1>2. PICK o \in Ops : o = proc[p].op /\ (p \in Ops => p = o)
  BY <1>1, ActiveHolds DEF IInv, ExecutorsPlaced, PlacedAs, Working
<1>3. /\ proc'[p].at = at /\ proc'[p].op = o /\ proc'[p].slot = proc[p].slot
      /\ proc'[p].loc = proc[p].loc
  BY <1>2, GoEffect
<1>4. MakeFits(p) => MakeFits(p)'
  BY <1>2, <1>3 DEF MakeFits, Present, Open
<1>5. RestoreFits(p) => RestoreFits(p)'
  BY <1>2, <1>3 DEF RestoreFits, Open
<1>6. DropFits(p) /\ at = "dropped" => DropFits(p)'
  BY <1>2, <1>3 DEF DropFits, Open, Purging, Touches
<1>7. p \in Ops /\ RequestFits(p) => RequestFits(p)'
  BY <1>2, <1>3 DEF RequestFits, Planned, Present, Open, Purging
<1>8. CallFits(p)'
  BY <1>1, <1>3, <1>4, <1>5, <1>6, <1>7 DEF CallFits
<1>9. \A q \in Processes \ {p} : proc'[q] = proc[q]
  BY GoEffect
<1>. QED
  BY <1>8, <1>9, LeaseBookStep, MoveCallsStep

LEMMA ShapeOf ==
    ASSUME IInv, Book, NEW o \in Ops, Unsettled(o)
    PROVE  /\ ops[o].file \in Ids /\ ops[o].kind \in UserKinds \cup SystemKinds
           /\ ops[o].kind \in UserKinds => ops[o].path \in Paths
           /\ ops[o].kind = "upload" => UploadShaped(o)
           /\ ops[o].kind = "overwrite" => OverwriteShaped(o)
           /\ ops[o].kind \in {"move", "trash", "restore"} => RelocationShaped(o)
           /\ Purging(o) => PurgeShaped(o)
           /\ Purging(o) \/ ops[o].kind \in {"upload", "overwrite", "move", "trash", "restore"}
<1>1. ops[o] \in OpStates
  BY DEF IInv, RowsOK
<1>2. ops[o].kind \in UserKinds \cup SystemKinds
  BY <1>1 DEF OpStates, Book, PlansShaped
<1>3. ops[o].file \in Ids /\ (ops[o].kind \in UserKinds => ops[o].path \in Paths)
  BY DEF IInv, PlansFollow, Unsettled, Open, Committed
<1>. QED
  BY <1>2, <1>3 DEF Book, PlansShaped, Shaped, Purging, UserKinds, SystemKinds

LEMMA IssueMakeFits ==
    ASSUME IInv, HoldersWork, Book, CallsFit, NEW o \in Ops, NEW s \in Slots, IssueMake(o, s)
    PROVE  Book' /\ CallsFit'
<1>. USE Constants
<1>1. /\ proc[o].at = "plan" /\ ~proc[o].lost /\ Open(o) /\ NextTarget(o, s)
      /\ proc' = [proc EXCEPT ![o].at = "make", ![o].slot = s]
      /\ UNCHANGED <<entries, versions, refs, ops, objs, names, usage, disk, lock, faults>>
  BY DEF IssueMake
<1>2. /\ proc'[o].at = "make" /\ proc'[o].op = proc[o].op /\ proc'[o].slot = s
      /\ \A q \in Processes \ {o} : proc'[q] = proc[q]
  BY <1>1, IssueEffect
<1>3. Active(o) /\ proc[o].op = o /\ CallFits(o)
  BY <1>1, ActiveHolds DEF Active, Working, CallsFit, IInv, ExecutorsPlaced, PlacedAs
<1>4. s = "replacement" => \A v \in Ids : Present(o, v) => objs[o][v].srcGone
  <2>1. SUFFICES ASSUME s = "replacement", NEW v \in Ids, Present(o, v) PROVE objs[o][v].srcGone
    OBVIOUS
  <2>2. Present(o, "replacement") /\ \A t \in Slots : objs[o][t].started => objs[o][t].srcGone
    BY <1>1, <2>1 DEF NextTarget
  <2>3. OverwriteShaped(o)
    BY <1>1, <2>2, ShapeOf DEF Unsettled, UploadShaped, RelocationShaped, PurgeShaped
  <2>4. objs[o][v].started
    BY <2>1, <2>2, <2>3 DEF OverwriteShaped, ReplacementShaped
  <2>. QED
    BY <2>2, <2>4
<1>5. MakeFits(o)'
  BY <1>1, <1>2, <1>3, <1>4, ZenonT(30) DEF MakeFits, NextTarget, Present, Open
<1>6. RequestFits(o)'
  BY <1>1, <1>2, <1>3 DEF CallFits, RequestFits, Planned, Present, Open, Purging
<1>7. CallFits(o)'
  BY <1>2, <1>5, <1>6 DEF CallFits
<1>. QED
  BY <1>1, <1>2, <1>7, LeaseBookStep, MoveCallsStep

\* Only the archive of an overwrite has a source whose deletion was begun.
LEMMA StartedShape ==
    ASSUME IInv, Book, NEW o \in Ops, Unsettled(o), NEW s \in Slots, objs[o][s].started
    PROVE  /\ ops[o].kind = "overwrite" /\ s \in Ids /\ Present(o, s)
           /\ entries[ops[o].file].path \in Paths
           /\ Held(o, s) /\ entries[ops[o].file].state = "active"
           /\ objs[o][s].src = InFiles(entries[ops[o].file].path) /\ objs[o][s].dst = InHistory(s)
           /\ (s = entries[ops[o].file].current) <=> Open(o)
           /\ objs[o][s].prepared
<1>. USE Constants
<1>1. Present(o, s)
  BY DEF IInv, PlansFollow, Blank
<1>2. OverwriteShaped(o) /\ ops[o].kind = "overwrite"
  BY <1>1, ShapeOf DEF UploadShaped, RelocationShaped, PurgeShaped
<1>3. s \in Ids
  BY <1>1, <1>2 DEF OverwriteShaped, StagingShaped, ReplacementShaped, Slots
<1>4. ArchiveShaped(o, s)
  BY <1>2, <1>3 DEF OverwriteShaped
<1>5. entries[ops[o].file].path \in Paths
  BY <1>1, <1>4, ShapeOf DEF ArchiveShaped, IInv, EntriesFilled
<1>. QED
  BY <1>1, <1>2, <1>3, <1>4, <1>5 DEF ArchiveShaped

\* No other source goes before an operation is published, but those of a purge.
LEMMA GoneShape ==
    ASSUME IInv, Book, NEW o \in Ops, Open(o), ~Purging(o), NEW s \in Slots, objs[o][s].srcGone
    PROVE  objs[o][s].started
<1>. USE Constants
<1>1. Present(o, s)
  BY DEF IInv, PlansFollow, Blank
<1>2. CASE ops[o].kind = "overwrite"
  <2>1. OverwriteShaped(o)
    BY <1>2, ShapeOf DEF Unsettled
  <2>2. s \in Ids
    BY <1>1, <2>1 DEF OverwriteShaped, StagingShaped, ReplacementShaped, Slots
  <2>. QED
    BY <1>1, <2>1, <2>2 DEF OverwriteShaped, ArchiveShaped
<1>3. CASE ops[o].kind # "overwrite"
  BY <1>1, <1>3, ShapeOf DEF Unsettled, UploadShaped, RelocationShaped
<1>. QED
  BY <1>2, <1>3

LEMMA IssueRestoreFits ==
    ASSUME IInv, HoldersWork, Book, CallsFit, NEW w \in Workers, NEW s \in Slots, IssueRestore(w, s)
    PROVE  Book' /\ CallsFit'
<1>. USE Constants
<1>1. /\ proc[w].at = "plan" /\ ~proc[w].lost /\ Undoing(proc[w].op) /\ s \in ToRestore(proc[w].op)
      /\ JobDrops(proc[w].op) = {}
      /\ proc' = [proc EXCEPT ![w].at = "restore", ![w].slot = s]
      /\ UNCHANGED <<entries, versions, refs, ops, objs, names, usage, disk, lock, faults>>
  BY DEF IssueRestore
<1>2. /\ proc'[w].at = "restore" /\ proc'[w].op = proc[w].op /\ proc'[w].slot = s
      /\ \A q \in Processes \ {w} : proc'[q] = proc[q]
  BY <1>1, IssueEffect
<1>3. PICK o \in Ops : o = proc[w].op
  BY <1>1 DEF IInv, ExecutorsPlaced, PlacedAs
<1>4. Open(o) /\ Unsettled(o) /\ Undoing(o) /\ ~objs[o][s].restored
  BY <1>1, <1>3 DEF Undoing, Unsettled, ToRestore
<1>5. objs[o][s].started
  <2>1. objs[o][s].started \/ objs[o][s].srcGone
    BY <1>1, <1>3 DEF ToRestore
  <2>2. Planned(o)
    BY <2>1 DEF Planned, IInv, PlansFollow, Blank
  <2>3. ~Purging(o)
    BY <1>4, <2>2 DEF Undoing, Purging
  <2>. QED
    BY <1>4, <2>1, <2>3, GoneShape
<1>6. ASSUME NEW t \in Slots, objs[o][t].dst = objs[o][s].src PROVE objs[o][t].dstGone
  <2>1. objs[o][s].src # None
    BY <1>4, <1>5, StartedShape, AddressesApart
  <2>2. SUFFICES ASSUME ~objs[o][t].dstGone PROVE FALSE
    OBVIOUS
  <2>3. t \in PendingTarget(o) /\ s \in ToRestore(o)
    BY <1>1, <1>3, <1>6, <2>1, <2>2 DEF PendingTarget
  <2>4. objs[o][s].src \in Targets(o, PendingTarget(o)) \cap Sources(o, ToRestore(o))
    BY <1>6, <2>3 DEF Targets, Sources
  <2>5. JobDrops(o) = Targets(o, PendingTarget(o)) \cap Sources(o, ToRestore(o))
    BY <1>4, <2>3 DEF JobDrops
  <2>. QED
    BY <1>1, <1>3, <2>4, <2>5
<1>7. RestoreFits(w)'
  BY <1>1, <1>2, <1>3, <1>4, <1>5, <1>6 DEF RestoreFits, Open
<1>8. CallFits(w)'
  BY <1>2, <1>7 DEF CallFits
<1>. QED
  BY <1>1, <1>2, <1>8, LeaseBookStep, MoveCallsStep

LEMMA PlaceOf ==
    ASSUME IInv, Book, NEW v \in Ids, versions[v].state = "live"
    PROVE  /\ versions[v].file \in Ids /\ entries[versions[v].file].path \in Paths
           /\ entries[versions[v].file].current \in Ids
           /\ \/ /\ v # entries[versions[v].file].current /\ versions[v].loc = InHistory(v)
              \/ /\ v = entries[versions[v].file].current /\ entries[versions[v].file].state = "active"
                 /\ versions[v].loc = InFiles(entries[versions[v].file].path)
              \/ /\ v = entries[versions[v].file].current /\ entries[versions[v].file].state = "trashed"
                 /\ versions[v].loc = InTrash(v)
<1>1. versions[v].file \in Ids /\ entries[versions[v].file].path \in Paths
      /\ entries[versions[v].file].current \in Ids
  BY DEF IInv, VersionsFiled, EntriesFilled
<1>2. Placed(v)
  BY DEF Book, VersionsPlaced
<1>. QED
  BY <1>1, <1>2 DEF Placed

\* A version at an address of an operation's plan is one of the file that the
\* operation is busy with.
LEMMA OwnVersion ==
    ASSUME IInv, Book, NEW o \in Ops, Unsettled(o), NEW l \in Locations, Touches(o, l),
           NEW v \in Ids, versions[v].state = "live", versions[v].loc = l
    PROVE  /\ versions[v].file = ops[o].file /\ entries[ops[o].file].busy = o
           /\ ops[o].kind # "upload"
<1>. USE Constants, AddressesApart
<1>1. Owned(o, l)
  BY DEF Book, PlansOwned
<1>2. entries[versions[v].file].busy = o /\ versions[v].file \in Ids
  BY <1>1, PlaceOf DEF Owned
<1>. QED
  BY <1>2 DEF Book, BusyHeld

LEMMA PurgeDropSpares ==
    ASSUME IInv, Book, NEW o \in Ops, Unsettled(o), Purging(o), NEW l \in CleanUp(o)
    PROVE  /\ l \in Locations /\ Touches(o, l) /\ Spared(o, l)
           /\ \A s \in Slots : objs[o][s].dst # l
<1>. USE Constants, AddressesApart, Addresses
<1>1. \A s \in Slots : objs[o][s].dst = None /\ ~objs[o][s].started
  BY ShapeOf DEF PurgeShaped, IInv, PlansFollow, Blank
<1>2. PICK s \in Slots : objs[o][s].src = l /\ l # None
  BY <1>1 DEF CleanUp, Sources, Targets, PendingSource, PendingTarget
<1>3. Present(o, s)
  BY <1>2 DEF IInv, PlansFollow, Blank
<1>4. s \in Ids /\ l = versions[s].loc /\ l \in {InHistory(s), InTrash(s)}
  BY <1>2, <1>3, ShapeOf DEF PurgeShaped
<1>5. ASSUME NEW v \in Ids, versions[v].state = "live", versions[v].loc = l PROVE Exposed(o, v)
  <2>1. v = s
    BY <1>4, <1>5, PlaceOf
  <2>. QED
    BY <1>3, <2>1 DEF Exposed
<1>. QED
  BY <1>1, <1>2, <1>4, <1>5 DEF Touches, Spared

LEMMA CommittedDropSpares ==
    ASSUME IInv, Book, NEW o \in Ops, Committed(o), NEW l \in CleanUp(o)
    PROVE  l \in Locations /\ Touches(o, l) /\ Spared(o, l)
<1>. USE Constants, AddressesApart, Addresses
<1>1. Unsettled(o) /\ ~Open(o) /\ ~Purging(o)
  BY ShapeOf DEF Unsettled, Open, Committed, PurgeShaped
<1>2. PICK s \in Slots : Present(o, s) /\ l # None
            /\ \/ objs[o][s].src = l /\ ~objs[o][s].srcGone
               \/ objs[o][s].dst = l /\ l = InStaging(o)
  BY DEF CleanUp, Sources, Targets, PendingSource, PendingTarget, Staged, IInv, PlansFollow, Blank
<1>3. Touches(o, l)
  BY <1>2 DEF Touches
<1>4. l \in Locations
  <2>1. objs[o][s] \in ObjectStates
    BY DEF IInv, RowsOK
  <2>. QED
    BY <1>2, <2>1 DEF ObjectStates
<1>5. CASE ops[o].kind = "overwrite"
  <2>1. OverwriteShaped(o)
    BY <1>1, <1>5, ShapeOf
  <2>2. l = InStaging(o)
    <3>1. CASE s = "staging"
      BY <1>2, <2>1, <3>1 DEF OverwriteShaped, StagingShaped
    <3>2. CASE s = "replacement"
      BY <1>2, <2>1, <3>2 DEF OverwriteShaped, ReplacementShaped
    <3>3. CASE s \in Ids
      <4>1. objs[o][s].srcGone
        BY <1>2, <2>1, <3>3 DEF OverwriteShaped, ReplacementShaped
      <4>. QED
        BY <1>2, <4>1
    <3>. QED
      BY <3>1, <3>2, <3>3 DEF Slots
  <2>3. \A v \in Ids : versions[v].state = "live" => versions[v].loc # l
    BY <2>2, PlaceOf
  <2>4. ASSUME NEW t \in Slots, objs[o][t].started
        PROVE  l # objs[o][t].src /\ l # objs[o][t].dst
    BY <1>1, <2>2, <2>4, StartedShape
  <2>. QED
    BY <1>3, <1>4, <2>3, <2>4 DEF Spared
<1>6. CASE ops[o].kind \in {"move", "trash", "restore"}
  <2>1. RelocationShaped(o)
    BY <1>1, <1>6, ShapeOf
  <2>2. \A t \in Slots : ~objs[o][t].started
    BY <1>1, <1>6, StartedShape
  <2>3. /\ s \in Ids /\ s = entries[ops[o].file].current
        /\ objs[o][s].src # objs[o][s].dst /\ versions[s].loc = objs[o][s].dst
        /\ \A v \in Ids : objs[o][s].src # InHistory(v)
        /\ objs[o][s].dst \in {InTrash(s), InFiles(ops[o].path)}
    BY <1>1, <1>2, <2>1 DEF RelocationShaped
  <2>4. objs[o][s].src = l
    <3>1. ops[o].path \in Paths
      BY <1>1, <1>6, ShapeOf DEF UserKinds
    <3>. QED
      BY <1>2, <2>3, <3>1
  <2>5. ASSUME NEW v \in Ids, versions[v].state = "live", versions[v].loc = l PROVE FALSE
    <3>1. versions[v].file = ops[o].file
      BY <1>1, <1>3, <1>4, <2>5, OwnVersion
    <3>2. v = s
      <4>1. v = entries[versions[v].file].current \/ versions[v].loc = InHistory(v)
        BY <2>5, PlaceOf
      <4>. QED
        BY <2>3, <2>4, <2>5, <3>1, <4>1
    <3>. QED
      BY <2>3, <2>4, <2>5, <3>2
  <2>. QED
    BY <1>3, <1>4, <2>2, <2>5 DEF Spared
<1>7. CASE ops[o].kind = "upload"
  BY <1>1, <1>2, <1>7, ShapeOf DEF UploadShaped
<1>. QED
  BY <1>1, <1>5, <1>6, <1>7, ShapeOf

\* The old source of an overwrite lies where its file is, and only there.
LEMMA SourceSpares ==
    ASSUME IInv, Book, NEW o \in Ops, Open(o), NEW s \in Slots, objs[o][s].started,
           ~objs[o][s].restored
    PROVE  /\ objs[o][s].src \in Locations /\ Touches(o, objs[o][s].src)
           /\ Spared(o, objs[o][s].src)
<1>. USE Constants, AddressesApart, Addresses
<1>. DEFINE l == objs[o][s].src
            f == ops[o].file
<1>1. Unsettled(o)
  BY DEF Unsettled
<1>2. /\ s \in Ids /\ Present(o, s) /\ f \in Ids /\ entries[f].path \in Paths /\ s = entries[f].current
      /\ entries[f].state = "active" /\ l = InFiles(entries[f].path)
  BY <1>1, StartedShape, ShapeOf
<1>3. ASSUME NEW v \in Ids, versions[v].state = "live", versions[v].loc = l PROVE Exposed(o, v)
  <2>1. Touches(o, l) /\ l \in Locations
    BY <1>2 DEF Touches
  <2>2. versions[v].file = f
    BY <1>1, <1>3, <2>1, OwnVersion
  <2>3. v = s
    <3>1. v = entries[versions[v].file].current \/ versions[v].loc = InHistory(v)
      BY <1>3, PlaceOf
    <3>. QED
      BY <1>2, <1>3, <2>2, <3>1
  <2>. QED
    BY <1>1, <1>2, <2>3 DEF Exposed
<1>4. ASSUME NEW t \in Slots, objs[o][t].started
      PROVE  l # IF objs[o][t].restored THEN objs[o][t].src ELSE objs[o][t].dst
  <2>1. /\ t \in Ids /\ t = entries[f].current /\ objs[o][t].dst = InHistory(t)
    BY <1>1, <1>4, StartedShape
  <2>2. t = s
    BY <1>2, <2>1
  <2>. QED
    BY <1>2, <2>1, <2>2
<1>. QED
  <2>1. l \in Locations /\ Touches(o, l)
    BY <1>2 DEF Touches
  <2>2. Spared(o, l)
    BY <1>3, <1>4 DEF Spared
  <2>. QED
    BY <2>1, <2>2

\* What an undone operation wrote is nobody's version, but for a source that
\* its archive still holds.
LEMMA TargetSpares ==
    ASSUME IInv, Book, NEW o \in Ops, Open(o), ~Purging(o), NEW t \in Slots,
           objs[o][t].dst # None, ~objs[o][t].dstGone,
           \A s \in Slots : objs[o][s].started => objs[o][s].restored
    PROVE  /\ objs[o][t].dst \in Locations /\ Touches(o, objs[o][t].dst)
           /\ Spared(o, objs[o][t].dst)
<1>. USE Constants, AddressesApart, Addresses
<1>. DEFINE l == objs[o][t].dst
            f == ops[o].file
<1>1. Unsettled(o) /\ Present(o, t)
  BY DEF Unsettled, IInv, PlansFollow, Blank
<1>2. l \in Locations /\ Touches(o, l)
  <2>1. objs[o][t] \in ObjectStates
    BY DEF IInv, RowsOK
  <2>. QED
    BY <2>1 DEF ObjectStates, Touches
<1>3. ASSUME NEW s \in Slots, objs[o][s].started
      PROVE  l # IF objs[o][s].restored THEN objs[o][s].src ELSE objs[o][s].dst
  BY <1>1, <1>3 DEF Book, RestoredClear, Clear
<1>4. ASSUME NEW v \in Ids, versions[v].state = "live", versions[v].loc = l PROVE Exposed(o, v)
  <2>1. versions[v].file = f /\ ops[o].kind # "upload"
    BY <1>1, <1>2, <1>4, OwnVersion
  <2>2. (v # entries[f].current /\ l = InHistory(v)) \/ (v = entries[f].current /\ l # InHistory(v))
    BY <1>4, <2>1, PlaceOf
  <2>3. CASE ops[o].kind = "overwrite"
    <3>1. OverwriteShaped(o)
      BY <1>1, <2>3, ShapeOf
    <3>2. CASE t = "staging"
      BY <1>1, <1>4, <3>1, <3>2, PlaceOf DEF OverwriteShaped, StagingShaped
    <3>3. CASE t \in Ids
      <4>1. l = InHistory(t) /\ t = entries[f].current
        BY <1>1, <3>1, <3>3 DEF OverwriteShaped, ArchiveShaped
      <4>. QED
        BY <2>2, <3>3, <4>1
    <3>4. CASE t = "replacement"
      <4>1. PICK u \in Ids : Present(o, u)
        BY <1>1, <3>1 DEF OverwriteShaped, Planned
      <4>2. u = entries[f].current /\ objs[o][u].started /\ entries[f].path \in Paths
            /\ l = InFiles(entries[f].path)
        <5>1. u = entries[f].current /\ objs[o][u].started /\ l = InFiles(entries[f].path)
          BY <1>1, <3>1, <3>4, <4>1 DEF OverwriteShaped, ArchiveShaped, ReplacementShaped
        <5>. QED
          BY <1>1, <5>1, StartedShape
      <4>3. v = u
        BY <2>2, <4>2
      <4>. QED
        BY <1>1, <4>1, <4>2, <4>3 DEF Exposed
    <3>. QED
      BY <3>2, <3>3, <3>4 DEF Slots
  <2>4. CASE ops[o].kind \in {"move", "trash", "restore"}
    <3>1. /\ t \in Ids /\ t = entries[f].current /\ versions[t].loc # l
          /\ l \in {InTrash(t), InFiles(ops[o].path)} /\ ops[o].path \in Paths
      BY <1>1, <2>4, ShapeOf DEF RelocationShaped, UserKinds
    <3>. QED
      BY <1>4, <2>2, <3>1
  <2>. QED
    BY <1>1, <2>1, <2>3, <2>4, ShapeOf
<1>5. Spared(o, l)
  BY <1>3, <1>4 DEF Spared
<1>. QED
  BY <1>2, <1>5

LEMMA IssueDropFits ==
    ASSUME IInv, HoldersWork, Book, CallsFit, NEW p \in Processes, NEW l \in Locations, IssueDrop(p, l)
    PROVE  Book' /\ CallsFit'
<1>. USE Constants
<1>1. /\ proc[p].at = "plan" /\ ~proc[p].lost /\ Unsettled(proc[p].op) /\ l \in Drops(p)
      /\ proc' = [proc EXCEPT ![p].at = "drop", ![p].loc = l]
      /\ UNCHANGED <<entries, versions, refs, ops, objs, names, usage, disk, lock, faults>>
  BY DEF IssueDrop
<1>2. /\ proc'[p].at = "drop" /\ proc'[p].op = proc[p].op /\ proc'[p].loc = l
      /\ \A q \in Processes \ {p} : proc'[q] = proc[q]
  BY <1>1, IssueEffect
<1>3. Active(p) /\ CallFits(p)
  BY <1>1 DEF Active, Working, CallsFit
<1>4. PICK o \in Ops : o = proc[p].op /\ (p \in Ops => p = o) /\ (p \in Ops => ops[o].token = o)
  BY <1>3, ActiveHolds DEF Holder, IInv, ExecutorsPlaced, PlacedAs, Working
<1>. DEFINE Safe == /\ Touches(o, l) /\ Spared(o, l)
                    /\ p \in Ops /\ Open(o) =>
                          /\ Purging(o) \/ \E s \in Slots : objs[o][s].started /\ objs[o][s].src = l
                          /\ \A s \in Slots : objs[o][s].prepared => objs[o][s].dst # l
<1>5. Unsettled(o)
  BY <1>1, <1>4
<1>6. ASSUME l \in CleanUp(o), Committed(o) \/ Purging(o) PROVE Safe
  <2>1. CASE Purging(o)
    BY <1>5, <1>6, <2>1, PurgeDropSpares
  <2>2. CASE Committed(o)
    BY <1>6, <2>2, CommittedDropSpares DEF Committed, Open
  <2>. QED
    BY <1>6, <2>1, <2>2
<1>7. ASSUME p \in Ops, ~(Committed(o) \/ Purging(o)) PROVE Safe
  <2>1. Open(o) /\ l \in Sources(o, {s \in PendingSource(o) : objs[o][s].started})
    BY <1>1, <1>4, <1>5, <1>7 DEF Drops, RequestDrops, Unsettled
  <2>2. PICK s \in Slots : objs[o][s].src = l /\ ~objs[o][s].srcGone /\ objs[o][s].started
    BY <2>1 DEF Sources, PendingSource
  <2>3. ~objs[o][s].restored
    BY <1>4, <1>7, <2>1 DEF Book, RequestFirst
  <2>4. Touches(o, l) /\ Spared(o, l)
    BY <2>1, <2>2, <2>3, SourceSpares
  <2>5. ASSUME NEW t \in Slots, objs[o][t].prepared, objs[o][t].dst = l PROVE FALSE
    <3>1. /\ s \in Ids /\ Present(o, s) /\ ops[o].kind = "overwrite"
          /\ entries[ops[o].file].path \in Paths /\ l = InFiles(entries[ops[o].file].path)
      BY <1>5, <2>2, StartedShape
    <3>2. OverwriteShaped(o) /\ Present(o, t)
      BY <1>5, <2>5, <3>1, ShapeOf DEF IInv, PlansFollow, Blank
    <3>3. t # "staging"
      BY <2>5, <3>1, <3>2, AddressesApart DEF OverwriteShaped, StagingShaped
    <3>4. t \notin Ids
      BY <2>5, <3>1, <3>2, AddressesApart DEF OverwriteShaped, ArchiveShaped
    <3>5. t = "replacement"
      BY <3>3, <3>4 DEF Slots
    <3>. QED
      BY <2>2, <2>5, <3>1, <3>2, <3>5 DEF OverwriteShaped, ReplacementShaped
  <2>. QED
    BY <2>2, <2>4, <2>5
<1>8. ASSUME p \in Workers, Undoing(o) PROVE Safe
  <2>1. Open(o) /\ l \in JobDrops(o) /\ p \notin Ops
    BY <1>1, <1>4, <1>8 DEF Drops, Undoing
  <2>2. PICK t \in Slots : objs[o][t].dst = l /\ l # None /\ ~objs[o][t].dstGone
    BY <1>8, <2>1 DEF JobDrops, Targets, PendingTarget
  <2>3. ~Purging(o)
    <3>1. Planned(o)
      BY <2>2 DEF Planned, IInv, PlansFollow, Blank
    <3>. QED
      BY <1>8, <3>1 DEF Undoing, Purging
  <2>4. CASE ToRestore(o) # {}
    <3>1. PICK s \in ToRestore(o) : objs[o][s].src = l
      BY <1>8, <2>1, <2>4 DEF JobDrops, Sources
    <3>2. s \in Slots /\ objs[o][s].started /\ ~objs[o][s].restored
      BY <2>1, <2>3, <3>1, GoneShape DEF ToRestore
    <3>. QED
      BY <2>1, <3>1, <3>2, SourceSpares
  <2>5. CASE ToRestore(o) = {}
    <3>1. \A s \in Slots : objs[o][s].started => objs[o][s].restored
      BY <2>5 DEF ToRestore
    <3>. QED
      BY <2>1, <2>2, <2>3, <3>1, TargetSpares
  <2>. QED
    BY <2>4, <2>5
<1>9. Safe
  <2>1. p \in Ops \/ p \in Workers
    BY DEF Processes
  <2>2. p \in Ops /\ (Committed(o) \/ Purging(o)) => l \in CleanUp(o)
    BY <1>1, <1>4 DEF Drops, RequestDrops
  <2>3. p \in Workers /\ ~Undoing(o) => l \in CleanUp(o) /\ (Committed(o) \/ Purging(o))
    <3>1. ASSUME p \in Workers, ~Undoing(o) PROVE Committed(o) \/ Purging(o)
      BY <1>5, <3>1 DEF Undoing, Unsettled, Purging
    <3>2. ASSUME p \in Workers, ~Undoing(o) PROVE l \in CleanUp(o)
      <4>1. p \notin Ops
        BY <3>2
      <4>2. l \in JobDrops(o)
        BY <1>1, <1>4, <4>1 DEF Drops
      <4>. QED
        BY <3>2, <4>2 DEF JobDrops
    <3>. QED
      BY <3>1, <3>2
  <2>. QED
    BY <1>6, <1>7, <1>8, <2>1, <2>2, <2>3
<1>. HIDE DEF Safe
<1>10. DropFits(p)'
  <2>1. Touches(o, l)' /\ Spared(o, l)'
    BY <1>1, <1>9 DEF Safe, Touches, Spared, Exposed, Unsettled, Open, Committed, Purging, Present
  <2>. QED
    BY <1>1, <1>2, <1>4, <1>9, <2>1 DEF DropFits, Safe, Open, Purging
<1>11. p \in Ops => RequestFits(p)'
  BY <1>1, <1>2, <1>3 DEF CallFits, RequestFits, Planned, Present, Open, Purging
<1>12. CallFits(p)'
  BY <1>2, <1>10, <1>11 DEF CallFits
<1>. QED
  BY <1>1, <1>2, <1>12, LeaseBookStep, MoveCallsStep

=============================================================================
