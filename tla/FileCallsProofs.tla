---------------------------- MODULE FileCallsProofs ----------------------------
(***************************************************************************)
(* Every step of FileWrites keeps the plans of the operations to addresses *)
(* of their own and the executors to what those plans allow, so that two   *)
(* executors are never inside storage calls that meet at an address, and   *)
(* each operation shows in the library of files as one step or as none.    *)
(***************************************************************************)
EXTENDS FileWritesProofs

-----------------------------------------------------------------------------
(* Steps that leave the plans alone *)

\* Nobody moves: the lock or a lease goes, a reference is made or dropped.
LEMMA StandingFits ==
    ASSUME IInv, HoldersWork, Book, CallsFit,
           UNCHANGED <<entries, versions, names, objs>>,
           \A o \in Ops : /\ ops'[o].phase = ops[o].phase /\ ops'[o].kind = ops[o].kind
                          /\ ops'[o].file = ops[o].file /\ ops'[o].path = ops[o].path
                          /\ ops'[o].token = ops[o].token,
           \A p \in Processes :
              /\ proc'[p].at = proc[p].at /\ proc'[p].op = proc[p].op
              /\ proc'[p].slot = proc[p].slot /\ proc'[p].loc = proc[p].loc
              /\ proc[p].lost => proc'[p].lost
    PROVE  Book' /\ CallsFit'
<1>1. Book'
  BY LeaseBookStep
<1>2. ASSUME NEW p \in Processes, Active(p)' PROVE CallFits(p)'
  <2>1. Active(p)
    BY <1>2 DEF Active, Calling, Working
  <2>2. CallFits(p) /\ proc[p].op \in Ops /\ (p \in Ops => proc[p].op = p)
    BY <2>1, ActiveHolds DEF CallsFit, IInv, ExecutorsPlaced, PlacedAs, Working
  <2>. QED
    BY <2>2, SameFits
<1>. QED
  BY <1>1, <1>2 DEF CallsFit

LEMMA TimeFits ==
    ASSUME IInv, HoldersWork, Book, CallsFit,
           \/ UNCHANGED vars
           \/ \E o \in Ops : Stall(o) \/ Lapse(o) \/ Deadline(o)
           \/ \E p \in Processes : LoseLock(p)
           \/ \E v \in Ids : Refer(v) \/ Unrefer(v)
    PROVE  Book' /\ CallsFit'
<1>1. ops \in [Ops -> OpStates] /\ proc \in [Processes -> ProcStates]
  BY DEF IInv, RowsOK
<1>2. CASE UNCHANGED vars
  BY <1>2, StandingFits DEF vars
<1>3. ASSUME NEW o \in Ops, Stall(o) \/ Lapse(o) \/ Deadline(o) PROVE Book' /\ CallsFit'
  <2>1. /\ UNCHANGED <<entries, versions, names, objs>>
        /\ \/ ops' = [ops EXCEPT ![o].live = FALSE]
           \/ ops' = [ops EXCEPT ![o].due = TRUE]
        /\ proc' = proc \/ proc' = [proc EXCEPT ![ops[o].token].lost = TRUE]
    BY <1>3 DEF Stall, Lapse, Deadline
  <2>2. \A q \in Ops : /\ ops'[q].phase = ops[q].phase /\ ops'[q].kind = ops[q].kind
                       /\ ops'[q].file = ops[q].file /\ ops'[q].path = ops[q].path
                       /\ ops'[q].token = ops[q].token
    BY <1>1, <2>1 DEF OpStates
  <2>3. \A p \in Processes :
           /\ proc'[p].at = proc[p].at /\ proc'[p].op = proc[p].op
           /\ proc'[p].slot = proc[p].slot /\ proc'[p].loc = proc[p].loc
           /\ proc[p].lost => proc'[p].lost
    BY <1>1, <2>1 DEF ProcStates
  <2>. QED
    BY <2>1, <2>2, <2>3, StandingFits
<1>4. ASSUME NEW p \in Processes, LoseLock(p) PROVE Book' /\ CallsFit'
  BY <1>4, StandingFits DEF LoseLock
<1>5. ASSUME NEW v \in Ids, Refer(v) \/ Unrefer(v) PROVE Book' /\ CallsFit'
  BY <1>5, StandingFits DEF Refer, Unrefer
<1>. QED
  BY <1>2, <1>3, <1>4, <1>5

LEMMA StoppingFits ==
    ASSUME IInv, HoldersWork, Book, CallsFit, NEW p \in Processes,
           \/ p \in Ops /\ (Refuse(p) \/ MakeFails(p))
           \/ p \in Workers /\ RestoreFails(p)
           \/ GiveUp(p) \/ Break(p) \/ Handoff(p) \/ Crash(p) \/ DropFails(p)
    PROVE  Book' /\ CallsFit'
<1>1. Leave(p) \/ Die(p)
  BY DEF Refuse, MakeFails, RestoreFails, GiveUp, Break, Handoff, Crash, DropFails
<1>2. UNCHANGED <<entries, versions, names, objs>>
  BY DEF Refuse, MakeFails, RestoreFails, GiveUp, Break, Handoff, Crash, DropFails
<1>3. \A o \in Ops : /\ ops'[o].phase = ops[o].phase /\ ops'[o].kind = ops[o].kind
                     /\ ops'[o].file = ops[o].file /\ ops'[o].path = ops[o].path
                     /\ ops'[o].token = ops[o].token
  <2>1. CASE UNCHANGED ops
    BY <2>1
  <2>2. CASE Handoff(p) /\ ~UNCHANGED ops
    <3>1. ops \in [Ops -> OpStates]
      BY DEF IInv, RowsOK
    <3>2. ops' = [ops EXCEPT ![proc[p].op].error = TRUE, ![proc[p].op].live = FALSE]
      BY <2>2 DEF Handoff
    <3>. QED
      BY <3>1, <3>2 DEF OpStates
  <2>. QED
    BY <2>1, <2>2 DEF Refuse, MakeFails, RestoreFails, GiveUp, Break, Crash, DropFails
<1>. QED
  BY <1>1, <1>2, <1>3, StopsFit

LEMMA ReturningFits ==
    ASSUME IInv, HoldersWork, Book, CallsFit, NEW p \in Processes,
           (p \in Ops /\ Make(p)) \/ (p \in Workers /\ Restore(p)) \/ Drop(p)
    PROVE  Book' /\ CallsFit'
<1>1. UNCHANGED <<entries, versions, names, objs, ops>>
  BY DEF Make, Restore, Drop
<1>2. CASE Leave(p)
  BY <1>1, <1>2, StopsFit
<1>3. ASSUME NEW at, Go(p, at), \/ proc[p].at = "make" /\ at = "made"
                                \/ proc[p].at = "drop" /\ at = "dropped"
                                \/ proc[p].at = "restore" /\ at = "restored"
      PROVE  Book' /\ CallsFit'
  BY <1>1, <1>3, ReturnFits
<1>. QED
  BY <1>2, <1>3 DEF Make, Restore, Drop

LEMMA ClaimFits ==
    ASSUME IInv, HoldersWork, Book, CallsFit, NEW w \in Workers, NEW o \in Ops, Claim(w, o)
    PROVE  Book' /\ CallsFit'
<1>. USE Constants
<1>1. /\ UNCHANGED <<entries, versions, names, objs>> /\ Started(w, o)
      /\ ops' = [ops EXCEPT ![o].token = w, ![o].live = TRUE]
  BY DEF Claim
<1>2. /\ proc'[w].at = "plan" /\ \A q \in Processes \ {w} : proc'[q] = proc[q]
  BY <1>1 DEF Started, Idle, IInv, RowsOK
<1>3. \A q \in Ops : /\ ops'[q].phase = ops[q].phase /\ ops'[q].kind = ops[q].kind
                     /\ ops'[q].file = ops[q].file /\ ops'[q].path = ops[q].path
                     /\ ops'[q].token = q => ops[q].token = q
  <2>1. ops \in [Ops -> OpStates]
    BY DEF IInv, RowsOK
  <2>. QED
    BY <1>1, <2>1 DEF OpStates
<1>4. CallFits(w)'
  BY <1>2 DEF CallFits
<1>5. Book'
  BY <1>1, <1>3, LeaseBookStep
<1>6. CallsFit'
  BY <1>1, <1>2, <1>3, <1>4, MoveCallsStep
<1>. QED
  BY <1>5, <1>6

-----------------------------------------------------------------------------
(* Steps that record what a call did *)

\* Only flags of the plan change: what is recorded as made, deleted or
\* restored was allowed to be.
LEMMA FlagsBookStep ==
    ASSUME IInv, Book, NEW o \in Ops, Unsettled(o), UNCHANGED <<entries, versions, names, ops>>,
           \A q \in Ops \ {o} : objs'[q] = objs[q],
           \A s \in Slots :
              /\ objs'[o][s].ver = objs[o][s].ver /\ objs'[o][s].src = objs[o][s].src
              /\ objs'[o][s].dst = objs[o][s].dst /\ objs'[o][s].started = objs[o][s].started
              /\ objs[o][s].prepared => objs'[o][s].prepared
              /\ objs[o][s].srcGone => objs'[o][s].srcGone
              /\ objs[o][s].dstGone => objs'[o][s].dstGone
              /\ objs'[o][s].srcGone => objs[o][s].srcGone \/
                    (objs[o][s].src # None /\ (objs[o][s].started \/ Committed(o) \/ Purging(o)))
              /\ objs'[o][s].restored /\ objs[o][s].started => objs[o][s].restored \/
                    (Open(o) /\ \A t \in Slots : objs[o][t].dst = objs[o][s].src => objs[o][t].dstGone)
              /\ objs'[o][s].restored => objs[o][s].restored \/ ops[o].token # o,
           objs'[o]["replacement"].prepared /\ ~objs[o]["replacement"].prepared =>
              \A v \in Ids : Present(o, v) => objs[o][v].srcGone
    PROVE  Book' /\ Leaves(o)
<1>. USE Constants
<1>1. /\ Unsettled(o)' /\ Open(o)' = Open(o) /\ Committed(o)' = Committed(o)
      /\ Purging(o)' = Purging(o) /\ Planned(o)' = Planned(o)
      /\ \A s \in Slots : Present(o, s)' = Present(o, s)
  BY DEF Unsettled, Open, Committed, Purging, Planned, Present
<1>2. OwnBook(o)
  BY OwnBookHolds
<1>3. Shaped(o)'
  <2>1. ops[o].kind = "upload" => UploadShaped(o)'
    <3>. SUFFICES ASSUME ops[o].kind = "upload", NEW s \in Slots, Present(o, s)
                  PROVE  /\ s = o /\ Open(o) /\ objs'[o][s].ver = o
                         /\ objs'[o][s].src = None /\ objs'[o][s].dst = InFiles(ops[o].path)
                         /\ ~objs'[o][s].started /\ ~objs'[o][s].srcGone
      BY <1>1 DEF UploadShaped
    <3>. QED
      BY ShapeOf DEF UploadShaped, Open, Committed, Purging, SystemKinds
  <2>2. ASSUME ops[o].kind = "overwrite" PROVE OverwriteShaped(o)'
    <3>1. OverwriteShaped(o)
      BY <2>2, ShapeOf
    <3>2. StagingShaped(o)'
      <4>1. ~Purging(o) /\ (Open(o) => ~Committed(o))
        BY <2>2 DEF Purging, SystemKinds, Open, Committed
      <4>. QED
        BY <1>1, <3>1, <4>1 DEF OverwriteShaped, StagingShaped
    <3>3. ReplacementShaped(o)'
      BY <1>1, <2>2, <3>1 DEF OverwriteShaped, ReplacementShaped, Purging, SystemKinds, Open, Committed
    <3>4. ASSUME NEW v \in Ids PROVE ArchiveShaped(o, v)'
      <4>1. Committed(o) /\ Present(o, v) => objs[o][v].started
        BY <3>1 DEF OverwriteShaped, ReplacementShaped
      <4>. QED
        BY <1>1, <2>2, <3>1, <4>1 DEF OverwriteShaped, ArchiveShaped, Held, Purging, SystemKinds
    <3>. QED
      BY <1>1, <3>1, <3>2, <3>3, <3>4 DEF OverwriteShaped
  <2>3. ASSUME ops[o].kind \in {"move", "trash", "restore"} PROVE RelocationShaped(o)'
    <3>1. RelocationShaped(o)
      BY <2>3, ShapeOf
    <3>. QED
      BY <1>1, <2>3, <3>1 DEF RelocationShaped, Held, Purging, SystemKinds, Open, Committed
  <2>4. Purging(o) => PurgeShaped(o)'
    BY <1>1, ShapeOf DEF PurgeShaped, Held, VersionsOf
  <2>. QED
    BY <1>1, <2>1, <2>2, <2>3, <2>4 DEF Shaped
<1>4. Clear(o)'
  BY <1>1, <1>2 DEF OwnBook, Clear
<1>5. \A l \in Locations : Touches(o, l)' => Owned(o, l)'
  <2>1. \A l \in Locations : Touches(o, l) => Owned(o, l)
    BY <1>2 DEF OwnBook
  <2>2. \A l \in Locations : Touches(o, l)' = Touches(o, l)
    BY DEF Touches
  <2>3. \A l \in Locations : Owned(o, l) => Owned(o, l)'
    BY DEF Owned
  <2>. QED
    BY <2>1, <2>2, <2>3
<1>6. ops[o].phase # "none" /\ \A s \in Slots : Open(o) /\ ops[o].token = o => ~objs'[o][s].restored
  BY <1>2 DEF OwnBook, Unsettled, Open, Committed
<1>7. OwnBook(o)'
  BY <1>1, <1>2, <1>3, <1>4, <1>5, <1>6 DEF OwnBook
<1>. QED
  BY <1>7, PlanBookStep

LEMMA ObjectEdit ==
    ASSUME IInv, NEW o \in Ops, NEW s \in Slots, NEW y,
           objs' = [objs EXCEPT ![o] = [objs[o] EXCEPT ![s] = y]]
    PROVE  /\ \A q \in Ops \ {o} : objs'[q] = objs[q]
           /\ objs'[o][s] = y
           /\ \A t \in Slots \ {s} : objs'[o][t] = objs[o][t]
<1>. QED
  BY DEF IInv, RowsOK

\* A transaction of the executor whose operation it is.
LEMMA RecordCallsStep ==
    ASSUME IInv, HoldersWork, Book, CallsFit, NEW p \in Processes, Working(p), Holds(p),
           NEW o \in Ops, o = proc[p].op, Leaves(o), Book',
           \A q \in Processes \ {p} : proc'[q] = proc[q], Active(p)' => CallFits(p)'
    PROVE  Book' /\ CallsFit'
<1>. QED
  BY HoldsAlone, OwnCallsStep

LEMMA RecordMadeFits ==
    ASSUME IInv, HoldersWork, Book, CallsFit, NEW o \in Ops, RecordMade(o)
    PROVE  Book' /\ CallsFit'
<1>. USE Constants
<1>. DEFINE s == proc[o].slot
<1>1. /\ proc[o].at = "made" /\ Holds(o) /\ Open(o) /\ Working(o) /\ UNCHANGED <<entries, versions, names, ops>>
      /\ objs' = [objs EXCEPT ![o][s].prepared = TRUE, ![o][s].temp = Transient(o, s)]
      /\ proc' = [proc EXCEPT ![o].at = "plan", ![o].slot = None]
  BY DEF RecordMade, Working
<1>2. proc[o].op = o /\ Unsettled(o) /\ CallFits(o)
  BY <1>1, HoldsAlone DEF CallsFit
<1>3. s \in Slots /\ MakeFits(o)
  BY <1>1, <1>2 DEF CallFits, IInv, ExecutorsPlaced, PlacedAs
<1>4. /\ \A q \in Ops \ {o} : objs'[q] = objs[q]
      /\ objs'[o][s] = [objs[o][s] EXCEPT !.prepared = TRUE, !.temp = Transient(o, s)]
      /\ \A t \in Slots \ {s} : objs'[o][t] = objs[o][t]
  <2>1. objs[o] \in [Slots -> ObjectStates]
    BY DEF IInv, RowsOK
  <2>2. objs' = [objs EXCEPT ![o] = [objs[o] EXCEPT ![s] =
                    [objs[o][s] EXCEPT !.prepared = TRUE, !.temp = Transient(o, s)]]]
    BY <1>1, <1>3, <2>1 DEF ObjectStates, IInv, RowsOK
  <2>. QED
    BY <1>3, <2>2, ObjectEdit
<1>. HIDE DEF s
<1>5. /\ \A q \in Ops \ {o} : objs'[q] = objs[q]
      /\ \A t \in Slots :
            /\ objs'[o][t].ver = objs[o][t].ver /\ objs'[o][t].src = objs[o][t].src
            /\ objs'[o][t].dst = objs[o][t].dst /\ objs'[o][t].started = objs[o][t].started
            /\ objs'[o][t].srcGone = objs[o][t].srcGone /\ objs'[o][t].dstGone = objs[o][t].dstGone
            /\ objs'[o][t].restored = objs[o][t].restored
            /\ objs'[o][t].prepared <=> objs[o][t].prepared \/ t = s
  <2>1. objs[o] \in [Slots -> ObjectStates]
    BY DEF IInv, RowsOK
  <2>2. \A t \in Slots \ {s} : objs'[o][t] = objs[o][t]
    BY <1>4
  <2>3. objs[o][s] \in ObjectStates
    BY <1>3, <2>1
  <2>4. /\ objs'[o][s].ver = objs[o][s].ver /\ objs'[o][s].src = objs[o][s].src
        /\ objs'[o][s].dst = objs[o][s].dst /\ objs'[o][s].started = objs[o][s].started
        /\ objs'[o][s].srcGone = objs[o][s].srcGone /\ objs'[o][s].dstGone = objs[o][s].dstGone
        /\ objs'[o][s].restored = objs[o][s].restored /\ objs'[o][s].prepared
    BY <1>4, <2>3 DEF ObjectStates
  <2>. QED
    BY <1>4, <2>2, <2>4
<1>6. objs'[o]["replacement"].prepared /\ ~objs[o]["replacement"].prepared =>
              \A v \in Ids : Present(o, v) => objs[o][v].srcGone
  BY <1>2, <1>3, <1>5 DEF MakeFits, s
<1>7. Book' /\ Leaves(o)
  <2>1. \A t \in Slots :
              /\ objs'[o][t].ver = objs[o][t].ver /\ objs'[o][t].src = objs[o][t].src
              /\ objs'[o][t].dst = objs[o][t].dst /\ objs'[o][t].started = objs[o][t].started
              /\ objs[o][t].prepared => objs'[o][t].prepared
              /\ objs[o][t].srcGone => objs'[o][t].srcGone
              /\ objs[o][t].dstGone => objs'[o][t].dstGone
              /\ objs'[o][t].srcGone => objs[o][t].srcGone
              /\ objs'[o][t].restored => objs[o][t].restored
    BY <1>5
  <2>. QED
    BY <1>1, <1>2, <1>5, <1>6, <2>1, FlagsBookStep
<1>8. /\ proc'[o].at = "plan" /\ proc'[o].op = o /\ \A q \in Processes \ {o} : proc'[q] = proc[q]
  BY <1>1, <1>2, IssueEffect
<1>9. Planned(o)'
  BY <1>2, <1>3, <1>5 DEF MakeFits, Planned, Present, s
<1>10. CallFits(o)'
  BY <1>8, <1>9 DEF CallFits, RequestFits
<1>. QED
  BY <1>1, <1>2, <1>7, <1>8, <1>10, RecordCallsStep

LEMMA RecordRestoredFits ==
    ASSUME IInv, HoldersWork, Book, CallsFit, NEW w \in Workers, RecordRestored(w)
    PROVE  Book' /\ CallsFit'
<1>. USE Constants
<1>1. PICK o \in Ops : o = proc[w].op
  BY DEF RecordRestored, IInv, ExecutorsPlaced, PlacedAs
<1>. DEFINE s == proc[w].slot
            temp == IF objs[o][s].dstGone THEN 0 ELSE Bytes[objs[o][s].ver]
<1>2. /\ proc[w].at = "restored" /\ Holds(w) /\ Open(o) /\ Working(w) /\ UNCHANGED <<entries, versions, names, ops>>
      /\ objs' = [objs EXCEPT ![o][s].restored = TRUE, ![o][s].temp = temp]
      /\ proc' = [proc EXCEPT ![w].at = "plan", ![w].slot = None]
  BY <1>1 DEF RecordRestored, Working
<1>3. Unsettled(o) /\ CallFits(w) /\ ops[o].token = w
  BY <1>1, <1>2, HoldsAlone DEF CallsFit
<1>4. s \in Slots /\ RestoreFits(w)
  BY <1>2, <1>3 DEF CallFits, IInv, ExecutorsPlaced, PlacedAs
<1>. HIDE DEF s, temp
<1>5. /\ \A q \in Ops \ {o} : objs'[q] = objs[q]
      /\ objs'[o][s] = [objs[o][s] EXCEPT !.restored = TRUE, !.temp = temp]
      /\ \A t \in Slots \ {s} : objs'[o][t] = objs[o][t]
  <2>1. objs[o] \in [Slots -> ObjectStates]
    BY DEF IInv, RowsOK
  <2>2. objs' = [objs EXCEPT ![o] = [objs[o] EXCEPT ![s] =
                    [objs[o][s] EXCEPT !.restored = TRUE, !.temp = temp]]]
    BY <1>2, <1>4, <2>1 DEF IInv, RowsOK
  <2>. QED
    BY <1>4, <2>2, ObjectEdit
<1>6. /\ \A q \in Ops \ {o} : objs'[q] = objs[q]
      /\ \A t \in Slots :
            /\ objs'[o][t].ver = objs[o][t].ver /\ objs'[o][t].src = objs[o][t].src
            /\ objs'[o][t].dst = objs[o][t].dst /\ objs'[o][t].started = objs[o][t].started
            /\ objs'[o][t].srcGone = objs[o][t].srcGone /\ objs'[o][t].dstGone = objs[o][t].dstGone
            /\ objs'[o][t].prepared = objs[o][t].prepared
            /\ objs'[o][t].restored <=> objs[o][t].restored \/ t = s
  <2>1. objs[o] \in [Slots -> ObjectStates]
    BY DEF IInv, RowsOK
  <2>2. \A t \in Slots \ {s} : objs'[o][t] = objs[o][t]
    BY <1>5
  <2>3. objs[o][s] \in ObjectStates
    BY <1>4, <2>1
  <2>4. /\ objs'[o][s].ver = objs[o][s].ver /\ objs'[o][s].src = objs[o][s].src
        /\ objs'[o][s].dst = objs[o][s].dst /\ objs'[o][s].started = objs[o][s].started
        /\ objs'[o][s].srcGone = objs[o][s].srcGone /\ objs'[o][s].dstGone = objs[o][s].dstGone
        /\ objs'[o][s].prepared = objs[o][s].prepared /\ objs'[o][s].restored
    BY <1>5, <2>3 DEF ObjectStates
  <2>. QED
    BY <1>5, <2>2, <2>4
<1>7. Open(o) /\ \A t \in Slots : objs[o][t].dst = objs[o][s].src => objs[o][t].dstGone
  BY <1>1, <1>4 DEF RestoreFits, s
<1>8. w # o
  OBVIOUS
<1>9. Book' /\ Leaves(o)
  <2>1. \A t \in Slots :
              /\ objs'[o][t].ver = objs[o][t].ver /\ objs'[o][t].src = objs[o][t].src
              /\ objs'[o][t].dst = objs[o][t].dst /\ objs'[o][t].started = objs[o][t].started
              /\ objs[o][t].prepared => objs'[o][t].prepared
              /\ objs[o][t].srcGone => objs'[o][t].srcGone
              /\ objs[o][t].dstGone => objs'[o][t].dstGone
              /\ objs'[o][t].srcGone => objs[o][t].srcGone
              /\ objs'[o][t].restored => objs[o][t].restored \/
                    (Open(o) /\ \A u \in Slots : objs[o][u].dst = objs[o][t].src => objs[o][u].dstGone)
    BY <1>6, <1>7
  <2>2. objs'[o]["replacement"].prepared => objs[o]["replacement"].prepared
    BY <1>6
  <2>. QED
    BY <1>2, <1>3, <1>6, <1>8, <2>1, <2>2, FlagsBookStep
<1>10. proc'[w].at = "plan" /\ \A q \in Processes \ {w} : proc'[q] = proc[q]
  BY <1>2, IssueEffect
<1>11. CallFits(w)'
  BY <1>10 DEF CallFits
<1>. QED
  BY <1>1, <1>2, <1>9, <1>10, <1>11, RecordCallsStep

LEMMA RecordDropFits ==
    ASSUME IInv, HoldersWork, Book, CallsFit, NEW p \in Processes, RecordDrop(p)
    PROVE  Book' /\ CallsFit'
<1>. USE Constants
<1>1. PICK o \in Ops : o = proc[p].op /\ (p \in Ops => p = o)
  BY DEF RecordDrop, IInv, ExecutorsPlaced, PlacedAs
<1>. DEFINE l == proc[p].loc
<1>2. PICK D \in SUBSET Confirmed(p) :
        /\ objs' = [objs EXCEPT ![o] = [s \in Slots |-> Deleted(objs[o][s], s, D)]]
        /\ proc' = IF D = Confirmed(p)
                     THEN [proc EXCEPT ![p].at = "plan", ![p].loc = None] ELSE proc
  BY <1>1 DEF RecordDrop, RecordDeleted
<1>3. proc[p].at = "dropped" /\ Holds(p) /\ Working(p) /\ UNCHANGED <<entries, versions, names, ops>>
  BY DEF RecordDrop, Working
<1>4. Unsettled(o) /\ CallFits(p) /\ DropFits(p)
  BY <1>1, <1>3, HoldsAlone DEF CallsFit, CallFits
<1>5. objs[o] \in [Slots -> ObjectStates]
  BY DEF IInv, RowsOK
<1>6. /\ \A q \in Ops \ {o} : objs'[q] = objs[q]
      /\ \A t \in Slots :
            /\ objs'[o][t].ver = objs[o][t].ver /\ objs'[o][t].src = objs[o][t].src
            /\ objs'[o][t].dst = objs[o][t].dst /\ objs'[o][t].started = objs[o][t].started
            /\ objs'[o][t].srcGone <=> objs[o][t].srcGone \/ <<t, "source">> \in D
            /\ objs'[o][t].dstGone <=> objs[o][t].dstGone \/ <<t, "target">> \in D
            /\ objs'[o][t].prepared = objs[o][t].prepared
            /\ objs'[o][t].restored = objs[o][t].restored
  <2>1. \A q \in Ops \ {o} : objs'[q] = objs[q]
    BY <1>2
  <2>2. \A t \in Slots : objs'[o][t] = Deleted(objs[o][t], t, D)
    BY <1>2 DEF IInv, RowsOK
  <2>3. ASSUME NEW x \in ObjectStates, NEW t
        PROVE  LET y == Deleted(x, t, D)
               IN  /\ y.ver = x.ver /\ y.src = x.src /\ y.dst = x.dst /\ y.started = x.started
                   /\ y.prepared = x.prepared /\ y.restored = x.restored
                   /\ y.srcGone <=> x.srcGone \/ <<t, "source">> \in D
                   /\ y.dstGone <=> x.dstGone \/ <<t, "target">> \in D
    BY DEF Deleted, ObjectStates
  <2>. QED
    BY <1>5, <2>1, <2>2, <2>3
<1>7. ASSUME NEW t \in Slots, <<t, "source">> \in D
      PROVE  objs[o][t].src # None /\ (objs[o][t].started \/ Committed(o) \/ Purging(o))
  <2>1. objs[o][t].src = l /\ l # None /\ ~(p \in Workers /\ Undoing(o))
    <3>1. <<t, "source">> \in Confirmed(p)
      BY <1>7
    <3>2. <<t, "source">> \notin {<<s, "target">> : s \in {u \in PendingTarget(o) :
                 objs[o][u].dst = l /\ ((p \in Workers /\ Undoing(o)) \/ Staged(o, u))}}
      OBVIOUS
    <3>. QED
      BY <1>1, <3>1, <3>2 DEF Confirmed, PendingSource
  <2>2. CASE p \in Workers
    BY <1>4, <2>1, <2>2 DEF Undoing, Unsettled, Purging
  <2>3. CASE p \in Ops /\ Open(o) /\ ~Purging(o)
    <3>1. PICK s \in Slots : objs[o][s].started /\ objs[o][s].src = l
      BY <1>1, <1>4, <2>3 DEF DropFits
    <3>2. /\ ops[o].kind = "overwrite" /\ s \in Ids /\ s = entries[ops[o].file].current
          /\ entries[ops[o].file].path \in Paths /\ l = InFiles(entries[ops[o].file].path)
      BY <1>4, <2>3, <3>1, StartedShape
    <3>3. Present(o, t) /\ OverwriteShaped(o)
      BY <1>4, <2>1, <3>2, ShapeOf, AddressesApart DEF IInv, PlansFollow, Blank
    <3>4. t # "staging" /\ t # "replacement"
      BY <2>1, <3>2, <3>3, AddressesApart
         DEF OverwriteShaped, StagingShaped, ReplacementShaped
    <3>5. t = s
      BY <2>3, <3>2, <3>3, <3>4 DEF OverwriteShaped, ArchiveShaped, Slots
    <3>. QED
      BY <2>1, <3>1, <3>5
  <2>. QED
    BY <1>4, <2>1, <2>2, <2>3 DEF Processes, Unsettled
<1>8. Book' /\ Leaves(o)
  BY <1>3, <1>4, <1>6, <1>7, FlagsBookStep
<1>9. \A q \in Processes \ {p} : proc'[q] = proc[q]
  BY <1>2 DEF IInv, RowsOK
<1>10. CallFits(p)'
  <2>1. (Open(o)' = Open(o)) /\ (Purging(o)' = Purging(o)) /\ (Planned(o)' = Planned(o))
    BY <1>3, <1>6 DEF Open, Purging, Planned, Present
  <2>2. proc'[p].op = o /\ proc'[p].at \in {"plan", "dropped"}
        /\ (proc'[p].at = "dropped" => proc'[p].loc = l)
    <3>1. CASE D = Confirmed(p)
      <4>1. proc' = [proc EXCEPT ![p].at = "plan", ![p].loc = None]
        BY <1>2, <3>1
      <4>. QED
        BY <1>1, <4>1, IssueEffect
    <3>2. CASE D # Confirmed(p)
      BY <1>1, <1>2, <1>3, <3>2
    <3>. QED
      BY <3>1, <3>2
  <2>3. proc'[p].at = "dropped" => DropFits(p)'
    <3>1. PICK m \in Locations :
             /\ m = l /\ Touches(o, m)
             /\ p \in Ops /\ Open(o) => Purging(o) \/ \E s \in Slots : objs[o][s].started /\ objs[o][s].src = m
      BY <1>1, <1>4 DEF DropFits
    <3>2. /\ Touches(o, m)'
          /\ (p \in Ops /\ Open(o))' =>
                Purging(o)' \/ \E s \in Slots : objs'[o][s].started /\ objs'[o][s].src = m
      BY <1>6, <2>1, <3>1 DEF Touches
    <3>3. proc'[p].at = "dropped" => proc'[p].loc = m
      BY <2>2, <3>1
    <3>. QED
      BY <2>2, <3>1, <3>2, <3>3 DEF DropFits
  <2>4. p \in Ops => RequestFits(p)'
    BY <1>1, <1>3, <1>4, <2>1, <2>2 DEF CallFits, RequestFits
  <2>. QED
    BY <2>2, <2>3, <2>4 DEF CallFits
<1>. QED
  BY <1>1, <1>3, <1>8, <1>9, <1>10, RecordCallsStep

LEMMA IntendFits ==
    ASSUME IInv, HoldersWork, Book, CallsFit, NEW o \in Ops, Intend(o)
    PROVE  Book' /\ CallsFit'
<1>. USE Constants, AddressesApart
<1>20. /\ proc[o].at = "plan" /\ Holds(o) /\ Open(o) /\ Working(o)
      /\ UNCHANGED <<entries, versions, names, ops, proc>>
  BY DEF Intend, Working
<1>2. proc[o].op = o /\ Unsettled(o) /\ CallFits(o) /\ ops[o].token = o
  BY <1>20, HoldsAlone DEF CallsFit
<1>21. PICK f \in Ids, old \in Ids : f = ops[o].file /\ old = entries[f].current
  BY <1>2 DEF IInv, EntriesFilled, PlansFollow, Unsettled, Open, Committed, Intend
<1>. DEFINE x == objs[o][old]
<1>1. /\ ops[o].kind = "overwrite" /\ x.prepared /\ entries[f].state = "active"
      /\ objs' = [objs EXCEPT ![o][old].started = TRUE,
                      ![o]["replacement"] = Object(o, InStaging(o), objs[o][old].src)]
  BY <1>21 DEF Intend
<1>3. OverwriteShaped(o)
  BY <1>1, <1>20, <1>21, <1>2, ShapeOf
<1>4. Present(o, old) /\ ArchiveShaped(o, old)
  BY <1>1, <1>20, <1>21, <1>3 DEF OverwriteShaped, IInv, PlansFollow, Blank
<1>5. objs[o] \in [Slots -> ObjectStates] /\ x \in ObjectStates /\ old # "replacement" /\ old # "staging"
  <2>1. objs[o] \in [Slots -> ObjectStates]
    BY DEF IInv, RowsOK
  <2>. QED
    BY <1>3, <2>1
<1>6. /\ \A q \in Ops \ {o} : objs'[q] = objs[q]
      /\ objs'[o]["replacement"] = Object(o, InStaging(o), x.src)
      /\ objs'[o][old] = [x EXCEPT !.started = TRUE]
      /\ \A t \in Slots \ {old, "replacement"} : objs'[o][t] = objs[o][t]
  <2>. DEFINE row == [[objs[o] EXCEPT ![old] = [x EXCEPT !.started = TRUE]] EXCEPT
                         !["replacement"] = Object(o, InStaging(o), x.src)]
  <2>1. objs' = [objs EXCEPT ![o] = row]
    BY <1>1, <1>20, <1>21, <1>3, <1>5 DEF IInv, RowsOK
  <2>2. /\ row["replacement"] = Object(o, InStaging(o), x.src) /\ row[old] = [x EXCEPT !.started = TRUE]
        /\ \A t \in Slots \ {old, "replacement"} : row[t] = objs[o][t]
    BY <1>3, <1>5
  <2>. HIDE DEF row
  <2>. QED
    BY <2>1, <2>2 DEF IInv, RowsOK
<1>7. LET y == objs'[o][old]
      IN  /\ y.ver = x.ver /\ y.src = x.src /\ y.dst = x.dst /\ y.started /\ y.prepared
          /\ y.srcGone = x.srcGone /\ y.dstGone = x.dstGone /\ y.restored = x.restored
  <2>1. ASSUME NEW r \in ObjectStates
        PROVE  LET y == [r EXCEPT !.started = TRUE]
               IN  /\ y.ver = r.ver /\ y.src = r.src /\ y.dst = r.dst /\ y.started
                   /\ y.prepared = r.prepared
                   /\ y.srcGone = r.srcGone /\ y.dstGone = r.dstGone /\ y.restored = r.restored
    BY DEF ObjectStates
  <2>2. x \in ObjectStates /\ x.prepared /\ objs'[o][old] = [x EXCEPT !.started = TRUE]
    BY <1>1, <1>5, <1>6
  <2>. HIDE DEF x
  <2>. QED
    BY <2>1, <2>2
<1>8. LET y == objs'[o]["replacement"]
      IN  /\ y.ver = o /\ y.src = InStaging(o) /\ y.dst = x.src /\ ~y.started /\ ~y.prepared
          /\ ~y.srcGone /\ ~y.restored
  BY <1>6 DEF Object, NoObject
<1>. HIDE DEF x
<1>9. x.src = InFiles(entries[f].path) /\ x.dst = InHistory(old) /\ Held(o, old) /\ x.ver = old
  BY <1>4, <1>21 DEF ArchiveShaped, Held, x
<1>10. \A v \in Ids : Present(o, v) => v = old
  BY <1>1, <1>20, <1>21, <1>3 DEF OverwriteShaped, ArchiveShaped
<1>11. /\ Unsettled(o)' /\ Open(o)' /\ ~Committed(o)' /\ ~Purging(o)'
       /\ \A v \in Ids : Present(o, v)' = Present(o, v)
       /\ Present(o, "replacement")' /\ Present(o, "staging")' = Present(o, "staging")
  <2>1. Unsettled(o)' /\ Open(o)' /\ ~Committed(o)' /\ ~Purging(o)'
    BY <1>1, <1>20 DEF Unsettled, Open, Committed, Purging, SystemKinds
  <2>2. Present(o, old)' = Present(o, old)
    BY <1>7 DEF Present, x
  <2>3. \A t \in Slots \ {old, "replacement"} : Present(o, t)' = Present(o, t)
    BY <1>6 DEF Present
  <2>4. Present(o, "replacement")'
    BY <1>8 DEF Present
  <2>. QED
    BY <1>5, <2>1, <2>2, <2>3, <2>4
<1>12. OverwriteShaped(o)'
  <2>1. StagingShaped(o)'
    BY <1>1, <1>20, <1>21, <1>3, <1>5, <1>6, <1>11 DEF OverwriteShaped, StagingShaped
  <2>2. ReplacementShaped(o)'
    BY <1>1, <1>20, <1>21, <1>7, <1>8, <1>9, <1>10, <1>11 DEF ReplacementShaped
  <2>3. ASSUME NEW v \in Ids, Present(o, v) PROVE ArchiveShaped(o, v)'
    <3>1. v = old
      BY <1>10, <2>3
    <3>2. Held(o, old)'
      BY <1>1, <1>20, <1>21, <1>7, <1>9 DEF Held
    <3>. QED
      BY <1>1, <1>20, <1>21, <1>4, <1>7, <1>9, <1>11, <3>1, <3>2 DEF ArchiveShaped, x
  <2>4. \A v \in Ids : ArchiveShaped(o, v)'
    BY <1>11, <2>3 DEF ArchiveShaped
  <2>. QED
    BY <1>3, <1>4, <1>11, <2>1, <2>2, <2>4 DEF OverwriteShaped
<1>13. \A s \in Slots : ~objs'[o][s].restored
  <2>1. \A s \in Slots : ~objs[o][s].restored
    BY <1>1, <1>20, <1>21, <1>2, OwnBookHolds DEF OwnBook
  <2>. QED
    BY <1>3, <1>6, <1>7, <1>8, <2>1 DEF x
<1>14. ASSUME NEW l \in Locations, Touches(o, l)' PROVE Owned(o, l)'
  <2>1. PICK s \in Slots : objs'[o][s].src = l \/ objs'[o][s].dst = l
    BY <1>14 DEF Touches
  <2>2. Touches(o, l) \/ l = InStaging(o)
    <3>1. CASE s = old
      BY <1>7, <2>1, <3>1 DEF Touches, x
    <3>2. CASE s = "replacement"
      BY <1>8, <2>1, <3>2 DEF Touches, x
    <3>3. CASE s \in Slots \ {old, "replacement"}
      BY <1>6, <2>1, <3>3 DEF Touches
    <3>. QED
      BY <3>1, <3>2, <3>3
  <2>3. Owned(o, l)
    BY <1>2, <2>2 DEF Book, PlansOwned, Owned
  <2>. QED
    BY <1>20, <2>3 DEF Owned
<1>15. OwnBook(o)'
  <2>1. Shaped(o)'
    BY <1>1, <1>20, <1>21, <1>11, <1>12 DEF Shaped
  <2>2. \A g \in Ids : entries'[g].busy = o => Unsettled(o)' /\ ops'[o].file = g /\ ops'[o].kind # "upload"
    BY <1>1, <1>20, <1>21, <1>11, OwnBookHolds DEF OwnBook
  <2>. QED
    BY <1>1, <1>20, <1>21, <1>11, <1>13, <1>14, <2>1, <2>2 DEF OwnBook, Clear
<1>16. Book' /\ Leaves(o)
  BY <1>1, <1>20, <1>21, <1>6, <1>15, PlanBookStep
<1>17. CallFits(o)'
  BY <1>1, <1>20, <1>21, <1>3, <1>4, <1>11 DEF CallFits, RequestFits, Planned
<1>. QED
  BY <1>1, <1>20, <1>21, <1>2, <1>16, <1>17, RecordCallsStep

-----------------------------------------------------------------------------
(* Operations begin *)

LEMMA AdmitFits ==
    ASSUME IInv, HoldersWork, Book, CallsFit, NEW o \in Ops, NEW kind \in UserKinds, NEW f \in Ids,
           NEW path \in Paths, NEW rev, Admit(o, kind, f, path, rev)
    PROVE  Book' /\ CallsFit'
<1>. USE Constants
<1>1. /\ lock = None /\ ops[o].phase = "none"
      /\ ops' = [ops EXCEPT ![o] = [NoOp EXCEPT !.phase = "open", !.kind = kind, !.file = f,
                    !.path = path, !.rev = rev, !.token = o, !.live = TRUE]]
      /\ proc' = [proc EXCEPT ![o] = [Idle EXCEPT !.at = "prepare", !.op = o]]
      /\ UNCHANGED <<entries, versions, names, objs>>
  BY DEF Admit
<1>2. ops'[o].phase = "open" /\ ops'[o].kind = kind /\ \A q \in Ops \ {o} : ops'[q] = ops[q]
  BY <1>1 DEF NoOp, IInv, RowsOK
<1>3. /\ proc'[o].at = "prepare" /\ proc'[o].op = o /\ \A q \in Processes \ {o} : proc'[q] = proc[q]
  BY <1>1 DEF Idle, IInv, RowsOK
<1>4. \A s \in Slots : ~Present(o, s)' /\ Blank(objs'[o][s]) /\ ~objs'[o][s].restored
  BY <1>1 DEF IInv, PlansFollow, Present, Book, RequestFirst
<1>5. Shaped(o)'
  <2>1. ~Committed(o)' /\ ~Planned(o)'
    BY <1>2, <1>4 DEF Committed, Planned
  <2>2. UploadShaped(o)' /\ RelocationShaped(o)' /\ PurgeShaped(o)'
    BY <1>4, <2>1 DEF UploadShaped, RelocationShaped, PurgeShaped
  <2>3. OverwriteShaped(o)'
    BY <1>4, <2>1 DEF OverwriteShaped, StagingShaped, ReplacementShaped, ArchiveShaped
  <2>. QED
    BY <2>2, <2>3 DEF Shaped
<1>6. Clear(o)' /\ \A l \in Locations : ~Touches(o, l)'
  BY <1>4 DEF Clear, Touches, Blank
<1>7. \A g \in Ids : entries'[g].busy # o
  BY <1>1 DEF Book, BusyHeld, Unsettled, Open, Committed
<1>8. kind # "none"
  BY DEF UserKinds
<1>9. OwnBook(o)'
  BY <1>2, <1>4, <1>5, <1>6, <1>7, <1>8 DEF OwnBook
<1>10. Book' /\ Leaves(o)
  BY <1>1, <1>2, <1>9, PlanBookStep
<1>11. CallFits(o)'
  BY <1>2, <1>3, <1>4 DEF CallFits, RequestFits, Planned, Open
<1>. QED
  BY <1>1, <1>3, <1>10, <1>11, TakesAlone, OwnCallsStep

LEMMA RequestsFit ==
    ASSUME IInv, HoldersWork, Book, CallsFit, NEW o \in Ops, Request(o)
    PROVE  Book' /\ CallsFit'
<1>. USE Constants
<1>1. Asks[o] \subseteq UserKinds
  BY FilesAssumption
<1>2. CASE \E path \in Paths : "upload" \in Asks[o] /\ Admit(o, "upload", o, path, 0)
  BY <1>1, <1>2, AdmitFits
<1>3. CASE \E kind \in Asks[o] \ {"upload"}, f \in Ids :
              \E rev \in 1 .. entries[f].rev, path \in Paths :
                  /\ kind \in {"move", "restore"} \/ path = entries[f].path
                  /\ Admit(o, kind, f, path, rev)
  BY <1>1, <1>3, AdmitFits
<1>. QED
  BY <1>2, <1>3 DEF Request

LEMMA EnlistFits ==
    ASSUME IInv, HoldersWork, Book, CallsFit, NEW w \in Workers, NEW o \in Ops,
           NEW kind \in SystemKinds, NEW f \in Ids, NEW doomed \in SUBSET Ids,
           Enlist(w, o, kind, f, doomed),
           \A v \in doomed : /\ versions[v].state = "live" /\ versions[v].file = f
                             /\ versions[v].loc \in {InHistory(v), InTrash(v)},
           kind = "trash_purge" => doomed = VersionsOf(f)
    PROVE  Book' /\ CallsFit'
<1>. USE Constants, AddressesApart
<1>1. /\ lock = None /\ ops[o].phase = "none" /\ entries[f].busy = None
      /\ ops' = [ops EXCEPT ![o] = [NoOp EXCEPT !.phase = "open", !.kind = kind, !.file = f,
                    !.token = w, !.live = TRUE, !.due = TRUE]]
      /\ objs' = [objs EXCEPT ![o] = [s \in Slots |->
                    IF s \in doomed THEN Object(s, versions[s].loc, None) ELSE objs[o][s]]]
      /\ entries' = [entries EXCEPT ![f].busy = o]
      /\ Started(w, o) /\ UNCHANGED <<versions, names>>
  BY DEF Enlist
<1>2. /\ ops'[o].phase = "open" /\ ops'[o].kind = kind /\ ops'[o].file = f /\ ops'[o].token = w
      /\ \A q \in Ops \ {o} : ops'[q] = ops[q]
  BY <1>1 DEF NoOp, IInv, RowsOK
<1>3. /\ \A q \in Ops \ {o} : objs'[q] = objs[q]
      /\ \A s \in Slots : objs'[o][s] = IF s \in doomed THEN Object(s, versions[s].loc, None) ELSE objs[o][s]
  BY <1>1 DEF IInv, RowsOK
<1>4. /\ \A g \in Ids \ {f} : entries'[g] = entries[g]
      /\ entries'[f].busy = o /\ entries'[f].state = entries[f].state
      /\ entries'[f].path = entries[f].path /\ entries'[f].current = entries[f].current
  BY <1>1 DEF IInv, RowsOK, EntryStates
<1>5. ASSUME NEW s \in doomed
      PROVE  /\ s \in Slots /\ Present(o, s)'
             /\ objs'[o][s].ver = s /\ objs'[o][s].src = versions[s].loc /\ objs'[o][s].dst = None
             /\ ~objs'[o][s].started /\ ~objs'[o][s].restored
  BY <1>3, <1>5, ZenonT(30) DEF Object, NoObject, Present
<1>6. ASSUME NEW s \in Slots \ doomed
      PROVE  /\ ~Present(o, s)' /\ objs'[o][s].src = None /\ objs'[o][s].dst = None
             /\ ~objs'[o][s].started /\ ~objs'[o][s].restored
  BY <1>1, <1>3, <1>6 DEF IInv, PlansFollow, Present, Blank, Book, RequestFirst
<1>7. /\ Unsettled(o)' /\ Open(o)' /\ ~Committed(o)' /\ Purging(o)'
  BY <1>2 DEF Unsettled, Open, Committed, Purging
<1>8. PurgeShaped(o)'
  <2>1. kind # "history_purge" => \A v \in VersionsOf(f)' : Present(o, v)'
    <3>1. VersionsOf(f)' = VersionsOf(f)
      BY <1>1 DEF VersionsOf
    <3>. QED
      BY <1>5, <3>1 DEF SystemKinds
  <2>2. ASSUME NEW s \in Slots, Present(o, s)'
        PROVE  /\ s \in Ids /\ Held(o, s)'
               /\ objs'[o][s].src = versions'[s].loc /\ objs'[o][s].src \in {InHistory(s), InTrash(s)}
               /\ objs'[o][s].dst = None /\ ~objs'[o][s].started
    <3>1. s \in doomed
      BY <1>6, <2>2
    <3>. QED
      BY <1>1, <1>2, <1>4, <1>5, <3>1 DEF Held
  <2>. QED
    BY <1>2, <1>7, <2>1, <2>2 DEF PurgeShaped
<1>9. ASSUME NEW l \in Locations, Touches(o, l)' PROVE Owned(o, l)'
  <2>1. PICK s \in doomed : l = versions[s].loc
    BY <1>5, <1>6, <1>9 DEF Touches
  <2>2. l \in {InHistory(s), InTrash(s)} /\ versions'[s].state # "unborn"
        /\ entries'[versions'[s].file].busy = o
    BY <1>1, <1>4, <2>1
  <2>. QED
    BY <2>2 DEF Owned
<1>10. \A g \in Ids : entries[g].busy # o
  BY <1>1 DEF Book, BusyHeld, Unsettled, Open, Committed
<1>11. OwnBook(o)'
  <2>1. Shaped(o)' /\ kind # "none"
    BY <1>2, <1>8 DEF Shaped, SystemKinds
  <2>2. Clear(o)' /\ \A s \in Slots : ~objs'[o][s].restored
    BY <1>5, <1>6 DEF Clear
  <2>3. \A g \in Ids : entries'[g].busy = o => ops'[o].file = g /\ ops'[o].kind # "upload"
    BY <1>2, <1>4, <1>10 DEF SystemKinds
  <2>. QED
    BY <1>2, <1>7, <1>9, <2>1, <2>2, <2>3 DEF OwnBook
<1>12. Leaves(o)
  BY <1>1, <1>2, <1>3, <1>4 DEF Leaves
<1>13. VersionsPlaced' /\ CurrentLives' /\ PathsApart'
  BY <1>1, <1>4, FilesKept
<1>14. Book'
  BY <1>11, <1>12, <1>13, BookStep
<1>15. proc'[w].at = "plan" /\ \A q \in Processes \ {w} : proc'[q] = proc[q]
  BY <1>1 DEF Started, Idle, IInv, RowsOK
<1>16. CallFits(w)'
  BY <1>15 DEF CallFits
<1>. QED
  BY <1>1, <1>12, <1>14, <1>15, <1>16, TakesAlone, OwnCallsStep

LEMMA EnlistingFits ==
    ASSUME IInv, HoldersWork, Book, CallsFit, NEW w \in Workers, NEW o \in Ops,
           (\E v \in Ids : EnlistHistory(w, o, v)) \/ (\E f \in Ids : EnlistTrash(w, o, f))
    PROVE  Book' /\ CallsFit'
<1>. USE Constants
<1>1. ASSUME NEW v \in Ids, EnlistHistory(w, o, v) PROVE Book' /\ CallsFit'
  <2>1. versions[v].state = "live" /\ versions[v].loc = InHistory(v)
        /\ Enlist(w, o, "history_purge", versions[v].file, {v})
    BY <1>1 DEF EnlistHistory
  <2>2. versions[v].file \in Ids
    BY <2>1, PlaceOf
  <2>. QED
    BY <2>1, <2>2, EnlistFits DEF SystemKinds
<1>2. ASSUME NEW f \in Ids, EnlistTrash(w, o, f) PROVE Book' /\ CallsFit'
  <2>1. entries[f].state = "trashed" /\ Enlist(w, o, "trash_purge", f, VersionsOf(f))
    BY <1>2 DEF EnlistTrash
  <2>2. \A v \in VersionsOf(f) : /\ v \in Ids /\ versions[v].state = "live" /\ versions[v].file = f
                                 /\ versions[v].loc \in {InHistory(v), InTrash(v)}
    BY <2>1, PlaceOf DEF VersionsOf
  <2>. QED
    BY <2>1, <2>2, EnlistFits DEF SystemKinds
<1>. QED
  BY <1>1, <1>2

-----------------------------------------------------------------------------
(* A request prepares *)

LEMMA BeforePlan ==
    ASSUME IInv, HoldersWork, Book, CallsFit, NEW o \in Ops, proc[o].at = "prepare", Holds(o)
    PROVE  /\ Open(o) /\ Unsettled(o) /\ ~Committed(o) /\ ops[o].token = o /\ proc[o].op = o
           /\ ops[o].file \in Ids /\ (ops[o].kind \in UserKinds => ops[o].path \in Paths)
           /\ \A s \in Slots : ~Present(o, s) /\ Blank(objs[o][s]) /\ ~objs[o][s].restored
<1>. USE Constants
<1>1. Working(o)
  BY DEF Working
<1>2. CallFits(o) /\ proc[o].op = o /\ Unsettled(o) /\ ops[o].token = o
  BY <1>1, HoldsAlone DEF CallsFit
<1>3. Open(o) /\ ~Planned(o)
  BY <1>2 DEF CallFits, RequestFits
<1>4. \A s \in Slots : ~Present(o, s) /\ Blank(objs[o][s])
  BY <1>3 DEF Planned, IInv, PlansFollow
<1>5. \A s \in Slots : ~objs[o][s].restored
  BY <1>2, <1>3 DEF Book, RequestFirst
<1>. QED
  BY <1>2, <1>3, <1>4, <1>5, ShapeOf DEF Open, Committed

LEMMA PreparedFits ==
    ASSUME IInv, HoldersWork, Book, CallsFit, NEW o \in Ops,
           proc[o].at = "prepare", Holds(o), Go(o, "plan"), UNCHANGED versions,
           NEW f \in Ids, f = ops[o].file,
           ops' \in {ops, [ops EXCEPT ![o].reserved = Bytes[o]]},
           \/ UNCHANGED entries
           \/ /\ entries[f].busy \in {None, o} /\ ops[o].kind # "upload"
              /\ entries' = [entries EXCEPT ![f].busy = o],
           \A n \in Paths : names'[n] = names[n] \/ names[n] \in {None, o},
           \A q \in Ops \ {o} : objs'[q] = objs[q],
           Shaped(o)', \A l \in Locations : Touches(o, l)' => Owned(o, l)',
           \A s \in Slots : ~objs'[o][s].started /\ ~objs'[o][s].restored,
           Purging(o) \/ Planned(o)'
    PROVE  Book' /\ CallsFit'
<1>. USE Constants
<1>1. Open(o) /\ Unsettled(o) /\ proc[o].op = o /\ ops[o].kind # "none"
  BY BeforePlan DEF Book, PlansShaped
<1>2. /\ \A q \in Ops \ {o} : ops'[q] = ops[q]
      /\ ops'[o].phase = ops[o].phase /\ ops'[o].kind = ops[o].kind /\ ops'[o].file = ops[o].file
  BY DEF IInv, RowsOK, OpStates
<1>3. \A g \in Ids :
          /\ entries'[g].state = entries[g].state /\ entries'[g].path = entries[g].path
          /\ entries'[g].current = entries[g].current
          /\ \/ entries'[g] = entries[g]
             \/ g = f /\ entries[g].busy \in {None, o} /\ entries'[g].busy = o /\ ops[o].kind # "upload"
  <2>1. CASE UNCHANGED entries
    BY <2>1
  <2>2. CASE /\ entries[f].busy \in {None, o} /\ ops[o].kind # "upload"
             /\ entries' = [entries EXCEPT ![f].busy = o]
    BY <2>2 DEF IInv, RowsOK, EntryStates
  <2>. QED
    BY <2>1, <2>2
<1>4. Open(o)' /\ Unsettled(o)' /\ Purging(o)' = Purging(o)
  BY <1>1, <1>2 DEF Open, Unsettled, Purging
<1>5. Leaves(o)
  BY <1>2, <1>3 DEF Leaves
<1>6. \A g \in Ids : entries'[g].busy = o => ops'[o].file = g /\ ops'[o].kind # "upload"
  BY <1>2, <1>3, OwnBookHolds DEF OwnBook
<1>7. OwnBook(o)'
  BY <1>1, <1>2, <1>4, <1>6 DEF OwnBook, Clear
<1>8. VersionsPlaced' /\ CurrentLives' /\ PathsApart'
  BY <1>3, FilesKept
<1>9. Book'
  BY <1>5, <1>7, <1>8, BookStep
<1>10. /\ proc'[o].at = "plan" /\ proc'[o].op = o /\ \A q \in Processes \ {o} : proc'[q] = proc[q]
  BY <1>1, GoEffect
<1>11. CallFits(o)'
  BY <1>4, <1>10 DEF CallFits, RequestFits
<1>12. Working(o)
  BY DEF Working
<1>. QED
  BY <1>1, <1>5, <1>9, <1>10, <1>11, <1>12, RecordCallsStep

LEMMA PrepareUploadFits ==
    ASSUME IInv, HoldersWork, Book, CallsFit, NEW o \in Ops,
           proc[o].at = "prepare", Holds(o), Go(o, "plan"), UNCHANGED versions, PrepareUpload(o)
    PROVE  Book' /\ CallsFit'
<1>. USE Constants, AddressesApart
<1>1. PICK path \in Paths : path = ops[o].path
  BY BeforePlan DEF PrepareUpload, CanUpload, UserKinds
<1>2. /\ ops[o].kind = "upload" /\ NameFree(o, path, o)
      /\ ops' = [ops EXCEPT ![o].reserved = Bytes[o]] /\ names' = [names EXCEPT ![path] = o]
      /\ objs' = [objs EXCEPT ![o][o] = Object(o, None, InFiles(path))]
      /\ UNCHANGED entries
  BY <1>1 DEF PrepareUpload, CanUpload, Reserve
<1>3. /\ Open(o) /\ ops[o].file \in Ids /\ \A s \in Slots : ~Present(o, s) /\ Blank(objs[o][s]) /\ ~objs[o][s].restored
  BY BeforePlan
<1>4. /\ \A q \in Ops \ {o} : objs'[q] = objs[q]
      /\ objs'[o][o] = Object(o, None, InFiles(path))
      /\ \A s \in Slots \ {o} : objs'[o][s] = objs[o][s]
  BY <1>2 DEF IInv, RowsOK
<1>5. /\ Present(o, o)' /\ objs'[o][o].ver = o /\ objs'[o][o].src = None /\ objs'[o][o].dst = InFiles(path)
      /\ ~objs'[o][o].started /\ ~objs'[o][o].srcGone /\ ~objs'[o][o].restored
  BY <1>4 DEF Object, NoObject, Present
<1>6. \A s \in Slots \ {o} : /\ ~Present(o, s)' /\ objs'[o][s].src = None /\ objs'[o][s].dst = None
                             /\ ~objs'[o][s].started /\ ~objs'[o][s].restored
  BY <1>3, <1>4 DEF Present, Blank
<1>7. ops'[o].phase = ops[o].phase /\ ops'[o].kind = "upload" /\ ops'[o].path = path
  BY <1>1, <1>2 DEF IInv, RowsOK, OpStates
<1>8. Shaped(o)'
  <2>1. UploadShaped(o)'
    BY <1>3, <1>5, <1>6, <1>7 DEF UploadShaped, Open
  <2>. QED
    BY <1>7, <2>1 DEF Shaped, Purging, SystemKinds
<1>9. ASSUME NEW l \in Locations, Touches(o, l)' PROVE Owned(o, l)'
  <2>1. l = InFiles(path)
    BY <1>5, <1>6, <1>9 DEF Touches
  <2>2. names'[path] = o
    BY <1>2 DEF IInv, RowsOK
  <2>3. \A g \in Ids : ~(entries'[g].state = "active" /\ entries'[g].path = path)
    BY <1>2, <1>3 DEF NameFree, IInv, IdsFresh, Open
  <2>. QED
    BY <2>1, <2>2, <2>3 DEF Owned
<1>10. \A n \in Paths : names'[n] = names[n] \/ names[n] \in {None, o}
  BY <1>2 DEF NameFree, IInv, RowsOK
<1>11. \A s \in Slots : ~objs'[o][s].started /\ ~objs'[o][s].restored
  BY <1>5, <1>6
<1>12. Planned(o)'
  BY <1>5 DEF Planned
<1>. QED
  BY <1>2, <1>3, <1>4, <1>8, <1>9, <1>10, <1>11, <1>12, PreparedFits

LEMMA PrepareOverwriteFits ==
    ASSUME IInv, HoldersWork, Book, CallsFit, NEW o \in Ops,
           proc[o].at = "prepare", Holds(o), Go(o, "plan"), UNCHANGED versions, PrepareOverwrite(o)
    PROVE  Book' /\ CallsFit'
<1>. USE Constants, AddressesApart
<1>1. /\ Open(o) /\ ~Committed(o) /\ ops[o].file \in Ids
      /\ \A s \in Slots : ~Present(o, s) /\ Blank(objs[o][s]) /\ ~objs[o][s].restored
  BY BeforePlan
<1>2. PICK f \in Ids, old \in Ids, path \in Paths :
         f = ops[o].file /\ old = entries[f].current /\ path = entries[f].path
  BY <1>1 DEF PrepareOverwrite, CanOverwrite, IInv, EntriesFilled
<1>3. /\ ops[o].kind = "overwrite" /\ entries[f].state = "active" /\ entries[f].busy \in {None, o}
      /\ NameFree(o, path, f)
      /\ ops' = [ops EXCEPT ![o].reserved = Bytes[o]]
      /\ entries' = [entries EXCEPT ![f].busy = o]
      /\ names' = [names EXCEPT ![path] = o]
      /\ objs' = [objs EXCEPT ![o]["staging"] = Object(o, None, InStaging(o)),
                              ![o][old] = Object(old, versions[old].loc, InHistory(old))]
  BY <1>2 DEF PrepareOverwrite, CanOverwrite, Reserve
<1>4. versions[old].state = "live" /\ versions[old].file = f /\ versions[old].loc = InFiles(path)
  <2>1. versions[old].state = "live" /\ versions[old].file = f
    BY <1>2, <1>3 DEF Book, CurrentLives
  <2>2. versions[old].loc = InFiles(entries[f].path)
    BY <1>2, <1>3, <2>1 DEF Book, VersionsPlaced, Placed
  <2>. QED
    BY <1>2, <2>1, <2>2
<1>5. old # o
  BY <1>1, <1>4 DEF IInv, IdsFresh, Open
<1>6. /\ \A q \in Ops \ {o} : objs'[q] = objs[q]
      /\ objs'[o]["staging"] = Object(o, None, InStaging(o))
      /\ objs'[o][old] = Object(old, InFiles(path), InHistory(old))
      /\ \A s \in Slots \ {"staging", old} : objs'[o][s] = objs[o][s]
  <2>. DEFINE row == [[objs[o] EXCEPT !["staging"] = Object(o, None, InStaging(o))] EXCEPT
                         ![old] = Object(old, InFiles(path), InHistory(old))]
  <2>1. objs[o] \in [Slots -> ObjectStates]
    BY DEF IInv, RowsOK
  <2>2. objs' = [objs EXCEPT ![o] = row]
    BY <1>3, <1>4, <2>1 DEF IInv, RowsOK
  <2>3. /\ row["staging"] = Object(o, None, InStaging(o)) /\ row[old] = Object(old, InFiles(path), InHistory(old))
        /\ \A t \in Slots \ {"staging", old} : row[t] = objs[o][t]
    BY <2>1
  <2>. HIDE DEF row
  <2>. QED
    BY <2>2, <2>3 DEF IInv, RowsOK
<1>7. LET x == objs'[o]["staging"]
      IN  /\ Present(o, "staging")' /\ x.ver = o /\ x.src = None /\ x.dst = InStaging(o)
          /\ ~x.started /\ ~x.srcGone /\ ~x.restored
  BY <1>6 DEF Object, NoObject, Present
<1>8. LET x == objs'[o][old]
      IN  /\ Present(o, old)' /\ x.ver = old /\ x.src = InFiles(path) /\ x.dst = InHistory(old)
          /\ ~x.started /\ ~x.srcGone /\ ~x.restored
  BY <1>6 DEF Object, NoObject, Present
<1>9. \A s \in Slots \ {"staging", old} :
          /\ ~Present(o, s)' /\ objs'[o][s].src = None /\ objs'[o][s].dst = None
          /\ ~objs'[o][s].started /\ ~objs'[o][s].restored
  BY <1>1, <1>6 DEF Present, Blank
<1>10. /\ ops'[o].phase = ops[o].phase /\ ops'[o].kind = "overwrite" /\ ops'[o].file = f
  BY <1>2, <1>3 DEF IInv, RowsOK, OpStates
<1>11. /\ entries'[f].busy = o /\ entries'[f].state = "active" /\ entries'[f].path = path
       /\ entries'[f].current = old /\ \A g \in Ids \ {f} : entries'[g] = entries[g]
  BY <1>2, <1>3 DEF IInv, RowsOK, EntryStates
<1>12. Shaped(o)'
  <2>1. Open(o)' /\ ~Committed(o)'
    BY <1>1, <1>10 DEF Open, Committed
  <2>2. StagingShaped(o)'
    BY <1>7 DEF StagingShaped
  <2>3. ReplacementShaped(o)'
    BY <1>9 DEF ReplacementShaped
  <2>4. ArchiveShaped(o, old)'
    <3>1. Held(o, old)'
      BY <1>4, <1>8, <1>10, <1>11 DEF Held
    <3>. QED
      BY <1>5, <1>8, <1>10, <1>11, <2>1, <3>1 DEF ArchiveShaped
  <2>5. \A v \in Ids \ {old} : ArchiveShaped(o, v)'
    BY <1>9 DEF ArchiveShaped
  <2>6. OverwriteShaped(o)'
    BY <1>8, <2>1, <2>2, <2>3, <2>4, <2>5 DEF OverwriteShaped
  <2>. QED
    BY <1>10, <2>6 DEF Shaped, Purging, SystemKinds
<1>13. ASSUME NEW l \in Locations, Touches(o, l)' PROVE Owned(o, l)'
  <2>1. l \in {InStaging(o), InFiles(path), InHistory(old)}
    BY <1>7, <1>8, <1>9, <1>13 DEF Touches
  <2>2. names'[path] = o
    BY <1>3 DEF IInv, RowsOK
  <2>3. \A g \in Ids : entries'[g].state = "active" /\ entries'[g].path = path => entries'[g].busy = o
    BY <1>3, <1>11 DEF NameFree
  <2>4. versions'[old].state # "unborn" /\ entries'[versions'[old].file].busy = o
    BY <1>4, <1>11
  <2>. QED
    BY <2>1, <2>2, <2>3, <2>4 DEF Owned
<1>14. \A n \in Paths : names'[n] = names[n] \/ names[n] \in {None, o}
  BY <1>3 DEF NameFree, IInv, RowsOK
<1>15. \A s \in Slots : ~objs'[o][s].started /\ ~objs'[o][s].restored
  BY <1>7, <1>8, <1>9
<1>16. Planned(o)'
  BY <1>8 DEF Planned
<1>17. ops[o].kind # "upload"
  BY <1>3
<1>. QED
  BY <1>2, <1>3, <1>6, <1>12, <1>13, <1>14, <1>15, <1>16, <1>17, PreparedFits

LEMMA PrepareRelocationFits ==
    ASSUME IInv, HoldersWork, Book, CallsFit, NEW o \in Ops,
           proc[o].at = "prepare", Holds(o), Go(o, "plan"), UNCHANGED versions, PrepareRelocation(o)
    PROVE  Book' /\ CallsFit'
<1>. USE Constants, AddressesApart
<1>1. /\ Open(o) /\ ~Committed(o) /\ ops[o].file \in Ids
      /\ \A s \in Slots : ~Present(o, s) /\ Blank(objs[o][s]) /\ ~objs[o][s].restored
      /\ ops[o].kind \in UserKinds => ops[o].path \in Paths
  BY BeforePlan
<1>2. PICK f \in Ids, cur \in Ids, home \in Paths, path \in Paths :
         f = ops[o].file /\ cur = entries[f].current /\ home = entries[f].path /\ path = ops[o].path
  BY <1>1 DEF PrepareRelocation, CanRelocate, IInv, EntriesFilled, UserKinds
<1>. DEFINE kind == ops[o].kind
            moved == IF kind = "purge" THEN VersionsOf(f) ELSE {cur}
            to == Destination(o)
            target == IF kind \in {"move", "restore"} THEN {path} ELSE {}
<1>3. /\ kind \in {"move", "trash", "restore", "purge"} /\ entries[f].busy \in {None, o}
      /\ entries[f].state = IF kind \in {"restore", "purge"} THEN "trashed" ELSE "active"
      /\ kind = "move" => path # home
      /\ kind \in {"move", "restore"} => NameFree(o, path, f)
      /\ names[home] \in {None, o}
      /\ UNCHANGED ops
  BY <1>2 DEF PrepareRelocation, CanRelocate
<1>4. /\ entries' = [entries EXCEPT ![f].busy = o]
      /\ names' = [p \in Paths |-> IF p \in {home} \cup target THEN o ELSE names[p]]
      /\ objs' = [objs EXCEPT ![o] = [s \in Slots |->
                    IF s \in moved THEN Object(s, versions[s].loc, to) ELSE objs[o][s]]]
  BY <1>2 DEF PrepareRelocation
<1>5. PICK D \in SUBSET Ids, d \in {None, InTrash(cur), InFiles(path)} :
         /\ D = moved
         /\ kind = "purge" => d = None
         /\ kind = "trash" => d = InTrash(cur)
         /\ kind \in {"move", "restore"} => d = InFiles(path)
         /\ objs' = [objs EXCEPT ![o] = [s \in Slots |->
                       IF s \in D THEN Object(s, versions[s].loc, d) ELSE objs[o][s]]]
  <2>1. to = CASE kind = "purge" -> None [] kind = "trash" -> InTrash(cur) [] OTHER -> InFiles(path)
    BY <1>2 DEF Destination
  <2>2. moved \subseteq Ids
    BY DEF VersionsOf
  <2>. HIDE DEF moved, to
  <2>3. /\ kind = "purge" => to = None
        /\ kind = "trash" => to = InTrash(cur)
        /\ kind \in {"move", "restore"} => to = InFiles(path)
    BY <2>1
  <2>4. to \in {None, InTrash(cur), InFiles(path)}
    BY <1>3, <2>3
  <2>5. objs' = [objs EXCEPT ![o] = [s \in Slots |->
                       IF s \in moved THEN Object(s, versions[s].loc, to) ELSE objs[o][s]]]
    BY <1>4
  <2>6. moved \in SUBSET Ids
    BY <2>2
  <2>. WITNESS moved \in SUBSET Ids, to \in {None, InTrash(cur), InFiles(path)}
  <2>. QED
    BY <2>3, <2>5
<1>6. \A v \in Ids : versions[v].state = "live" /\ versions[v].file = f =>
         /\ v # cur => versions[v].loc = InHistory(v)
         /\ v = cur => versions[v].loc = IF kind \in {"restore", "purge"} THEN InTrash(v) ELSE InFiles(home)
  BY <1>2, <1>3, PlaceOf
<1>7. versions[cur].state = "live" /\ versions[cur].file = f
  BY <1>2, <1>3 DEF Book, CurrentLives
<1>8. \A v \in D : versions[v].state = "live" /\ versions[v].file = f /\ v \in Slots /\ v \in Ids
  BY <1>5, <1>7 DEF VersionsOf
<1>9. /\ \A q \in Ops \ {o} : objs'[q] = objs[q]
      /\ \A s \in Slots : objs'[o][s] = IF s \in D THEN Object(s, versions[s].loc, d) ELSE objs[o][s]
  BY <1>5 DEF IInv, RowsOK
<1>10. ASSUME NEW s \in D
       PROVE  /\ Present(o, s)' /\ objs'[o][s].ver = s /\ objs'[o][s].src = versions[s].loc
              /\ objs'[o][s].dst = d /\ ~objs'[o][s].started /\ ~objs'[o][s].srcGone /\ ~objs'[o][s].restored
  BY <1>8, <1>9, ZenonT(30) DEF Object, NoObject, Present
<1>11. \A s \in Slots \ D :
          /\ ~Present(o, s)' /\ objs'[o][s].src = None /\ objs'[o][s].dst = None
          /\ ~objs'[o][s].started /\ ~objs'[o][s].restored
  BY <1>1, <1>9 DEF Present, Blank
<1>12. /\ entries'[f].busy = o /\ entries'[f].state = entries[f].state /\ entries'[f].path = home
       /\ entries'[f].current = cur /\ \A g \in Ids \ {f} : entries'[g] = entries[g]
  BY <1>2, <1>4 DEF IInv, RowsOK, EntryStates
<1>13. \A s \in D : Held(o, s)'
  BY <1>2, <1>3, <1>8, <1>10, <1>12 DEF Held
<1>14. Shaped(o)'
  <2>1. Open(o)' /\ ~Committed(o)' /\ ops'[o].kind = kind /\ ops'[o].file = f /\ ops'[o].path = path
    BY <1>1, <1>2, <1>3 DEF Open, Committed
  <2>2. CASE kind = "purge"
    <3>1. VersionsOf(f)' = D
      BY <1>5, <2>2 DEF VersionsOf
    <3>2. \A s \in D : versions'[s].loc = versions[s].loc /\ versions[s].loc \in {InHistory(s), InTrash(s)}
      BY <1>6, <1>8, <2>2
    <3>3. \A v \in VersionsOf(ops[o].file)' : Present(o, v)'
      BY <1>10, <2>1, <3>1
    <3>4. \A s \in Slots : Present(o, s)' => s \in D
      BY <1>11
    <3>5. d = None
      BY <1>5, <2>2
    <3>6. PurgeShaped(o)'
      BY <1>10, <1>13, <2>1, <3>2, <3>3, <3>4, <3>5 DEF PurgeShaped
    <3>. QED
      BY <2>1, <2>2, <3>6 DEF Shaped
  <2>3. CASE kind \in {"move", "trash", "restore"}
    <3>1. D = {cur} /\ versions[cur].loc = IF kind = "restore" THEN InTrash(cur) ELSE InFiles(home)
      BY <1>5, <1>6, <1>7, <2>3
    <3>2. versions[cur].loc # None /\ versions[cur].loc # d /\ \A v \in Ids : versions[cur].loc # InHistory(v)
      BY <1>3, <1>5, <2>3, <3>1
    <3>3. d = IF kind = "trash" THEN InTrash(cur) ELSE InFiles(path)
      BY <1>5, <2>3
    <3>4. RelocationShaped(o)'
      BY <1>10, <1>11, <1>12, <1>13, <2>1, <3>1, <3>2, <3>3 DEF RelocationShaped
    <3>. QED
      BY <2>1, <2>3, <3>4 DEF Shaped, Purging, SystemKinds
  <2>. QED
    BY <1>3, <2>2, <2>3
<1>15. ASSUME NEW l \in Locations, Touches(o, l)' PROVE Owned(o, l)'
  <2>1. PICK s \in D : l = versions[s].loc \/ l = d
    BY <1>10, <1>11, <1>15 DEF Touches
  <2>2. versions'[s].state # "unborn" /\ entries'[versions'[s].file].busy = o
    BY <1>8, <1>12
  <2>3. versions'[cur].state # "unborn" /\ entries'[versions'[cur].file].busy = o
    BY <1>7, <1>12
  <2>4. CASE l \in {InHistory(s), InTrash(s), InTrash(cur)}
    BY <2>2, <2>3, <2>4 DEF Owned
  <2>5. CASE l = InFiles(home) /\ entries[f].state = "active"
    <3>1. names'[home] = o
      BY <1>4
    <3>2. \A g \in Ids : entries'[g].state = "active" /\ entries'[g].path = home => entries'[g].busy = o
      BY <1>2, <1>12, <2>5 DEF Book, PathsApart
    <3>. QED
      BY <2>5, <3>1, <3>2 DEF Owned
  <2>6. CASE l = InFiles(path) /\ kind \in {"move", "restore"}
    <3>1. names'[path] = o
      BY <1>4, <2>6
    <3>2. \A g \in Ids : entries'[g].state = "active" /\ entries'[g].path = path => entries'[g].busy = o
      BY <1>3, <1>12, <2>6 DEF NameFree
    <3>. QED
      BY <2>6, <3>1, <3>2 DEF Owned
  <2>7. \/ l \in {InHistory(s), InTrash(s), InTrash(cur)}
        \/ l = InFiles(home) /\ entries[f].state = "active"
        \/ l = InFiles(path) /\ kind \in {"move", "restore"}
    <3>1. \/ versions[s].loc \in {InHistory(s), InTrash(s)}
          \/ versions[s].loc = InFiles(home) /\ entries[f].state = "active"
      <4>1. versions[s].state = "live" /\ versions[s].file = f /\ s \in Ids
        BY <1>8, <2>1
      <4>2. CASE s = cur
        <5>1. versions[s].loc = IF kind \in {"restore", "purge"} THEN InTrash(s) ELSE InFiles(home)
          BY <1>6, <4>1, <4>2
        <5>. QED
          BY <1>3, <5>1
      <4>3. CASE s # cur
        BY <1>6, <4>1, <4>3
      <4>. QED
        BY <4>2, <4>3
    <3>. QED
      BY <1>3, <1>5, <2>1, <3>1
  <2>. QED
    BY <2>4, <2>5, <2>6, <2>7
<1>16. \A n \in Paths : names'[n] = names[n] \/ names[n] \in {None, o}
  BY <1>3, <1>4 DEF NameFree
<1>17. \A s \in Slots : ~objs'[o][s].started /\ ~objs'[o][s].restored
  BY <1>10, <1>11
<1>18. Purging(o) \/ Planned(o)'
  BY <1>3, <1>5, <1>8, <1>10 DEF Planned, Purging
<1>. HIDE DEF moved, to, target
<1>. QED
  BY <1>2, <1>3, <1>4, <1>9, <1>14, <1>15, <1>16, <1>17, <1>18, PreparedFits

LEMMA PrepareFits ==
    ASSUME IInv, HoldersWork, Book, CallsFit, NEW o \in Ops, Prepare(o)
    PROVE  Book' /\ CallsFit'
<1>. QED
  BY PrepareUploadFits, PrepareOverwriteFits, PrepareRelocationFits DEF Prepare

-----------------------------------------------------------------------------
(* Publication and completion *)

\* An operation is settled: its executor leaves, and so do its files and names.
LEMMA SettledFits ==
    ASSUME IInv, HoldersWork, Book, CallsFit, NEW p \in Processes, Working(p), Holds(p), Die(p),
           NEW o \in Ops, o = proc[p].op, ops'[o].phase \in {"completed", "failed"},
           \A q \in Ops \ {o} : ops'[q] = ops[q], UNCHANGED objs,
           \A f \in Ids : entries'[f].busy # o, Leaves(o),
           VersionsPlaced', CurrentLives', PathsApart'
    PROVE  Book' /\ CallsFit'
<1>. USE Constants
<1>1. OwnBook(o)'
  BY DEF OwnBook, Unsettled, Open, Committed
<1>2. Book'
  BY <1>1, BookStep
<1>3. ~Active(p)' /\ \A q \in Processes \ {p} : proc'[q] = proc[q]
  BY StopEffect DEF Active, Calling, Working
<1>. QED
  BY <1>2, <1>3, RecordCallsStep

LEMMA FreedEntries ==
    ASSUME IInv, NEW o \in Ops
    PROVE  \A f \in Ids :
              /\ Freed(o)[f].state = entries[f].state /\ Freed(o)[f].path = entries[f].path
              /\ Freed(o)[f].current = entries[f].current /\ Freed(o)[f].busy # o
              /\ entries[f].busy # o => Freed(o)[f] = entries[f]
              /\ entries[f].busy = o => Freed(o)[f].busy = None
<1>. USE Constants
<1>. TAKE f \in Ids
<1>1. entries[f] \in EntryStates
  BY DEF IInv, RowsOK
<1>2. Freed(o)[f] = [entries[f] EXCEPT !.busy = IF @ = o THEN None ELSE @]
  BY DEF Freed
<1>. QED
  BY <1>1, <1>2 DEF EntryStates

\* Maintenance ends an operation, or a request its clean-up.
LEMMA EndsFit ==
    ASSUME IInv, HoldersWork, Book, CallsFit, NEW p \in Processes,
           Finish(p) \/ (p \in Workers /\ Abort(p))
    PROVE  Book' /\ CallsFit'
<1>. USE Constants
<1>1. Working(p) /\ Holds(p) /\ Die(p) /\ UNCHANGED <<versions, objs>>
  BY DEF Finish, Abort, Working
<1>2. PICK o \in Ops : o = proc[p].op
  BY <1>1, HoldsAlone
<1>3. entries' = Freed(o) /\ names' = Released(o)
  BY <1>2 DEF Finish, Abort
<1>4. ops'[o].phase \in {"completed", "failed"} /\ \A q \in Ops \ {o} : ops'[q] = ops[q]
  <2>1. ops[o] \in OpStates
    BY DEF IInv, RowsOK
  <2>2. \/ ops' = [ops EXCEPT ![o] = Completed(o)]
        \/ ops' = [ops EXCEPT ![o].phase = "failed", ![o].reserved = 0, ![o].live = FALSE]
    BY <1>2 DEF Finish, Abort
  <2>3. CASE ops' = [ops EXCEPT ![o] = Completed(o)]
    BY <2>1, <2>3 DEF Completed, OpStates, IInv, RowsOK
  <2>4. CASE ops' = [ops EXCEPT ![o].phase = "failed", ![o].reserved = 0, ![o].live = FALSE]
    <3>1. ops'[o].phase = "failed"
      BY <2>1, <2>4 DEF OpStates, IInv, RowsOK
    <3>. QED
      BY <2>4, <3>1 DEF IInv, RowsOK
  <2>. QED
    BY <2>2, <2>3, <2>4
<1>5. \A f \in Ids : /\ entries'[f].state = entries[f].state /\ entries'[f].path = entries[f].path
                     /\ entries'[f].current = entries[f].current /\ entries'[f].busy # o
                     /\ entries[f].busy # o => entries'[f] = entries[f]
                     /\ entries[f].busy = o => entries'[f].busy = None
  BY <1>3, FreedEntries
<1>6. Leaves(o)
  BY <1>1, <1>3, <1>4, <1>5 DEF Leaves, Released
<1>7. VersionsPlaced' /\ CurrentLives' /\ PathsApart'
  BY <1>1, <1>5, FilesKept
<1>. QED
  BY <1>1, <1>2, <1>4, <1>5, <1>6, <1>7, SettledFits

LEMMA PurgeFits ==
    ASSUME IInv, HoldersWork, Book, CallsFit, NEW p \in Processes, Working(p), Holds(p), Die(p),
           Open(proc[p].op), Purge(proc[p].op), UNCHANGED objs
    PROVE  Book' /\ CallsFit'
<1>. USE Constants
<1>1. PICK o \in Ops : o = proc[p].op
  BY HoldsAlone
<1>2. PICK f \in Ids : f = ops[o].file
  BY <1>1 DEF IInv, PlansFollow, Open
<1>3. PICK gone \in SUBSET Ids : gone = {v \in Ids : Present(o, v) /\ versions[v].state = "live"}
  OBVIOUS
<1>4. /\ Purging(o) /\ Planned(o) /\ entries[f].busy = o /\ Unsettled(o)
      /\ \/ ops[o].kind = "history_purge" /\ entries[f].current \notin gone /\ entries' = Freed(o)
         \/ /\ ops[o].kind # "history_purge"
            /\ entries' = [Freed(o) EXCEPT ![f].state = "purged", ![f].rev = @ + 1]
      /\ versions' = [v \in Ids |->
            IF v \in gone THEN [versions[v] EXCEPT !.state = "purged"] ELSE versions[v]]
      /\ ops' = [ops EXCEPT ![o] = Completed(o)]
      /\ names' = Released(o)
  BY <1>1, <1>2, <1>3 DEF Purge, Unsettled
<1>5. ops'[o].phase = "completed" /\ \A q \in Ops \ {o} : ops'[q] = ops[q]
  <2>1. ops[o] \in OpStates
    BY DEF IInv, RowsOK
  <2>. QED
    BY <1>4, <2>1 DEF Completed, OpStates, IInv, RowsOK
<1>6. \A g \in Ids : /\ entries'[g].path = entries[g].path /\ entries'[g].current = entries[g].current
                     /\ entries'[g].busy # o
                     /\ entries[g].busy # o => entries'[g] = entries[g]
                     /\ entries[g].busy = o => entries'[g].busy = None
                     /\ entries'[g].state = IF g = f /\ ops[o].kind # "history_purge"
                                              THEN "purged" ELSE entries[g].state
  <2>1. CASE ops[o].kind = "history_purge"
    BY <1>4, <2>1, FreedEntries
  <2>2. CASE ops[o].kind # "history_purge"
    <3>1. entries' = [Freed(o) EXCEPT ![f].state = "purged", ![f].rev = @ + 1]
      BY <1>4, <2>2
    <3>2. \A g \in Ids \ {f} : entries'[g] = Freed(o)[g]
      BY <3>1 DEF Freed
    <3>3. Freed(o)[f] \in EntryStates
      <4>1. entries[f] \in EntryStates
        BY DEF IInv, RowsOK
      <4>2. Freed(o)[f] = [entries[f] EXCEPT !.busy = IF @ = o THEN None ELSE @]
        BY DEF Freed
      <4>. QED
        BY <4>1, <4>2 DEF EntryStates
    <3>4. /\ entries'[f].state = "purged" /\ entries'[f].path = Freed(o)[f].path
          /\ entries'[f].current = Freed(o)[f].current /\ entries'[f].busy = Freed(o)[f].busy
      <4>1. entries'[f] = [Freed(o)[f] EXCEPT !.state = "purged", !.rev = @ + 1]
        BY <3>1 DEF Freed
      <4>. QED
        BY <3>3, <4>1 DEF EntryStates
    <3>. QED
      BY <1>4, <2>2, <3>2, <3>4, FreedEntries
  <2>. QED
    BY <2>1, <2>2
<1>7. \A v \in gone : versions[v].state = "live" /\ versions[v].file = f /\ v \in Ids
  BY <1>2, <1>3, <1>4 DEF IInv, PurgesHold
<1>8. \A v \in Ids : /\ versions'[v].file = versions[v].file /\ versions'[v].loc = versions[v].loc
                     /\ v \in gone => versions'[v].state = "purged"
                     /\ v \notin gone => versions'[v] = versions[v]
  <2>1. \A v \in Ids : versions[v] \in VersionStates
    BY DEF IInv, RowsOK
  <2>. QED
    BY <1>4, <2>1 DEF VersionStates
<1>9. Leaves(o)
  BY <1>4, <1>5, <1>6, <1>7, <1>8 DEF Leaves, Released
<1>10. ops[o].kind # "history_purge" =>
          \A v \in Ids : versions[v].state = "live" /\ versions[v].file = f => v \in gone
  <2>1. PurgeShaped(o)
    BY <1>4, ShapeOf
  <2>. QED
    BY <1>2, <1>3, <1>4, <2>1 DEF PurgeShaped, Planned, VersionsOf
<1>11. VersionsPlaced'
  <2>. SUFFICES ASSUME NEW v \in Ids, versions'[v].state = "live" PROVE Placed(v)'
    BY DEF VersionsPlaced
  <2>1. v \notin gone /\ versions[v].state = "live" /\ versions[v].file \in Ids /\ Placed(v)
    BY <1>8, PlaceOf DEF Book, VersionsPlaced
  <2>2. entries'[versions[v].file].state = entries[versions[v].file].state
    BY <1>6, <1>10, <2>1
  <2>. QED
    BY <1>6, <1>8, <2>1, <2>2 DEF Placed
<1>12. CurrentLives'
  <2>. SUFFICES ASSUME NEW g \in Ids, entries'[g].state \in {"active", "trashed"}
                PROVE  versions'[entries'[g].current].state = "live" /\ versions'[entries'[g].current].file = g
    BY DEF CurrentLives
  <2>1. entries[g].state \in {"active", "trashed"} /\ entries'[g].current = entries[g].current
    BY <1>6
  <2>2. /\ versions[entries[g].current].state = "live" /\ versions[entries[g].current].file = g
        /\ entries[g].current \in Ids
    BY <2>1 DEF Book, CurrentLives, IInv, EntriesFilled
  <2>3. entries[g].current \notin gone
    BY <1>4, <1>6, <1>7, <2>2
  <2>. QED
    BY <1>8, <2>1, <2>2, <2>3
<1>13. PathsApart'
  BY <1>6 DEF Book, PathsApart
<1>. QED
  BY <1>1, <1>5, <1>6, <1>9, <1>11, <1>12, <1>13, SettledFits


\* An upload is published and settled at once: the name it reserved is free of
\* other files, and the file, its version and the operation are new.
LEMMA CommitUploadFits ==
    ASSUME IInv, HoldersWork, Book, CallsFit, NEW o \in Ops, proc[o].at = "plan", Holds(o), Open(o),
           CommitUpload(o), Die(o), UNCHANGED objs
    PROVE  Book' /\ CallsFit'
<1>. USE Constants, AddressesApart
<1>1. Working(o) /\ proc[o].op = o /\ Unsettled(o) /\ CallFits(o)
  BY HoldsAlone DEF Working, CallsFit
<1>2. PICK path \in Paths : path = ops[o].path
  BY <1>1, ShapeOf DEF CommitUpload, UserKinds
<1>3. /\ ops[o].kind = "upload" /\ NameFree(o, path, o)
      /\ entries' = [entries EXCEPT ![o] = [state |-> "active", path |-> path,
                        current |-> o, busy |-> None, rev |-> 1]]
      /\ versions' = [versions EXCEPT ![o] = [state |-> "live", file |-> o, loc |-> InFiles(path)]]
      /\ ops' = [ops EXCEPT ![o] = Completed(o)]
      /\ names' = Released(o)
  BY <1>2 DEF CommitUpload
<1>4. versions[o].state = "unborn" /\ entries[o].state = "absent" /\ entries[o].busy = None
  BY DEF IInv, IdsFresh, EntriesFilled, Open
<1>5. ops'[o].phase = "completed" /\ \A q \in Ops \ {o} : ops'[q] = ops[q]
  BY <1>3 DEF Completed, IInv, RowsOK, OpStates
<1>6. /\ entries'[o].state = "active" /\ entries'[o].path = path /\ entries'[o].current = o
      /\ entries'[o].busy = None /\ \A g \in Ids \ {o} : entries'[g] = entries[g]
  BY <1>3 DEF IInv, RowsOK
<1>7. /\ versions'[o].state = "live" /\ versions'[o].file = o /\ versions'[o].loc = InFiles(path)
      /\ \A v \in Ids \ {o} : versions'[v] = versions[v]
  BY <1>3 DEF IInv, RowsOK
<1>8. Touches(o, InFiles(path))
  <2>1. PICK s \in Slots : Present(o, s)
    BY <1>1, <1>3 DEF CallFits, RequestFits, Planned, Purging, SystemKinds
  <2>2. UploadShaped(o)
    BY <1>1, <1>3, ShapeOf
  <2>. QED
    BY <1>2, <2>1, <2>2 DEF UploadShaped, Touches
<1>9. \A n \in Paths : names[n] \notin {None, o} => names'[n] = names[n]
  BY <1>3 DEF Released
<1>10. \A f \in Ids : entries[f].busy # o
  BY <1>3, OwnBookHolds DEF OwnBook
<1>11. Leaves(o)
  <2>1. \A f \in Ids : entries'[f].state = "active" =>
          \/ names[entries'[f].path] \in {None, o}
          \/ entries[f].state = "active" /\ entries'[f].path = entries[f].path
    BY <1>3, <1>6 DEF NameFree
  <2>2. \A v \in Ids : versions'[v] # versions[v] =>
          /\ versions[v].state = "unborn" /\ versions'[v].file \in Ids
          /\ entries[versions'[v].file].busy = None
          /\ Unsettled(o) /\ Touches(o, versions'[v].loc)
    BY <1>1, <1>4, <1>7, <1>8
  <2>3. /\ \A f \in Ids : entries[f].busy \notin {None, o} => entries'[f] = entries[f]
        /\ \A f \in Ids, q \in Ops \ {o} : entries'[f].busy = q => entries[f].busy = q
    BY <1>4, <1>6
  <2>. QED
    BY <1>5, <1>9, <2>1, <2>2, <2>3 DEF Leaves
<1>12. VersionsPlaced'
  <2>. SUFFICES ASSUME NEW v \in Ids, versions'[v].state = "live" PROVE Placed(v)'
    BY DEF VersionsPlaced
  <2>1. CASE v = o
    BY <1>6, <1>7, <2>1 DEF Placed
  <2>2. CASE v # o
    <3>1. versions[v].state = "live" /\ Placed(v)
      BY <1>7, <2>2 DEF Book, VersionsPlaced
    <3>2. versions[v].file \in Ids \ {o}
      BY <1>4, <3>1 DEF Placed, IInv, VersionsFiled
    <3>. QED
      BY <1>6, <1>7, <2>2, <3>1, <3>2 DEF Placed
  <2>. QED
    BY <2>1, <2>2
<1>13. CurrentLives'
  <2>. SUFFICES ASSUME NEW g \in Ids, entries'[g].state \in {"active", "trashed"}
                PROVE  versions'[entries'[g].current].state = "live" /\ versions'[entries'[g].current].file = g
    BY DEF CurrentLives
  <2>1. CASE g = o
    BY <1>6, <1>7, <2>1
  <2>2. CASE g # o
    <3>1. /\ entries'[g] = entries[g] /\ versions[entries[g].current].state = "live"
          /\ versions[entries[g].current].file = g /\ entries[g].current \in Ids
      BY <1>6, <2>2 DEF Book, CurrentLives, IInv, EntriesFilled
    <3>. QED
      BY <1>4, <1>7, <3>1
  <2>. QED
    BY <2>1, <2>2
<1>14. PathsApart'
  BY <1>3, <1>6 DEF NameFree, Book, PathsApart
<1>15. \A f \in Ids : entries'[f].busy # o
  BY <1>6, <1>10
<1>. QED
  BY <1>1, <1>5, <1>11, <1>12, <1>13, <1>14, <1>15, SettledFits

\* A file keeps its addresses with the operation that is busy with it.
LEMMA OwnedStays ==
    ASSUME IInv, NEW o \in Ops, NEW f \in Ids, UNCHANGED names, entries'[f].busy = o,
           \A g \in Ids \ {f} : entries'[g] = entries[g],
           \A v \in Ids : versions[v].state # "unborn" =>
              versions'[v].state # "unborn" /\ versions'[v].file = versions[v].file,
           NEW l, Owned(o, l)
    PROVE  Owned(o, l)'
<1>. USE Constants
<1>1. CASE \E q \in Paths : /\ l = InFiles(q) /\ names[q] = o
                            /\ \A g \in Ids : entries[g].state = "active" /\ entries[g].path = q
                                  => entries[g].busy = o
  <2>1. PICK q \in Paths : /\ l = InFiles(q) /\ names[q] = o
                           /\ \A g \in Ids : entries[g].state = "active" /\ entries[g].path = q
                                 => entries[g].busy = o
    BY <1>1
  <2>2. \A g \in Ids : entries'[g].state = "active" /\ entries'[g].path = q => entries'[g].busy = o
    BY <2>1
  <2>. QED
    BY <2>1, <2>2 DEF Owned
<1>2. CASE \E v \in Ids : /\ l \in {InHistory(v), InTrash(v)} /\ versions[v].state # "unborn"
                          /\ entries[versions[v].file].busy = o
  <2>1. PICK v \in Ids : /\ l \in {InHistory(v), InTrash(v)} /\ versions[v].state # "unborn"
                         /\ entries[versions[v].file].busy = o
    BY <1>2
  <2>2. entries'[versions[v].file].busy = o
    BY <2>1 DEF IInv, VersionsFiled
  <2>. QED
    BY <2>1, <2>2 DEF Owned
<1>3. CASE l = InStaging(o)
  BY <1>3 DEF Owned
<1>. QED
  BY <1>1, <1>2, <1>3 DEF Owned

\* Publication leaves the plan as it is; what is checked anew is its shape
\* and the place of the versions.
LEMMA PublishedFits ==
    ASSUME IInv, HoldersWork, Book, CallsFit, NEW o \in Ops, proc[o].at = "plan", Holds(o), Open(o),
           Publish(o), UNCHANGED <<names, objs, proc>>,
           NEW f \in Ids, f = ops[o].file, entries[f].busy = o, entries'[f].busy = o,
           \A g \in Ids \ {f} : entries'[g] = entries[g],
           entries'[f].state = "active" =>
              \/ names[entries'[f].path] \in {None, o}
              \/ entries[f].state = "active" /\ entries'[f].path = entries[f].path,
           \A v \in Ids : versions[v].state # "unborn" =>
              versions'[v].state # "unborn" /\ versions'[v].file = versions[v].file,
           \A v \in Ids : versions'[v] # versions[v] =>
              /\ versions[v].state = "unborn" \/ versions[v].file = f
              /\ versions'[v].file = f /\ Touches(o, versions'[v].loc),
           Shaped(o)', VersionsPlaced', CurrentLives', PathsApart'
    PROVE  Book' /\ CallsFit'
<1>. USE Constants
<1>1. Working(o) /\ proc[o].op = o /\ Unsettled(o) /\ ops[o].token = o
  BY HoldsAlone DEF Working
<1>2. /\ ops'[o].phase = "committed" /\ ops'[o].kind = ops[o].kind /\ ops'[o].file = f
      /\ \A q \in Ops \ {o} : ops'[q] = ops[q]
  BY DEF Publish, IInv, RowsOK, OpStates
<1>3. Unsettled(o)' /\ ~Open(o)'
  BY <1>2 DEF Unsettled, Open, Committed
<1>4. Leaves(o)
  BY <1>1, <1>2 DEF Leaves
<1>5. \A s \in Slots : ~objs'[o][s].restored
  BY <1>1, OwnBookHolds DEF OwnBook
<1>6. ASSUME NEW l \in Locations, Touches(o, l)' PROVE Owned(o, l)'
  <2>1. Owned(o, l)
    BY <1>1, <1>6 DEF Touches, Book, PlansOwned
  <2>. QED
    BY <2>1, OwnedStays
<1>7. \A g \in Ids : entries'[g].busy = o => Unsettled(o)' /\ ops'[o].file = g /\ ops'[o].kind # "upload"
  BY <1>2, <1>3, OwnBookHolds DEF OwnBook
<1>8. ops[o].kind # "none"
  BY <1>1 DEF Book, PlansShaped
<1>9. OwnBook(o)'
  BY <1>2, <1>3, <1>5, <1>6, <1>7, <1>8 DEF OwnBook, Clear
<1>10. Book'
  BY <1>4, <1>9, BookStep
<1>11. CallFits(o)'
  BY <1>3 DEF CallFits, RequestFits
<1>. QED
  BY <1>1, <1>4, <1>10, <1>11, RecordCallsStep


\* The new version of an overwrite takes the address of the old one, whose
\* archive becomes its history.
LEMMA CommitOverwriteFits ==
    ASSUME IInv, HoldersWork, Book, CallsFit, NEW o \in Ops, proc[o].at = "plan", Holds(o), Open(o),
           Prepared(o), CommitOverwrite(o), UNCHANGED <<objs, lock, proc>>
    PROVE  Book' /\ CallsFit'
<1>. USE Constants, AddressesApart
<1>1. proc[o].op = o /\ Unsettled(o)
  BY HoldsAlone DEF Working
<1>2. OverwriteShaped(o) /\ ops[o].kind = "overwrite" /\ Present(o, "replacement")
  BY <1>1, ShapeOf DEF CommitOverwrite
<1>3. PICK f \in Ids, old \in Ids, path \in Paths :
         f = ops[o].file /\ old = entries[f].current /\ path = entries[f].path
  <2>1. ops[o].file \in Ids /\ entries[ops[o].file].busy = o
    BY <1>1, ShapeOf DEF CommitOverwrite
  <2>. QED
    BY <2>1, HeldFile
<1>4. /\ entries[f].busy = o /\ objs[o][old].dst = InHistory(old)
      /\ versions' = [versions EXCEPT ![old].loc = InHistory(old),
            ![o] = [state |-> "live", file |-> f, loc |-> InFiles(path)]]
      /\ entries' = [entries EXCEPT ![f].current = o, ![f].rev = @ + 1]
      /\ Publish(o) /\ UNCHANGED names
  BY <1>3 DEF CommitOverwrite
<1>5. versions[o].state = "unborn" /\ entries[o].state = "absent"
  BY DEF IInv, IdsFresh, Open
<1>6. Present(o, old) /\ ArchiveShaped(o, old)
  BY <1>2, <1>4 DEF IInv, PlansFollow, Blank, OverwriteShaped
<1>7. /\ Held(o, old) /\ old # o /\ entries[f].state = "active"
      /\ versions[old].state = "live" /\ versions[old].file = f
  BY <1>3, <1>6 DEF ArchiveShaped, Held
<1>8. \A v \in Ids : Present(o, v) => v = old
  BY <1>2, <1>3 DEF OverwriteShaped, ArchiveShaped
<1>9. /\ entries'[f].state = "active" /\ entries'[f].path = path /\ entries'[f].current = o
      /\ entries'[f].busy = o /\ \A g \in Ids \ {f} : entries'[g] = entries[g]
  <2>1. entries[f] \in EntryStates /\ entries'[f] = [entries[f] EXCEPT !.current = o, !.rev = @ + 1]
    BY <1>4 DEF IInv, RowsOK
  <2>2. \A g \in Ids \ {f} : entries'[g] = entries[g]
    BY <1>4 DEF IInv, RowsOK
  <2>3. ASSUME NEW e \in EntryStates
        PROVE  LET y == [e EXCEPT !.current = o, !.rev = @ + 1]
               IN  y.state = e.state /\ y.path = e.path /\ y.current = o /\ y.busy = e.busy
    BY DEF EntryStates
  <2>4. /\ entries'[f].state = entries[f].state /\ entries'[f].path = entries[f].path
        /\ entries'[f].current = o /\ entries'[f].busy = entries[f].busy
    BY <2>1, <2>3
  <2>. QED
    BY <1>3, <1>4, <1>7, <2>2, <2>4
<1>10. /\ versions'[o].state = "live" /\ versions'[o].file = f /\ versions'[o].loc = InFiles(path)
       /\ versions'[old].state = "live" /\ versions'[old].file = f /\ versions'[old].loc = InHistory(old)
       /\ \A v \in Ids \ {o, old} : versions'[v] = versions[v]
  <2>1. versions[old] \in VersionStates
    BY DEF IInv, RowsOK
  <2>2. versions'[old] = [versions[old] EXCEPT !.loc = InHistory(old)]
    BY <1>4, <1>7 DEF IInv, RowsOK
  <2>3. versions'[o] = [state |-> "live", file |-> f, loc |-> InFiles(path)]
        /\ \A v \in Ids \ {o, old} : versions'[v] = versions[v]
    BY <1>4, <1>7 DEF IInv, RowsOK
  <2>. QED
    BY <1>7, <2>1, <2>2, <2>3 DEF VersionStates
<1>11. Touches(o, InFiles(path)) /\ Touches(o, InHistory(old))
  BY <1>2, <1>3, <1>4 DEF Touches, OverwriteShaped, ReplacementShaped
<1>12. /\ Committed(o)' /\ ~Open(o)' /\ ops'[o].kind = "overwrite" /\ ops'[o].file = f
       /\ \A s \in Slots : Present(o, s)' = Present(o, s)
  BY <1>2, <1>3, <1>4 DEF Publish, Committed, Open, Present, IInv, RowsOK, OpStates
<1>13. OverwriteShaped(o)'
  <2>1. StagingShaped(o)'
    BY <1>2, <1>12 DEF OverwriteShaped, StagingShaped
  <2>2. ReplacementShaped(o)'
    <3>1. ReplacementShaped(o)
      BY <1>2 DEF OverwriteShaped
    <3>. QED
      BY <1>3, <1>9, <1>12, <3>1 DEF ReplacementShaped
  <2>3. ASSUME NEW v \in Ids PROVE ArchiveShaped(o, v)'
    <3>1. SUFFICES ASSUME Present(o, v) PROVE ArchiveShaped(o, v)'
      BY <1>12 DEF ArchiveShaped
    <3>2. v = old
      BY <1>8, <3>1
    <3>3. Held(o, v)'
      BY <1>7, <1>9, <1>10, <1>12, <3>2 DEF Held
    <3>. QED
      <4>1. LET x == objs'[o][old]
            IN  /\ x.src = InFiles(path) /\ x.dst = InHistory(old)
                /\ x.srcGone => x.started
                /\ x.started => x.prepared
        BY <1>3, <1>6 DEF ArchiveShaped
      <4>2. v # entries'[ops'[o].file].current /\ ~Open(o)' /\ v # o
        BY <1>7, <1>9, <1>12, <3>2
      <4>. QED
        BY <1>9, <1>12, <3>2, <3>3, <4>1, <4>2 DEF ArchiveShaped
  <2>4. objs[o]["replacement"].prepared
    <3>1. objs[o]["replacement"].dst = InFiles(path)
      BY <1>2, <1>3 DEF OverwriteShaped, ReplacementShaped
    <3>. QED
      BY <3>1 DEF Prepared, Slots
  <2>. QED
    BY <1>2, <1>6, <1>12, <2>1, <2>2, <2>3, <2>4 DEF OverwriteShaped, Planned
<1>14. Shaped(o)'
  BY <1>12, <1>13 DEF Shaped, Purging, SystemKinds
<1>15. VersionsPlaced'
  <2>. SUFFICES ASSUME NEW v \in Ids, versions'[v].state = "live" PROVE Placed(v)'
    BY DEF VersionsPlaced
  <2>1. CASE v \in {o, old}
    BY <1>7, <1>9, <1>10, <2>1 DEF Placed
  <2>2. CASE v \notin {o, old}
    <3>1. versions'[v] = versions[v] /\ versions[v].state = "live" /\ versions[v].file \in Ids /\ Placed(v)
      BY <1>10, <2>2, PlaceOf DEF Book, VersionsPlaced
    <3>2. CASE versions[v].file = f
      BY <1>3, <1>9, <2>2, <3>1, <3>2 DEF Placed
    <3>3. CASE versions[v].file # f
      BY <1>9, <3>1, <3>3 DEF Placed
    <3>. QED
      BY <3>2, <3>3
  <2>. QED
    BY <2>1, <2>2
<1>16. CurrentLives'
  <2>. SUFFICES ASSUME NEW g \in Ids, entries'[g].state \in {"active", "trashed"}
                PROVE  versions'[entries'[g].current].state = "live" /\ versions'[entries'[g].current].file = g
    BY DEF CurrentLives
  <2>1. CASE g = f
    BY <1>9, <1>10, <2>1
  <2>2. CASE g # f
    <3>1. /\ entries'[g] = entries[g] /\ versions[entries[g].current].state = "live"
          /\ versions[entries[g].current].file = g /\ entries[g].current \in Ids
      BY <1>9, <2>2 DEF Book, CurrentLives, IInv, EntriesFilled
    <3>. QED
      BY <1>5, <1>7, <1>10, <2>2, <3>1
  <2>. QED
    BY <2>1, <2>2
<1>17. PathsApart'
  BY <1>3, <1>7, <1>9 DEF Book, PathsApart
<1>18. \A v \in Ids : versions[v].state # "unborn" =>
          versions'[v].state # "unborn" /\ versions'[v].file = versions[v].file
  BY <1>5, <1>7, <1>10
<1>19. \A v \in Ids : versions'[v] # versions[v] =>
          /\ versions[v].state = "unborn" \/ versions[v].file = f
          /\ versions'[v].file = f /\ Touches(o, versions'[v].loc)
  BY <1>5, <1>7, <1>10, <1>11
<1>20. /\ Publish(o) /\ UNCHANGED <<names, objs, proc>> /\ f = ops[o].file
       /\ entries[f].busy = o /\ entries'[f].busy = o /\ \A g \in Ids \ {f} : entries'[g] = entries[g]
       /\ entries[f].state = "active" /\ entries'[f].path = entries[f].path
  BY <1>3, <1>4, <1>7, <1>9
<1>. QED
  BY <1>14, <1>15, <1>16, <1>17, <1>18, <1>19, <1>20, PublishedFits

\* A file that is moved, trashed or restored goes to the target of its plan,
\* which nobody else has.
LEMMA CommitRelocationFits ==
    ASSUME IInv, HoldersWork, Book, CallsFit, NEW o \in Ops, proc[o].at = "plan", Holds(o), Open(o),
           CommitRelocation(o), UNCHANGED <<objs, lock, proc>>
    PROVE  Book' /\ CallsFit'
<1>. USE Constants, AddressesApart
<1>1. proc[o].op = o /\ Unsettled(o) /\ CallFits(o)
  BY HoldsAlone DEF Working, CallsFit
<1>2. /\ ops[o].kind \in {"move", "trash", "restore"} /\ ~Purging(o) /\ RelocationShaped(o)
      /\ ops[o].file \in Ids /\ ops[o].path \in Paths /\ entries[ops[o].file].busy = o
  BY <1>1, ShapeOf DEF CommitRelocation, Purging, SystemKinds, UserKinds
<1>3. PICK f \in Ids, v \in Ids, home \in Paths, path \in Paths :
         f = ops[o].file /\ v = entries[f].current /\ home = entries[f].path /\ path = ops[o].path
  BY <1>2, HeldFile
<1>4. PICK trash \in BOOLEAN : trash <=> ops[o].kind = "trash"
  OBVIOUS
<1>5. PICK there \in Locations, name \in Paths, state \in {"active", "trashed"} :
         /\ there = IF trash THEN InTrash(v) ELSE InFiles(path)
         /\ name = IF trash THEN home ELSE path
         /\ state = IF trash THEN "trashed" ELSE "active"
  BY Addresses
<1>6. Present(o, v) /\ \A s \in Slots : Present(o, s) => s = v
  <2>1. PICK s \in Slots : Present(o, s)
    BY <1>1, <1>2 DEF CallFits, RequestFits, Planned
  <2>. QED
    BY <1>2, <1>3, <2>1 DEF RelocationShaped
<1>7. /\ Held(o, v) /\ objs[o][v].dst = there /\ objs[o][v].src # None
      /\ objs[o][v].src # objs[o][v].dst /\ \A u \in Ids : objs[o][v].src # InHistory(u)
      /\ ~objs[o][v].started
  BY <1>2, <1>3, <1>4, <1>5, <1>6 DEF RelocationShaped
<1>8. /\ entries[f].busy = o
      /\ entries' = [entries EXCEPT ![f].rev = @ + 1, ![f].state = state, ![f].path = name]
      /\ versions' = [versions EXCEPT ![v].loc = there]
      /\ Publish(o) /\ UNCHANGED names
  <2>1. CASE trash
    BY <1>3, <1>4, <1>5, <1>7, <2>1 DEF CommitRelocation, IInv, RowsOK
  <2>2. CASE ~trash
    BY <1>3, <1>4, <1>5, <1>7, <2>2 DEF CommitRelocation, IInv, RowsOK
  <2>. QED
    BY <2>1, <2>2
<1>9. /\ entries'[f].state = state /\ entries'[f].path = name /\ entries'[f].current = v
      /\ entries'[f].busy = o /\ \A g \in Ids \ {f} : entries'[g] = entries[g]
  <2>1. /\ entries[f] \in EntryStates
        /\ entries'[f] = [entries[f] EXCEPT !.rev = @ + 1, !.state = state, !.path = name]
    BY <1>8 DEF IInv, RowsOK
  <2>2. \A g \in Ids \ {f} : entries'[g] = entries[g]
    BY <1>8 DEF IInv, RowsOK
  <2>3. ASSUME NEW e \in EntryStates
        PROVE  LET y == [e EXCEPT !.rev = @ + 1, !.state = state, !.path = name]
               IN  y.state = state /\ y.path = name /\ y.current = e.current /\ y.busy = e.busy
    BY DEF EntryStates
  <2>4. /\ entries'[f].state = state /\ entries'[f].path = name
        /\ entries'[f].current = entries[f].current /\ entries'[f].busy = entries[f].busy
    BY <2>1, <2>3
  <2>. QED
    BY <1>3, <1>8, <2>2, <2>4
<1>10. /\ versions'[v].state = versions[v].state /\ versions'[v].file = versions[v].file
       /\ versions'[v].loc = there /\ \A u \in Ids \ {v} : versions'[u] = versions[u]
  <2>1. versions[v] \in VersionStates
    BY DEF IInv, RowsOK
  <2>2. versions'[v] = [versions[v] EXCEPT !.loc = there] /\ \A u \in Ids \ {v} : versions'[u] = versions[u]
    BY <1>8 DEF IInv, RowsOK
  <2>. QED
    BY <2>1, <2>2 DEF VersionStates
<1>11. versions[v].state = "live" /\ versions[v].file = f
  BY <1>3, <1>7 DEF Held
<1>12. /\ Committed(o)' /\ ~Open(o)' /\ ops'[o].kind = ops[o].kind /\ ops'[o].file = f
       /\ ops'[o].path = path /\ \A s \in Slots : Present(o, s)' = Present(o, s)
  BY <1>3, <1>8 DEF Publish, Committed, Open, Present, IInv, RowsOK, OpStates
<1>13. Touches(o, there)
  BY <1>7 DEF Touches
<1>14. ~trash => names[path] = o /\ \A g \in Ids : entries[g].state = "active" /\ entries[g].path = path => g = f
  <2>. SUFFICES ASSUME ~trash
                PROVE  names[path] = o /\ \A g \in Ids : entries[g].state = "active" /\ entries[g].path = path => g = f
    OBVIOUS
  <2>1. Owned(o, InFiles(path))
    BY <1>1, <1>5, <1>13 DEF Book, PlansOwned
  <2>2. names[path] = o
        /\ \A g \in Ids : entries[g].state = "active" /\ entries[g].path = path => entries[g].busy = o
    BY <2>1 DEF Owned
  <2>. QED
    BY <1>3, <2>2, OwnBookHolds DEF OwnBook
<1>15. Shaped(o)'
  <2>1. Held(o, v)'
    BY <1>7, <1>9, <1>10, <1>11, <1>12 DEF Held
  <2>2. ops'[o].kind = "trash" <=> trash
    BY <1>4, <1>12
  <2>3. RelocationShaped(o)'
    BY <1>5, <1>6, <1>7, <1>9, <1>10, <1>12, <2>1, <2>2 DEF RelocationShaped
  <2>. QED
    BY <1>2, <1>12, <2>3 DEF Shaped, Purging, SystemKinds
<1>16. VersionsPlaced'
  <2>. SUFFICES ASSUME NEW u \in Ids, versions'[u].state = "live" PROVE Placed(u)'
    BY DEF VersionsPlaced
  <2>1. CASE u = v
    BY <1>5, <1>9, <1>10, <1>11, <2>1 DEF Placed
  <2>2. CASE u # v
    <3>1. versions'[u] = versions[u] /\ versions[u].state = "live" /\ versions[u].file \in Ids /\ Placed(u)
      BY <1>10, <2>2, PlaceOf DEF Book, VersionsPlaced
    <3>2. CASE versions[u].file = f
      BY <1>3, <1>9, <2>2, <3>1, <3>2 DEF Placed
    <3>3. CASE versions[u].file # f
      BY <1>9, <3>1, <3>3 DEF Placed
    <3>. QED
      BY <3>2, <3>3
  <2>. QED
    BY <2>1, <2>2
<1>17. CurrentLives'
  <2>. SUFFICES ASSUME NEW g \in Ids, entries'[g].state \in {"active", "trashed"}
                PROVE  versions'[entries'[g].current].state = "live" /\ versions'[entries'[g].current].file = g
    BY DEF CurrentLives
  <2>1. CASE g = f
    BY <1>9, <1>10, <1>11, <2>1
  <2>2. CASE g # f
    <3>1. /\ entries'[g] = entries[g] /\ versions[entries[g].current].state = "live"
          /\ versions[entries[g].current].file = g /\ entries[g].current \in Ids
      BY <1>9, <2>2 DEF Book, CurrentLives, IInv, EntriesFilled
    <3>. QED
      BY <1>10, <1>11, <2>2, <3>1
  <2>. QED
    BY <2>1, <2>2
<1>18. PathsApart'
  <2>1. \A g \in Ids \ {f} : ~trash => ~(entries[g].state = "active" /\ entries[g].path = path)
    BY <1>14
  <2>2. entries'[f].state = "active" => ~trash /\ entries'[f].path = path
    BY <1>5, <1>9
  <2>. QED
    BY <1>9, <2>1, <2>2 DEF Book, PathsApart
<1>19. entries'[f].state = "active" => names[entries'[f].path] = o
  BY <1>5, <1>9, <1>14
<1>20. \A u \in Ids : versions[u].state # "unborn" =>
          versions'[u].state # "unborn" /\ versions'[u].file = versions[u].file
  BY <1>10
<1>21. \A u \in Ids : versions'[u] # versions[u] =>
          /\ versions[u].state = "unborn" \/ versions[u].file = f
          /\ versions'[u].file = f /\ Touches(o, versions'[u].loc)
  BY <1>10, <1>11, <1>13
<1>. QED
  BY <1>3, <1>8, <1>9, <1>15, <1>16, <1>17, <1>18, <1>19, <1>20, <1>21, PublishedFits

LEMMA CommitFits ==
    ASSUME IInv, HoldersWork, Book, CallsFit, NEW o \in Ops, Commit(o)
    PROVE  Book' /\ CallsFit'
<1>. USE Constants
<1>1. proc[o].at = "plan" /\ Holds(o) /\ Open(o) /\ Prepared(o) /\ UNCHANGED objs
  BY DEF Commit
<1>2. Working(o) /\ proc[o].op = o
  BY <1>1, HoldsAlone DEF Working
<1>. QED
  BY <1>1, <1>2, CommitUploadFits, PurgeFits, CommitOverwriteFits, CommitRelocationFits DEF Commit

LEMMA PurgeByJobFits ==
    ASSUME IInv, HoldersWork, Book, CallsFit, NEW w \in Workers, PurgeByJob(w)
    PROVE  Book' /\ CallsFit'
<1>. USE Constants
<1>1. Working(w)
  BY DEF PurgeByJob, Working
<1>. QED
  BY <1>1, PurgeFits DEF PurgeByJob


-----------------------------------------------------------------------------
(* Theorems *)

LEMMA CallsBegin == Init => Book /\ CallsFit
<1>. SUFFICES ASSUME Init PROVE Book /\ CallsFit
  OBVIOUS
<1>. USE Constants, BlankRows
<1>1. /\ \A f \in Ids : /\ entries[f].busy = None
                        /\ entries[f].state \in {"active", "trashed"} =>
                              f = First /\ entries[f].state = "active" /\ entries[f].current = First
                              /\ entries[f].path = Home
      /\ entries[First].state = "active" /\ entries[First].current = First /\ entries[First].path = Home
  BY DEF Init, NoEntry
<1>2. \A v \in Ids : versions[v].state = "live" =>
         v = First /\ versions[v].file = First /\ versions[v].loc = InFiles(Home)
  BY DEF Init, NoVersion
<1>3. versions[First].state = "live" /\ versions[First].file = First
  BY DEF Init
<1>4. \A o \in Ops : ~Unsettled(o)
  BY DEF Init, NoOp, Unsettled, Open, Committed
<1>5. \A o \in Ops, s \in Slots : ~objs[o][s].restored
  BY DEF Init, NoObject
<1>6. PlansOwned /\ PlansShaped /\ RestoredClear
  BY <1>4 DEF PlansOwned, PlansShaped, RestoredClear
<1>7. VersionsPlaced /\ CurrentLives /\ PathsApart
  BY <1>1, <1>2, <1>3 DEF VersionsPlaced, Placed, CurrentLives, PathsApart
<1>8. BusyHeld /\ RequestFirst
  BY <1>1, <1>5 DEF BusyHeld, RequestFirst
<1>9. CallsFit
  BY DEF Init, Idle, CallsFit, Active, Calling, Working
<1>. QED
  BY <1>6, <1>7, <1>8, <1>9 DEF Book

LEMMA StepFits == IInv /\ HoldersWork /\ Book /\ CallsFit /\ [Next]_vars => Book' /\ CallsFit'
<1>. SUFFICES ASSUME IInv, HoldersWork, Book, CallsFit, [Next]_vars PROVE Book' /\ CallsFit'
  OBVIOUS
<1>. USE Constants
<1>1. CASE UNCHANGED vars
  BY <1>1, TimeFits
<1>2. ASSUME NEW p \in Processes, Advance(p) PROVE Book' /\ CallsFit'
  BY <1>2, IssueDropFits, ReturningFits, RecordDropFits, EndsFit, StoppingFits DEF Advance
<1>3. ASSUME NEW o \in Ops, Request(o) \/ Refuse(o) \/ ServeRequest(o) \/ Lapse(o) \/ Deadline(o)
      PROVE  Book' /\ CallsFit'
  <2>1. CASE ServeRequest(o)
    <3>1. CASE (\E s \in Slots : IssueMake(o, s)) \/ Prepare(o) \/ Intend(o) \/ Commit(o)
      BY <3>1, IssueMakeFits, PrepareFits, IntendFits, CommitFits
    <3>2. CASE Make(o) \/ RecordMade(o)
      BY <3>2, ReturningFits, RecordMadeFits
    <3>. QED
      BY <1>2, <2>1, <3>1, <3>2 DEF ServeRequest
  <2>2. CASE Request(o)
    BY <2>2, RequestsFit
  <2>3. CASE Refuse(o)
    BY <2>3, StoppingFits
  <2>4. CASE Lapse(o) \/ Deadline(o)
    BY <2>4, TimeFits
  <2>. QED
    BY <1>3, <2>1, <2>2, <2>3, <2>4
<1>4. ASSUME NEW w \in Workers, ServeJob(w) PROVE Book' /\ CallsFit'
  BY <1>2, <1>4, IssueRestoreFits, ReturningFits, RecordRestoredFits, EndsFit, PurgeByJobFits
     DEF ServeJob
<1>5. ASSUME NEW w \in Workers, NEW o \in Ops,
             \/ Claim(w, o)
             \/ \E v \in Ids : EnlistHistory(w, o, v)
             \/ \E f \in Ids : EnlistTrash(w, o, f)
      PROVE  Book' /\ CallsFit'
  BY <1>5, ClaimFits, EnlistingFits
<1>6. ASSUME NEW v \in Ids, Refer(v) \/ Unrefer(v) PROVE Book' /\ CallsFit'
  BY <1>6, TimeFits
<1>7. CASE Mishap
  BY <1>7, StoppingFits, TimeFits DEF Mishap
<1>. QED
  BY <1>1, <1>3, <1>4, <1>5, <1>6, <1>7 DEF Next

\* The plans of unsettled operations keep to addresses of their own, and the
\* executors to the plans (file-objects.ts, file-lifecycle.ts,
\* file-maintenance.ts).
THEOREM CallsFitPlans == Spec => [](Book /\ CallsFit)
<1>1. Init => IInv /\ HoldersWork /\ Book /\ CallsFit
  BY InitHolds, LocksBegin, CallsBegin
<1>2. IInv /\ HoldersWork /\ Book /\ CallsFit /\ [Next]_vars => (IInv /\ HoldersWork /\ Book /\ CallsFit)'
  BY StepHolds, LocksHold, StepFits
<1>. QED
  BY <1>1, <1>2, PTL DEF Spec

\* The physical lock and the lease leave an operation at most one executor
\* that still acts on it, whichever of the two is lost on the way
\* (file-write-executor.ts, file-maintenance.ts).
OneExecutor ==
    \A p, q \in Processes : Active(p) /\ Active(q) /\ p # q => proc[p].op # proc[q].op
THEOREM ExecutorsApart == Spec => []OneExecutor
<1>1. Init => HoldersWork
  BY LocksBegin
<1>2. IInv /\ HoldersWork /\ [Next]_vars => HoldersWork'
  BY LocksHold
<1>3. IInv /\ HoldersWork => OneExecutor
  BY ActiveApart DEF OneExecutor
<1>. QED
  BY <1>1, <1>2, <1>3, InvariantHolds, PTL DEF Spec

\* What a call reads or writes is in the plan of its operation.
LEMMA CallsTouch ==
    ASSUME IInv, HoldersWork, Book, CallsFit, NEW p \in Processes, NEW l \in Writes(p) \cup Reads(p)
    PROVE  /\ Active(p) /\ proc[p].op \in Ops /\ Unsettled(proc[p].op)
           /\ l \in Locations /\ Touches(proc[p].op, l)
<1>. USE Constants, Addresses
<1>1. Calling(p)
  BY DEF Writes, Reads, Calling
<1>2. PICK o \in Ops : o = proc[p].op /\ Unsettled(o)
  BY <1>1, ActiveHolds DEF Active, Holder
<1>3. Active(p) /\ CallFits(p)
  BY <1>1 DEF Active, CallsFit
<1>4. CASE proc[p].at = "drop"
  <2>1. l = proc[p].loc
    BY <1>1, <1>4 DEF Writes, Reads
  <2>. QED
    BY <1>2, <1>3, <1>4, <2>1 DEF CallFits, DropFits
<1>5. CASE proc[p].at \in {"make", "restore"}
  <2>1. PICK s \in Slots : s = proc[p].slot
    BY <1>5 DEF IInv, ExecutorsPlaced, PlacedAs
  <2>2. objs[o][s] \in ObjectStates
    BY DEF IInv, RowsOK
  <2>3. l = objs[o][s].src \/ l = objs[o][s].dst
    BY <1>1, <1>2, <1>5, <2>1 DEF Writes, Reads
  <2>4. l # None
    <3>1. CASE proc[p].at = "make"
      <4>1. objs[o][s].dst # None
        BY <1>2, <1>3, <2>1, <3>1 DEF CallFits, MakeFits
      <4>. QED
        BY <1>1, <1>2, <2>1, <3>1, <4>1 DEF Writes, Reads
    <3>2. CASE proc[p].at = "restore"
      <4>1. objs[o][s].started
        BY <1>2, <1>3, <2>1, <3>2 DEF CallFits, RestoreFits
      <4>2. objs[o][s].src # None /\ objs[o][s].dst # None
        BY <1>2, <4>1, StartedShape, AddressesApart
      <4>. QED
        BY <2>3, <4>2
    <3>. QED
      BY <1>5, <3>1, <3>2
  <2>5. l \in Locations
    BY <2>2, <2>3, <2>4 DEF ObjectStates
  <2>. QED
    BY <1>2, <1>3, <2>3, <2>5 DEF Touches
<1>. QED
  BY <1>1, <1>4, <1>5 DEF Calling

\* Two executors are never inside storage calls that meet at an address one of
\* them writes: an operation has one executor inside its calls, and its plan
\* addresses that no other unsettled operation has (file-objects.ts,
\* file-lifecycle.ts).
THEOREM CallsKeptApart == Spec => []CallsApart
<1>1. IInv /\ HoldersWork /\ Book /\ CallsFit => CallsApart
  <2>. SUFFICES ASSUME IInv, HoldersWork, Book, CallsFit, NEW p \in Processes, NEW q \in Processes, p # q,
                       NEW l \in Writes(p), l \in Writes(q) \cup Reads(q)
                PROVE  FALSE
    BY DEF CallsApart
  <2>1. /\ Active(p) /\ proc[p].op \in Ops /\ Unsettled(proc[p].op)
        /\ l \in Locations /\ Touches(proc[p].op, l)
    BY CallsTouch
  <2>2. /\ Active(q) /\ proc[q].op \in Ops /\ Unsettled(proc[q].op) /\ Touches(proc[q].op, l)
    BY CallsTouch
  <2>3. Owned(proc[p].op, l) /\ Owned(proc[q].op, l)
    BY <2>1, <2>2 DEF Book, PlansOwned
  <2>4. proc[p].op = proc[q].op
    BY <2>1, <2>2, <2>3, OwnedApart
  <2>. QED
    BY <2>1, <2>2, <2>4, ActiveApart
<1>2. Init => HoldersWork
  BY LocksBegin
<1>3. IInv /\ HoldersWork /\ [Next]_vars => HoldersWork'
  BY LocksHold
<1>. QED
  BY <1>1, <1>2, <1>3, InvariantHolds, CallsFitPlans, PTL DEF Spec

-----------------------------------------------------------------------------
(* FileWrites implements FileLibrary *)

\* What an operation was asked to do still fits the file it is busy with: its
\* commit relies on the state and the revision its preparation had read.
HeldAsRead ==
    \A o \in Ops, f \in Ids : Open(o) /\ entries[f].busy = o =>
        /\ ops[o].kind \in {"move", "trash"} => entries[f].state = "active"
        /\ ops[o].kind \in {"restore", "purge", "trash_purge"} => entries[f].state = "trashed"
        /\ ops[o].kind = "purge" => entries[f].rev = ops[o].rev

\* What members see of files, copies and operations.
FileSeen(f) ==
    /\ entries'[f].state = entries[f].state /\ entries'[f].path = entries[f].path
    /\ entries'[f].current = entries[f].current /\ entries'[f].rev = entries[f].rev
VersionSeen(v) == versions'[v].state = versions[v].state /\ versions'[v].file = versions[v].file
AskedSeen(o) ==
    /\ ops'[o].kind = ops[o].kind /\ ops'[o].file = ops[o].file
    /\ ops'[o].path = ops[o].path /\ ops'[o].rev = ops[o].rev
Tells == HeldAsRead' /\ [Library!Next]_(Library!vars)

\* The rows as FileLibrary sees them.
LEMMA SeenFiles ==
    /\ DOMAIN Files = Ids /\ DOMAIN Files' = Ids
    /\ \A f \in Ids : Files[f] = [state |-> entries[f].state, path |-> entries[f].path,
                                  current |-> entries[f].current, rev |-> entries[f].rev]
    /\ \A f \in Ids : Files'[f] = [state |-> entries'[f].state, path |-> entries'[f].path,
                                   current |-> entries'[f].current, rev |-> entries'[f].rev]
<1>. QED
  BY DEF Files

LEMMA SeenCopies ==
    /\ \A v \in Ids : Copies[v] = [state |-> versions[v].state, file |-> versions[v].file]
    /\ \A v \in Ids : Copies'[v] = [state |-> versions'[v].state, file |-> versions'[v].file]
    /\ \A v \in Ids : VersionSeen(v) => Copies'[v] = Copies[v]
<1>. QED
  BY DEF Copies, VersionSeen

LEMMA Shown ==
    /\ \A f \in Ids : /\ Files[f].state = entries[f].state /\ Files[f].path = entries[f].path
                      /\ Files[f].current = entries[f].current /\ Files[f].rev = entries[f].rev
    /\ \A v \in Ids : Copies[v].state = versions[v].state /\ Copies[v].file = versions[v].file
    /\ \A o \in Ops : /\ Asked[o].kind = ops[o].kind /\ Asked[o].file = ops[o].file
                      /\ Asked[o].path = ops[o].path /\ Asked[o].rev = ops[o].rev
<1>. QED
  BY DEF Files, Copies, Asked

LEMMA SeenOutcomes ==
    /\ \A o \in Ops : Asked[o] = [kind |-> ops[o].kind, file |-> ops[o].file,
                                  path |-> ops[o].path, rev |-> ops[o].rev]
    /\ \A o \in Ops : Outcomes[o] = Outcome(o) /\ Outcomes'[o] = Outcome(o)'
    /\ \A o \in Ops : AskedSeen(o) => Asked'[o] = Asked[o]
    /\ \A o \in Ops : ops'[o].phase = ops[o].phase => Outcome(o)' = Outcome(o)
    /\ \A o \in Ops : Open(o) => Outcome(o) = "pending"
    /\ \A o \in Ops : ops'[o].phase \in {"committed", "completed"} => Outcome(o)' = "done"
    /\ \A o \in Ops : ops'[o].phase = "failed" => Outcome(o)' = "refused"
    /\ \A o \in Ops : ops'[o].phase = "open" => Outcome(o)' = "pending"
    /\ \A o \in Ops : ops[o].phase = "none" => Outcome(o) = "none"
    /\ \A o \in Ops : ops[o].phase \in {"committed", "completed"} => Outcome(o) = "done"
<1>. QED
  BY DEF Asked, Outcomes, Outcome, Open, Committed, AskedSeen

\* What a step leaves as it was, and what it replaces.
LEMMA AskedSame == ASSUME \A o \in Ops : AskedSeen(o) PROVE UNCHANGED Asked
<1>. QED
  BY DEF Asked, AskedSeen
LEMMA FilesSame == ASSUME \A f \in Ids : FileSeen(f) PROVE UNCHANGED Files
<1>. QED
  BY DEF Files, FileSeen
LEMMA VersionsSame == ASSUME \A v \in Ids : VersionSeen(v) PROVE UNCHANGED Copies
<1>. QED
  BY DEF Copies, VersionSeen
LEMMA OutcomesSame == ASSUME \A o \in Ops : Outcome(o)' = Outcome(o) PROVE UNCHANGED Outcomes
<1>. QED
  BY DEF Outcomes
LEMMA FileSet ==
    ASSUME NEW f \in Ids, \A g \in Ids \ {f} : FileSeen(g)
    PROVE  Files' = [Files EXCEPT ![f] = Files'[f]]
<1>. QED
  BY DEF Files, FileSeen
LEMMA CopySet ==
    ASSUME NEW v \in Ids, \A u \in Ids \ {v} : VersionSeen(u)
    PROVE  Copies' = [Copies EXCEPT ![v] = Copies'[v]]
<1>. QED
  BY DEF Copies, VersionSeen
LEMMA OutcomeSet ==
    ASSUME NEW o \in Ops, \A q \in Ops \ {o} : Outcome(q)' = Outcome(q)
    PROVE  Outcomes' = [Outcomes EXCEPT ![o] = Outcome(o)']
<1>. QED
  BY DEF Outcomes

\* A step on o leaves to the other operations what they had read.
LEMMA HeldStep ==
    ASSUME HeldAsRead, NEW o \in Ops,
           \A q \in Ops \ {o} : ops'[q] = ops[q],
           \A f \in Ids : entries[f].busy \notin {None, o} => entries'[f] = entries[f],
           \A f \in Ids, q \in Ops \ {o} : entries'[f].busy = q => entries[f].busy = q,
           \A f \in Ids : Open(o)' /\ entries'[f].busy = o =>
              /\ ops'[o].kind \in {"move", "trash"} => entries'[f].state = "active"
              /\ ops'[o].kind \in {"restore", "purge", "trash_purge"} => entries'[f].state = "trashed"
              /\ ops'[o].kind = "purge" => entries'[f].rev = ops'[o].rev
    PROVE  HeldAsRead'
<1>. SUFFICES ASSUME NEW q \in Ops, NEW f \in Ids, Open(q)', entries'[f].busy = q
              PROVE  /\ ops'[q].kind \in {"move", "trash"} => entries'[f].state = "active"
                     /\ ops'[q].kind \in {"restore", "purge", "trash_purge"} => entries'[f].state = "trashed"
                     /\ ops'[q].kind = "purge" => entries'[f].rev = ops'[q].rev
  BY DEF HeldAsRead
<1>1. CASE q = o
  BY <1>1
<1>2. CASE q # o
  <2>1. entries[f].busy = q /\ entries'[f] = entries[f] /\ ops'[q] = ops[q] /\ Open(q)
    BY <1>2, Constants DEF Open
  <2>. QED
    BY <2>1 DEF HeldAsRead
<1>. QED
  BY <1>1, <1>2

\* Nobody outside sees a step that leaves rows, phases and requests as they are.
LEMMA Unseen ==
    ASSUME HeldAsRead, \A f \in Ids : FileSeen(f) /\ entries'[f].busy = entries[f].busy,
           \A v \in Ids : VersionSeen(v), refs' = refs,
           \A o \in Ops : AskedSeen(o) /\ ops'[o].phase = ops[o].phase
    PROVE  Tells
<1>1. UNCHANGED <<Files, Copies, Asked, Outcomes>>
  BY FilesSame, VersionsSame, AskedSame, OutcomesSame, SeenOutcomes
<1>2. HeldAsRead'
  BY DEF HeldAsRead, FileSeen, AskedSeen, Open
<1>. QED
  BY <1>1, <1>2 DEF Tells, Library!vars

\* A step that writes no file, version or reference, and of an operation only
\* its lease and its flags.
LEMMA Unwritten ==
    ASSUME IInv, HeldAsRead, UNCHANGED <<entries, versions, refs>>,
           \/ UNCHANGED ops
           \/ \E o \in Ops : \/ \E b \in BOOLEAN : ops' = [ops EXCEPT ![o].live = b]
                             \/ ops' = [ops EXCEPT ![o].error = TRUE, ![o].live = FALSE]
                             \/ ops' = [ops EXCEPT ![o].due = TRUE]
                             \/ \E p \in Processes : ops' = [ops EXCEPT ![o].token = p, ![o].live = TRUE]
    PROVE  Tells
<1>1. \A o \in Ops : ops[o] \in OpStates
  BY DEF IInv, RowsOK
<1>2. \A o \in Ops : AskedSeen(o) /\ ops'[o].phase = ops[o].phase
  <2>1. CASE UNCHANGED ops
    BY <2>1 DEF AskedSeen
  <2>2. ASSUME NEW o \in Ops, NEW b \in BOOLEAN, ops' = [ops EXCEPT ![o].live = b]
        PROVE  \A q \in Ops : AskedSeen(q) /\ ops'[q].phase = ops[q].phase
    <3>1. ops'[o] = [ops[o] EXCEPT !.live = b] /\ \A q \in Ops \ {o} : ops'[q] = ops[q]
      BY <2>2 DEF IInv, RowsOK
    <3>2. AskedSeen(o) /\ ops'[o].phase = ops[o].phase
      BY <1>1, <3>1 DEF AskedSeen, OpStates
    <3>. QED
      BY <3>1, <3>2 DEF AskedSeen
  <2>3. ASSUME NEW o \in Ops, ops' = [ops EXCEPT ![o].error = TRUE, ![o].live = FALSE]
        PROVE  \A q \in Ops : AskedSeen(q) /\ ops'[q].phase = ops[q].phase
    <3>1. ops'[o] = [ops[o] EXCEPT !.error = TRUE, !.live = FALSE] /\ \A q \in Ops \ {o} : ops'[q] = ops[q]
      BY <2>3 DEF IInv, RowsOK
    <3>2. AskedSeen(o) /\ ops'[o].phase = ops[o].phase
      BY <1>1, <3>1 DEF AskedSeen, OpStates
    <3>. QED
      BY <3>1, <3>2 DEF AskedSeen
  <2>4. ASSUME NEW o \in Ops, ops' = [ops EXCEPT ![o].due = TRUE]
        PROVE  \A q \in Ops : AskedSeen(q) /\ ops'[q].phase = ops[q].phase
    <3>1. ops'[o] = [ops[o] EXCEPT !.due = TRUE] /\ \A q \in Ops \ {o} : ops'[q] = ops[q]
      BY <2>4 DEF IInv, RowsOK
    <3>2. AskedSeen(o) /\ ops'[o].phase = ops[o].phase
      BY <1>1, <3>1 DEF AskedSeen, OpStates
    <3>. QED
      BY <3>1, <3>2 DEF AskedSeen
  <2>5. ASSUME NEW o \in Ops, NEW p \in Processes,
               ops' = [ops EXCEPT ![o].token = p, ![o].live = TRUE]
        PROVE  \A q \in Ops : AskedSeen(q) /\ ops'[q].phase = ops[q].phase
    <3>1. ops'[o] = [ops[o] EXCEPT !.token = p, !.live = TRUE] /\ \A q \in Ops \ {o} : ops'[q] = ops[q]
      BY <2>5 DEF IInv, RowsOK
    <3>2. AskedSeen(o) /\ ops'[o].phase = ops[o].phase
      BY <1>1, <3>1 DEF AskedSeen, OpStates
    <3>. QED
      BY <3>1, <3>2 DEF AskedSeen
  <2>. QED
    BY <2>1, <2>2, <2>3, <2>4, <2>5
<1>. QED
  BY <1>2, Unseen DEF FileSeen, VersionSeen

\* Calls and their records, claims, failures and the time.
LEMMA UnseenSteps ==
    ASSUME IInv, HeldAsRead,
           \/ UNCHANGED vars
           \/ \E o \in Ops : \/ Lapse(o) \/ Deadline(o) \/ Refuse(o) \/ Stall(o) \/ MakeFails(o)
                             \/ Make(o) \/ RecordMade(o) \/ Intend(o)
                             \/ \E s \in Slots : IssueMake(o, s)
                             \/ \E w \in Workers : Claim(w, o)
           \/ \E p \in Processes : \/ Drop(p) \/ RecordDrop(p) \/ GiveUp(p) \/ Handoff(p) \/ DropFails(p)
                                   \/ Break(p) \/ Crash(p) \/ LoseLock(p)
                                   \/ \E l \in Locations : IssueDrop(p, l)
           \/ \E w \in Workers : \/ Restore(w) \/ RecordRestored(w) \/ RestoreFails(w)
                                 \/ \E s \in Slots : IssueRestore(w, s)
    PROVE  Tells
<1>. USE Constants
<1>1. CASE UNCHANGED vars
  BY <1>1, Unwritten DEF vars
<1>2. ASSUME NEW o \in Ops,
             \/ Refuse(o) \/ MakeFails(o) \/ Make(o) \/ RecordMade(o) \/ Intend(o)
             \/ \E s \in Slots : IssueMake(o, s)
      PROVE  Tells
  BY <1>2, Unwritten DEF Refuse, MakeFails, Make, RecordMade, Intend, IssueMake
<1>3. ASSUME NEW o \in Ops, Lapse(o) \/ Deadline(o) \/ Stall(o) PROVE Tells
  BY <1>3, Unwritten DEF Lapse, Deadline, Stall
<1>4. ASSUME NEW o \in Ops, NEW w \in Workers, Claim(w, o) PROVE Tells
  BY <1>4, Unwritten DEF Claim
<1>5. ASSUME NEW p \in Processes,
             \/ Drop(p) \/ RecordDrop(p) \/ GiveUp(p) \/ DropFails(p) \/ Break(p) \/ Crash(p)
             \/ LoseLock(p) \/ \E l \in Locations : IssueDrop(p, l)
      PROVE  Tells
  BY <1>5, Unwritten DEF Drop, RecordDrop, GiveUp, DropFails, Break, Crash, LoseLock, IssueDrop
<1>6. ASSUME NEW p \in Processes, Handoff(p) PROVE Tells
  <2>1. proc[p].op \in Ops
    BY <1>6 DEF Handoff, IInv, ExecutorsPlaced, PlacedAs
  <2>. QED
    BY <1>6, <2>1, Unwritten DEF Handoff
<1>7. ASSUME NEW w \in Workers,
             \/ Restore(w) \/ RecordRestored(w) \/ RestoreFails(w)
             \/ \E s \in Slots : IssueRestore(w, s)
      PROVE  Tells
  BY <1>7, Unwritten DEF Restore, RecordRestored, RestoreFails, IssueRestore
<1>. QED
  BY <1>1, <1>2, <1>3, <1>4, <1>5, <1>6, <1>7

\* A committed operation is completed: nothing to see.
LEMMA FinishUnseen ==
    ASSUME IInv, HoldersWork, HeldAsRead, NEW p \in Processes, Finish(p)
    PROVE  Tells
<1>. USE Constants
<1>1. PICK o \in Ops : o = proc[p].op
  BY HoldsAlone DEF Finish, Working
<1>2. /\ entries' = Freed(o) /\ ops' = [ops EXCEPT ![o] = Completed(o)] /\ UNCHANGED <<versions, refs>>
      /\ ops[o].phase = "committed"
  BY <1>1 DEF Finish, Committed
<1>3. /\ \A q \in Ops \ {o} : ops'[q] = ops[q]
      /\ ops'[o].phase = "completed" /\ \A q \in Ops : AskedSeen(q)
  <2>1. ops[o] \in OpStates /\ ops'[o] = Completed(o) /\ \A q \in Ops \ {o} : ops'[q] = ops[q]
    BY <1>2 DEF IInv, RowsOK
  <2>2. /\ ops'[o].phase = "completed" /\ AskedSeen(o)
    BY <2>1 DEF Completed, OpStates, AskedSeen
  <2>. QED
    BY <2>1, <2>2 DEF AskedSeen
<1>4. \A f \in Ids : FileSeen(f) /\ (entries[f].busy # o => entries'[f] = entries[f])
                      /\ (entries[f].busy = o => entries'[f].busy = None)
  <2>. SUFFICES ASSUME NEW f \in Ids
                PROVE  FileSeen(f) /\ (entries[f].busy # o => entries'[f] = entries[f])
                       /\ (entries[f].busy = o => entries'[f].busy = None)
    OBVIOUS
  <2>1. entries[f] \in EntryStates /\ entries'[f] = [entries[f] EXCEPT !.busy = IF @ = o THEN None ELSE @]
    BY <1>2 DEF IInv, RowsOK, Freed
  <2>. QED
    BY <2>1 DEF EntryStates, FileSeen
<1>5. HeldAsRead'
  BY <1>3, <1>4, HeldStep DEF Open
<1>6. UNCHANGED <<Files, Copies, Asked, Outcomes>>
  <2>1. \A q \in Ops : Outcome(q)' = Outcome(q)
    BY <1>2, <1>3, SeenOutcomes
  <2>. QED
    BY <1>2, <1>3, <1>4, <2>1, FilesSame, VersionsSame, AskedSame, OutcomesSame DEF VersionSeen
<1>. QED
  BY <1>2, <1>5, <1>6 DEF Tells, Library!vars

\* Maintenance undoes what was never published: a refusal.
LEMMA AbortRefuses ==
    ASSUME IInv, HoldersWork, HeldAsRead, NEW w \in Workers, Abort(w)
    PROVE  Tells
<1>. USE Constants
<1>1. PICK o \in Ops : o = proc[w].op
  BY HoldsAlone DEF Abort, Working
<1>2. /\ entries' = Freed(o) /\ UNCHANGED <<versions, refs>> /\ Open(o)
      /\ ops' = [ops EXCEPT ![o].phase = "failed", ![o].reserved = 0, ![o].live = FALSE]
  BY <1>1 DEF Abort, Undoing
<1>3. /\ \A q \in Ops \ {o} : ops'[q] = ops[q]
      /\ ops'[o].phase = "failed" /\ \A q \in Ops : AskedSeen(q)
  <2>1. /\ ops[o] \in OpStates /\ \A q \in Ops \ {o} : ops'[q] = ops[q]
        /\ ops'[o] = [ops[o] EXCEPT !.phase = "failed", !.reserved = 0, !.live = FALSE]
    BY <1>2 DEF IInv, RowsOK
  <2>2. /\ ops'[o].phase = "failed" /\ AskedSeen(o)
    BY <2>1 DEF OpStates, AskedSeen
  <2>. QED
    BY <2>1, <2>2 DEF AskedSeen
<1>4. \A f \in Ids : FileSeen(f) /\ (entries[f].busy # o => entries'[f] = entries[f])
                      /\ (entries[f].busy = o => entries'[f].busy = None)
  <2>. SUFFICES ASSUME NEW f \in Ids
                PROVE  FileSeen(f) /\ (entries[f].busy # o => entries'[f] = entries[f])
                       /\ (entries[f].busy = o => entries'[f].busy = None)
    OBVIOUS
  <2>1. entries[f] \in EntryStates /\ entries'[f] = [entries[f] EXCEPT !.busy = IF @ = o THEN None ELSE @]
    BY <1>2 DEF IInv, RowsOK, Freed
  <2>. QED
    BY <2>1 DEF EntryStates, FileSeen
<1>5. HeldAsRead'
  BY <1>3, <1>4, HeldStep DEF Open
<1>6. UNCHANGED <<Files, Copies, Asked>> /\ Outcomes' = [Outcomes EXCEPT ![o] = "refused"]
  <2>1. Outcome(o)' = "refused" /\ \A q \in Ops \ {o} : Outcome(q)' = Outcome(q)
    BY <1>3, SeenOutcomes
  <2>. QED
    BY <1>2, <1>3, <1>4, <2>1, FilesSame, VersionsSame, AskedSame, OutcomeSet DEF VersionSeen
<1>7. Outcomes[o] = "pending"
  BY <1>2, SeenOutcomes
<1>8. Library!Refuse(o)
  BY <1>2, <1>6, <1>7 DEF Library!Refuse
<1>. QED
  BY <1>5, <1>8 DEF Tells, Library!Next

LEMMA ReferencesTold ==
    ASSUME IInv, HeldAsRead, NEW v \in Ids, Refer(v) \/ Unrefer(v)
    PROVE  Tells
<1>. USE Constants
<1>1. UNCHANGED <<entries, versions, ops>>
  BY DEF Refer, Unrefer
<1>2. HeldAsRead'
  BY <1>1 DEF HeldAsRead, Open
<1>3. UNCHANGED <<Files, Copies, Asked, Outcomes>>
  BY <1>1 DEF Files, Copies, Asked, Outcomes, Outcome, Open, Committed
<1>4. Library!Ids = Ids
  BY DEF Library!Ids, Ids
<1>5. CASE Refer(v)
  <2>1. versions[v].file \in Ids
    BY <1>5 DEF Refer, IInv, VersionsFiled
  <2>2. Copies[v].state = "live" /\ Copies[v].file = versions[v].file
    BY <1>5, Shown DEF Refer
  <2>3. Files[versions[v].file].state = "active"
    BY <1>5, <2>1, Shown DEF Refer
  <2>4. Library!Refer(v)
    BY <1>3, <1>5, <2>2, <2>3 DEF Refer, Library!Refer
  <2>. QED
    BY <1>2, <1>4, <2>4 DEF Tells, Library!Next
<1>6. CASE Unrefer(v)
  <2>1. Library!Unrefer(v)
    BY <1>3, <1>6 DEF Unrefer, Library!Unrefer
  <2>. QED
    BY <1>2, <1>4, <2>1 DEF Tells, Library!Next
<1>. QED
  BY <1>5, <1>6

\* What is prepared is reserved, and read for the commit.
LEMMA PrepareUnseen ==
    ASSUME IInv, HoldersWork, Book, CallsFit, HeldAsRead, NEW o \in Ops, Prepare(o)
    PROVE  Tells
<1>. USE Constants
<1>1. Open(o) /\ proc[o].op = o /\ ops[o].file \in Ids
  BY BeforePlan DEF Prepare
<1>2. PICK f \in Ids : f = ops[o].file
  BY <1>1
<1>3. UNCHANGED <<versions, refs>> /\ (PrepareUpload(o) \/ PrepareOverwrite(o) \/ PrepareRelocation(o))
  BY DEF Prepare
<1>4. /\ \A q \in Ops \ {o} : ops'[q] = ops[q]
      /\ AskedSeen(o) /\ ops'[o].phase = ops[o].phase
  <2>1. CASE UNCHANGED ops
    BY <2>1 DEF AskedSeen
  <2>2. CASE ops' = [ops EXCEPT ![o].reserved = Bytes[o]]
    <3>1. /\ ops[o] \in OpStates /\ ops'[o] = [ops[o] EXCEPT !.reserved = Bytes[o]]
          /\ \A q \in Ops \ {o} : ops'[q] = ops[q]
      BY <2>2 DEF IInv, RowsOK
    <3>2. AskedSeen(o) /\ ops'[o].phase = ops[o].phase
      BY <3>1 DEF AskedSeen, OpStates
    <3>. QED
      BY <3>1, <3>2
  <2>. QED
    BY <1>3, <2>1, <2>2 DEF PrepareUpload, PrepareOverwrite, PrepareRelocation, Reserve
<1>5. /\ \A g \in Ids \ {f} : entries'[g] = entries[g]
      /\ FileSeen(f) /\ (entries'[f] # entries[f] => entries[f].busy \in {None, o} /\ entries'[f].busy = o)
  <2>1. CASE UNCHANGED entries
    BY <2>1 DEF FileSeen
  <2>2. CASE entries[f].busy \in {None, o} /\ entries' = [entries EXCEPT ![f].busy = o]
    <3>1. /\ entries[f] \in EntryStates /\ entries'[f] = [entries[f] EXCEPT !.busy = o]
          /\ \A g \in Ids \ {f} : entries'[g] = entries[g]
      BY <2>2 DEF IInv, RowsOK
    <3>2. FileSeen(f) /\ entries'[f].busy = o
      BY <3>1 DEF FileSeen, EntryStates
    <3>. QED
      BY <2>2, <3>1, <3>2
  <2>. QED
    BY <1>2, <1>3, <2>1, <2>2
       DEF PrepareUpload, PrepareOverwrite, PrepareRelocation, CanOverwrite, CanRelocate
<1>6. \A g \in Ids : Open(o)' /\ entries'[g].busy = o =>
         /\ ops'[o].kind \in {"move", "trash"} => entries'[g].state = "active"
         /\ ops'[o].kind \in {"restore", "purge", "trash_purge"} => entries'[g].state = "trashed"
         /\ ops'[o].kind = "purge" => entries'[g].rev = ops'[o].rev
  <2>. SUFFICES ASSUME NEW g \in Ids, entries'[g].busy = o
                PROVE  /\ ops[o].kind \in {"move", "trash"} => entries[g].state = "active"
                       /\ ops[o].kind \in {"restore", "purge", "trash_purge"} => entries[g].state = "trashed"
                       /\ ops[o].kind = "purge" => entries[g].rev = ops[o].rev
    BY <1>4, <1>5 DEF AskedSeen, FileSeen
  <2>1. CASE g # f
    BY <1>1, <1>5, <2>1 DEF HeldAsRead
  <2>2. CASE g = f
    BY <1>2, <1>3, <2>2 DEF PrepareUpload, CanUpload, PrepareOverwrite, CanOverwrite, PrepareRelocation, CanRelocate
  <2>. QED
    BY <2>1, <2>2
<1>7. HeldAsRead'
  BY <1>4, <1>5, <1>6, HeldStep
<1>8. UNCHANGED <<Files, Copies, Asked, Outcomes>>
  <2>1. \A q \in Ops : Outcome(q)' = Outcome(q) /\ AskedSeen(q)
    BY <1>4, SeenOutcomes DEF AskedSeen
  <2>. QED
    BY <1>3, <1>5, <2>1, FilesSame, VersionsSame, AskedSame, OutcomesSame DEF VersionSeen, FileSeen
<1>. QED
  BY <1>3, <1>7, <1>8 DEF Tells, Library!vars

\* An operation begins: of a member, or of the system on a file nobody is busy
\* with.
LEMMA BeginningTold ==
    ASSUME IInv, Book, HeldAsRead, NEW o \in Ops, ops[o].phase = "none", ops'[o].phase = "open",
           \A q \in Ops \ {o} : ops'[q] = ops[q], UNCHANGED <<versions, refs>>,
           \A f \in Ids : \/ entries'[f] = entries[f]
                          \/ /\ FileSeen(f) /\ entries[f].busy = None /\ entries'[f].busy = o
                             /\ ops'[o].kind \in SystemKinds
                             /\ ops'[o].kind = "trash_purge" => entries[f].state = "trashed"
    PROVE  Tells
<1>. USE Constants
<1>1. \A f \in Ids : entries[f].busy # o
  BY DEF Book, BusyHeld, Unsettled, Open, Committed
<1>2. HeldAsRead'
  BY <1>1, HeldStep DEF SystemKinds, FileSeen
<1>3. UNCHANGED <<Files, Copies>>
  BY FilesSame, VersionsSame DEF VersionSeen, FileSeen
<1>4. /\ \A q \in Ops \ {o} : Asked'[q] = Asked[q]
      /\ Outcomes[o] = "none" /\ Outcomes' = [Outcomes EXCEPT ![o] = "pending"]
  <2>1. \A q \in Ops \ {o} : AskedSeen(q) /\ Outcome(q)' = Outcome(q)
    BY SeenOutcomes DEF AskedSeen
  <2>2. Outcome(o)' = "pending" /\ Outcomes[o] = "none"
    BY SeenOutcomes
  <2>. QED
    BY <2>1, <2>2, OutcomeSet, SeenOutcomes
<1>5. Library!Ask(o)
  BY <1>3, <1>4 DEF Library!Ask
<1>. QED
  BY <1>2, <1>5 DEF Tells, Library!Next

LEMMA RequestAsks ==
    ASSUME IInv, Book, HeldAsRead, NEW o \in Ops, Request(o)
    PROVE  Tells
<1>1. \E kind, f, path, rev : Admit(o, kind, f, path, rev)
  BY DEF Request
<1>2. /\ ops[o].phase = "none" /\ UNCHANGED <<entries, versions, refs>>
      /\ ops'[o].phase = "open" /\ \A q \in Ops \ {o} : ops'[q] = ops[q]
  BY <1>1 DEF Admit, NoOp, IInv, RowsOK
<1>. QED
  BY <1>2, BeginningTold

LEMMA EnlistAsks ==
    ASSUME IInv, Book, HeldAsRead, NEW w \in Workers, NEW o \in Ops,
           (\E v \in Ids : EnlistHistory(w, o, v)) \/ (\E f \in Ids : EnlistTrash(w, o, f))
    PROVE  Tells
<1>. USE Constants
<1>1. \E kind \in SystemKinds, f \in Ids :
          /\ \E doomed : Enlist(w, o, kind, f, doomed)
          /\ kind = "trash_purge" => entries[f].state = "trashed"
  BY DEF EnlistHistory, EnlistTrash, SystemKinds, IInv, VersionsFiled
<1>2. PICK kind \in SystemKinds, f \in Ids :
          /\ \E doomed : Enlist(w, o, kind, f, doomed)
          /\ kind = "trash_purge" => entries[f].state = "trashed"
  BY <1>1
<1>3. /\ ops[o].phase = "none" /\ UNCHANGED <<versions, refs>> /\ entries[f].busy = None
      /\ ops'[o].phase = "open" /\ ops'[o].kind = kind /\ \A q \in Ops \ {o} : ops'[q] = ops[q]
      /\ ops'[o].kind = "trash_purge" => entries[f].state = "trashed"
  BY <1>2 DEF Enlist, NoOp, IInv, RowsOK
<1>4. /\ \A g \in Ids \ {f} : entries'[g] = entries[g]
      /\ FileSeen(f) /\ entries'[f].busy = o
  <2>1. /\ entries[f] \in EntryStates /\ entries'[f] = [entries[f] EXCEPT !.busy = o]
        /\ \A g \in Ids \ {f} : entries'[g] = entries[g]
    BY <1>2 DEF Enlist, IInv, RowsOK
  <2>. QED
    BY <2>1 DEF FileSeen, EntryStates
<1>. QED
  BY <1>3, <1>4, BeginningTold

\* What an operation does to the files shows at its commit.
LEMMA EffectTold ==
    ASSUME NEW o \in Ops, Open(o), ops'[o].phase \in {"committed", "completed"}, AskedSeen(o),
           \A q \in Ops \ {o} : ops'[q] = ops[q], UNCHANGED refs, HeldAsRead',
           \/ Library!Upload(o) \/ Library!Overwrite(o) \/ Library!Move(o) \/ Library!Trash(o)
           \/ Library!Restore(o) \/ Library!Purge(o) \/ Library!PurgeHistory(o)
    PROVE  Tells
<1>1. \A q \in Ops : AskedSeen(q)
  BY DEF AskedSeen
<1>2. UNCHANGED Asked
  BY <1>1, AskedSame
<1>3. Outcomes[o] = "pending" /\ Outcomes' = [Outcomes EXCEPT ![o] = "done"]
  <2>1. Outcome(o)' = "done" /\ \A q \in Ops \ {o} : Outcome(q)' = Outcome(q)
    BY SeenOutcomes
  <2>. QED
    BY <2>1, OutcomeSet, SeenOutcomes
<1>4. Library!TakeEffect(o)
  BY <1>2, <1>3 DEF Library!TakeEffect
<1>. QED
  BY <1>4 DEF Tells, Library!Next

\* The commits.
LEMMA UploadTakesEffect ==
    ASSUME IInv, HoldersWork, HeldAsRead, NEW o \in Ops, proc[o].at = "plan", Holds(o), Open(o),
           CommitUpload(o), UNCHANGED refs
    PROVE  Tells
<1>. USE Constants
<1>1. PICK path \in Paths : path = ops[o].path
  BY DEF CommitUpload, UserKinds, IInv, PlansFollow, Open
<1>2. /\ ops[o].kind = "upload" /\ NameFree(o, path, o)
      /\ entries' = [entries EXCEPT ![o] = [state |-> "active", path |-> path,
                        current |-> o, busy |-> None, rev |-> 1]]
      /\ versions' = [versions EXCEPT ![o] = [state |-> "live", file |-> o, loc |-> InFiles(path)]]
      /\ ops' = [ops EXCEPT ![o] = Completed(o)]
  BY <1>1 DEF CommitUpload
<1>3. versions[o].state = "unborn" /\ entries[o].state = "absent" /\ entries[o].busy = None
  BY DEF IInv, IdsFresh, EntriesFilled, Open
<1>4. ops'[o].phase = "completed" /\ AskedSeen(o) /\ \A q \in Ops \ {o} : ops'[q] = ops[q]
  <2>1. ops[o] \in OpStates /\ ops'[o] = Completed(o) /\ \A q \in Ops \ {o} : ops'[q] = ops[q]
    BY <1>2 DEF IInv, RowsOK
  <2>. QED
    BY <2>1 DEF Completed, OpStates, AskedSeen
<1>5. /\ entries'[o].state = "active" /\ entries'[o].path = path /\ entries'[o].current = o
      /\ entries'[o].busy = None /\ entries'[o].rev = 1 /\ \A g \in Ids \ {o} : entries'[g] = entries[g]
  BY <1>2 DEF IInv, RowsOK
<1>6. /\ versions'[o].state = "live" /\ versions'[o].file = o
      /\ \A v \in Ids \ {o} : versions'[v] = versions[v]
  BY <1>2 DEF IInv, RowsOK
<1>7. HeldAsRead'
  BY <1>3, <1>4, <1>5, HeldStep DEF Open
<1>8. /\ Files' = [Files EXCEPT ![o] = Files'[o]]
      /\ Files'[o] = [state |-> "active", path |-> path, current |-> o, rev |-> 1]
  BY <1>5, FileSet, SeenFiles, SMTT(30) DEF FileSeen
<1>9. /\ Copies' = [Copies EXCEPT ![o] = Copies'[o]]
      /\ Copies'[o] = [state |-> "live", file |-> o]
  BY <1>6, CopySet, SeenCopies DEF VersionSeen
<1>10. Library!NameFree(path, o)
  BY <1>2, Shown DEF NameFree, Library!NameFree, Library!Ids, Ids
<1>11. /\ Asked[o].kind = "upload" /\ Asked[o].path = path
       /\ Files[o].state = "absent" /\ Copies[o].state = "unborn"
  BY <1>1, <1>2, <1>3, Shown
<1>12. Library!Upload(o)
  BY <1>8, <1>9, <1>10, <1>11 DEF Library!Upload
<1>. QED
  BY <1>4, <1>7, <1>12, EffectTold

LEMMA OverwriteTakesEffect ==
    ASSUME IInv, HoldersWork, Book, HeldAsRead, NEW o \in Ops, proc[o].at = "plan", Holds(o), Open(o),
           CommitOverwrite(o), UNCHANGED refs
    PROVE  Tells
<1>. USE Constants
<1>1. Unsettled(o) /\ OverwriteShaped(o) /\ ops[o].kind = "overwrite"
  BY ShapeOf DEF CommitOverwrite, Unsettled
<1>2. PICK f \in Ids, old \in Ids, path \in Paths :
         f = ops[o].file /\ old = entries[f].current /\ path = entries[f].path
  <2>1. ops[o].file \in Ids /\ entries[ops[o].file].busy = o
    BY <1>1, ShapeOf DEF CommitOverwrite
  <2>. QED
    BY <2>1, HeldFile
<1>3. /\ entries[f].busy = o /\ entries[f].rev = ops[o].rev /\ objs[o][old].dst = InHistory(old)
      /\ versions' = [versions EXCEPT ![old].loc = InHistory(old),
            ![o] = [state |-> "live", file |-> f, loc |-> InFiles(path)]]
      /\ entries' = [entries EXCEPT ![f].current = o, ![f].rev = @ + 1]
      /\ Publish(o)
  BY <1>2 DEF CommitOverwrite
<1>4. versions[o].state = "unborn"
  BY DEF IInv, IdsFresh, Open
<1>5. old # o /\ entries[f].state = "active"
  <2>1. Present(o, old)
    BY <1>3, AddressesApart DEF IInv, PlansFollow, Blank
  <2>. QED
    BY <1>1, <1>2, <2>1 DEF OverwriteShaped, ArchiveShaped
<1>6. ops'[o].phase = "committed" /\ AskedSeen(o) /\ \A q \in Ops \ {o} : ops'[q] = ops[q]
  <2>1. /\ ops[o] \in OpStates /\ ops'[o] = [ops[o] EXCEPT !.phase = "committed", !.reserved = 0]
        /\ \A q \in Ops \ {o} : ops'[q] = ops[q]
    BY <1>3 DEF Publish, IInv, RowsOK
  <2>. QED
    BY <2>1 DEF OpStates, AskedSeen
<1>7. PICK n \in Nat : n = entries[f].rev + 1
  BY DEF IInv, RowsOK, EntryStates
<1>8. /\ entries'[f].state = entries[f].state /\ entries'[f].path = entries[f].path
       /\ entries'[f].current = o /\ entries'[f].busy = o /\ entries'[f].rev = n
  <2>1. /\ entries[f] \in EntryStates
        /\ entries'[f] = [entries[f] EXCEPT !.current = o, !.rev = n]
    BY <1>3, <1>7 DEF IInv, RowsOK
  <2>2. ASSUME NEW e \in EntryStates
        PROVE  LET y == [e EXCEPT !.current = o, !.rev = n]
               IN  /\ y.state = e.state /\ y.path = e.path /\ y.current = o /\ y.busy = e.busy
                   /\ y.rev = n
    BY DEF EntryStates
  <2>. QED
    BY <1>3, <2>1, <2>2
<1>9. \A g \in Ids \ {f} : entries'[g] = entries[g]
  BY <1>3 DEF IInv, RowsOK
<1>10. /\ versions'[o].state = "live" /\ versions'[o].file = f
      /\ \A v \in Ids \ {o} : VersionSeen(v)
  <2>1. /\ versions[old] \in VersionStates /\ versions'[old] = [versions[old] EXCEPT !.loc = InHistory(old)]
        /\ versions'[o] = [state |-> "live", file |-> f, loc |-> InFiles(path)]
        /\ \A v \in Ids \ {o, old} : versions'[v] = versions[v]
    BY <1>3, <1>5 DEF IInv, RowsOK
  <2>. QED
    BY <2>1 DEF VersionStates, VersionSeen
<1>11. HeldAsRead'
  <2>1. /\ \A g \in Ids : entries[g].busy \notin {None, o} => entries'[g] = entries[g]
        /\ \A g \in Ids, q \in Ops \ {o} : entries'[g].busy = q => entries[g].busy = q
    BY <1>3, <1>8, <1>9
  <2>. QED
    BY <1>6, <2>1, HeldStep DEF Open
<1>12. Files' = [Files EXCEPT ![f] = [state |-> "active", path |-> path, current |-> o, rev |-> n]]
  <2>1. Files' = [Files EXCEPT ![f] = Files'[f]]
    BY <1>9, FileSet DEF FileSeen
  <2>2. Files'[f] = [state |-> "active", path |-> path, current |-> o, rev |-> n]
    BY <1>2, <1>5, <1>8, SeenFiles
  <2>. QED
    BY <2>1, <2>2
<1>13. /\ Copies' = [Copies EXCEPT ![o] = Copies'[o]]
       /\ Copies'[o] = [state |-> "live", file |-> f]
  BY <1>10, CopySet, SeenCopies
<1>14. /\ Asked[o].kind = "overwrite" /\ Asked[o].file = f /\ Files[f].rev = Asked[o].rev
       /\ Files[f].state = "active" /\ Copies[o].state = "unborn"
  BY <1>1, <1>2, <1>3, <1>4, <1>5, Shown
<1>15. Files[f].path = path /\ Files[f].rev + 1 = n
  BY <1>2, <1>7, Shown
<1>16. Library!Overwrite(o)
  BY <1>12, <1>13, <1>14, <1>15 DEF Library!Overwrite, Library!AsRead, Library!Becomes
<1>. QED
  BY <1>6, <1>11, <1>16, EffectTold

LEMMA RelocationTakesEffect ==
    ASSUME IInv, HoldersWork, Book, CallsFit, HeldAsRead, NEW o \in Ops, proc[o].at = "plan",
           Holds(o), Open(o), CommitRelocation(o), UNCHANGED refs
    PROVE  Tells
<1>. USE Constants, AddressesApart
<1>1. Unsettled(o) /\ CallFits(o)
  BY HoldsAlone DEF Working, CallsFit
<1>2. /\ ops[o].kind \in {"move", "trash", "restore"} /\ ~Purging(o) /\ RelocationShaped(o)
      /\ ops[o].file \in Ids /\ ops[o].path \in Paths /\ entries[ops[o].file].busy = o
  BY <1>1, ShapeOf DEF CommitRelocation, Purging, SystemKinds, UserKinds
<1>3. PICK f \in Ids, v \in Ids, home \in Paths, path \in Paths :
         f = ops[o].file /\ v = entries[f].current /\ home = entries[f].path /\ path = ops[o].path
  BY <1>2, HeldFile
<1>4. PICK name \in Paths, state \in {"active", "trashed"} :
         /\ name = IF ops[o].kind = "trash" THEN home ELSE path
         /\ state = IF ops[o].kind = "trash" THEN "trashed" ELSE "active"
  OBVIOUS
<1>5. PICK n \in Nat : n = entries[f].rev + 1
  BY DEF IInv, RowsOK, EntryStates
<1>6. /\ entries[f].busy = o /\ entries[f].rev = ops[o].rev
      /\ ops[o].kind = "trash" => ~Referenced(f)
      /\ entries' = [entries EXCEPT ![f].rev = n, ![f].state = state, ![f].path = name]
      /\ versions' = [versions EXCEPT ![v].loc = objs[o][v].dst]
      /\ Publish(o)
  <2>1. CASE ops[o].kind = "trash"
    BY <1>3, <1>4, <1>5, <2>1 DEF CommitRelocation, IInv, RowsOK
  <2>2. CASE ops[o].kind # "trash"
    BY <1>3, <1>4, <1>5, <2>2 DEF CommitRelocation, IInv, RowsOK
  <2>. QED
    BY <2>1, <2>2
<1>7. /\ entries'[f].state = state /\ entries'[f].path = name /\ entries'[f].current = v
      /\ entries'[f].busy = o /\ entries'[f].rev = n
  <2>1. /\ entries[f] \in EntryStates
        /\ entries'[f] = [entries[f] EXCEPT !.rev = n, !.state = state, !.path = name]
    BY <1>6 DEF IInv, RowsOK
  <2>2. ASSUME NEW e \in EntryStates
        PROVE  LET y == [e EXCEPT !.rev = n, !.state = state, !.path = name]
               IN  /\ y.state = state /\ y.path = name /\ y.current = e.current /\ y.busy = e.busy
                   /\ y.rev = n
    BY DEF EntryStates
  <2>. QED
    BY <1>3, <1>6, <2>1, <2>2
<1>8. \A g \in Ids \ {f} : entries'[g] = entries[g]
  BY <1>6 DEF IInv, RowsOK
<1>9. \A u \in Ids : VersionSeen(u)
  <2>1. /\ versions[v] \in VersionStates /\ versions'[v] = [versions[v] EXCEPT !.loc = objs[o][v].dst]
        /\ \A u \in Ids \ {v} : versions'[u] = versions[u]
    BY <1>6 DEF IInv, RowsOK
  <2>2. VersionSeen(v)
    BY <2>1 DEF VersionStates, VersionSeen
  <2>. QED
    BY <2>1, <2>2 DEF VersionSeen
<1>10. ops'[o].phase = "committed" /\ AskedSeen(o) /\ \A q \in Ops \ {o} : ops'[q] = ops[q]
  <2>1. /\ ops[o] \in OpStates /\ ops'[o] = [ops[o] EXCEPT !.phase = "committed", !.reserved = 0]
        /\ \A q \in Ops \ {o} : ops'[q] = ops[q]
    BY <1>6 DEF Publish, IInv, RowsOK
  <2>. QED
    BY <2>1 DEF OpStates, AskedSeen
<1>11. HeldAsRead'
  <2>1. /\ \A g \in Ids : entries[g].busy \notin {None, o} => entries'[g] = entries[g]
        /\ \A g \in Ids, q \in Ops \ {o} : entries'[g].busy = q => entries[g].busy = q
    BY <1>6, <1>7, <1>8
  <2>. QED
    BY <1>10, <2>1, HeldStep DEF Open
<1>12. Files' = [Files EXCEPT ![f] = [state |-> state, path |-> name, current |-> v, rev |-> n]]
  <2>1. Files' = [Files EXCEPT ![f] = Files'[f]]
    BY <1>8, FileSet DEF FileSeen
  <2>2. Files'[f] = [state |-> state, path |-> name, current |-> v, rev |-> n]
    BY <1>7, SeenFiles
  <2>. QED
    BY <2>1, <2>2
<1>13. UNCHANGED Copies
  BY <1>9, VersionsSame
<1>14. /\ Asked[o].kind = ops[o].kind /\ Asked[o].file = f /\ Asked[o].path = path
       /\ Files[f].rev = Asked[o].rev /\ Files[f].rev + 1 = n
       /\ Files[f].path = home /\ Files[f].current = v /\ Files[f].state = entries[f].state
  BY <1>3, <1>5, <1>6, Shown
<1>15. /\ ops[o].kind \in {"move", "trash"} => entries[f].state = "active"
       /\ ops[o].kind \in {"restore", "purge", "trash_purge"} => entries[f].state = "trashed"
  BY <1>6 DEF HeldAsRead
<1>16. ops[o].kind \in {"move", "restore"} => Library!NameFree(path, f)
  <2>. SUFFICES ASSUME ops[o].kind \in {"move", "restore"}
                PROVE  \A g \in Ids : entries[g].state = "active" /\ entries[g].path = path => g = f
    BY Shown DEF Library!NameFree, Library!Ids, Ids
  <2>1. PICK s \in Slots : Present(o, s)
    BY <1>1, <1>2 DEF CallFits, RequestFits, Planned
  <2>2. objs[o][s].dst = InFiles(path)
    BY <1>2, <1>3, <2>1 DEF RelocationShaped
  <2>3. InFiles(path) \in Locations /\ Touches(o, InFiles(path))
    BY <2>2, Addresses DEF Touches
  <2>4. Owned(o, InFiles(path))
    BY <1>1, <2>3 DEF Book, PlansOwned
  <2>5. \A g \in Ids : entries[g].state = "active" /\ entries[g].path = path => entries[g].busy = o
    BY <2>4 DEF Owned
  <2>. QED
    BY <1>3, <2>5, OwnBookHolds DEF OwnBook
<1>17. ops[o].kind = "trash" => Library!Unreferenced(f)
  <2>. SUFFICES ASSUME ops[o].kind = "trash", NEW u \in Ids \cap refs, Copies[u].file = f PROVE FALSE
    BY DEF Library!Unreferenced, Library!CopiesOf, Library!Ids, Ids
  <2>. QED
    BY <1>6, Shown DEF Referenced
<1>18. CASE ops[o].kind = "move"
  <2>1. Library!Move(o)
    BY <1>4, <1>12, <1>13, <1>14, <1>15, <1>16, <1>18 DEF Library!Move, Library!AsRead, Library!Becomes
  <2>. QED
    BY <1>10, <1>11, <2>1, EffectTold
<1>19. CASE ops[o].kind = "trash"
  <2>1. Library!Trash(o)
    BY <1>4, <1>12, <1>13, <1>14, <1>15, <1>17, <1>19 DEF Library!Trash, Library!AsRead, Library!Becomes
  <2>. QED
    BY <1>10, <1>11, <2>1, EffectTold
<1>20. CASE ops[o].kind = "restore"
  <2>1. Library!Restore(o)
    BY <1>4, <1>12, <1>13, <1>14, <1>15, <1>16, <1>20 DEF Library!Restore, Library!AsRead, Library!Becomes
  <2>. QED
    BY <1>10, <1>11, <2>1, EffectTold
<1>. QED
  BY <1>2, <1>18, <1>19, <1>20

LEMMA PurgeTakesEffect ==
    ASSUME IInv, HoldersWork, Book, HeldAsRead, NEW p \in Processes, Working(p), Holds(p),
           Open(proc[p].op), Purge(proc[p].op), UNCHANGED refs
    PROVE  Tells
<1>. USE Constants
<1>1. PICK o \in Ops : o = proc[p].op
  BY HoldsAlone
<1>2. PICK f \in Ids : f = ops[o].file
  BY <1>1 DEF IInv, PlansFollow, Open
<1>3. PICK gone \in SUBSET Ids : gone = {v \in Ids : Present(o, v) /\ versions[v].state = "live"}
  OBVIOUS
<1>4. PICK n \in Nat : n = entries[f].rev + 1
  BY DEF IInv, RowsOK, EntryStates
<1>5. /\ Purging(o) /\ Planned(o) /\ entries[f].busy = o /\ Unsettled(o) /\ Open(o)
      /\ \/ /\ ops[o].kind = "history_purge" /\ gone \cap refs = {} /\ entries[f].current \notin gone
            /\ entries' = Freed(o)
         \/ /\ ops[o].kind # "history_purge" /\ ~Referenced(f)
            /\ entries' = [Freed(o) EXCEPT ![f].state = "purged", ![f].rev = @ + 1]
      /\ versions' = [v \in Ids |->
            IF v \in gone THEN [versions[v] EXCEPT !.state = "purged"] ELSE versions[v]]
      /\ ops' = [ops EXCEPT ![o] = Completed(o)]
  BY <1>1, <1>2, <1>3 DEF Purge, Unsettled
<1>6. ops'[o].phase = "completed" /\ AskedSeen(o) /\ \A q \in Ops \ {o} : ops'[q] = ops[q]
  <2>1. ops[o] \in OpStates /\ ops'[o] = Completed(o) /\ \A q \in Ops \ {o} : ops'[q] = ops[q]
    BY <1>5 DEF IInv, RowsOK
  <2>. QED
    BY <2>1 DEF Completed, OpStates, AskedSeen
<1>7. /\ \A v \in gone : versions[v].state = "live" /\ versions[v].file = f /\ v \in Ids
      /\ gone # {}
  <2>1. PICK s \in Slots : Present(o, s)
    BY <1>5 DEF Planned
  <2>2. s \in Ids /\ Held(o, s)
    BY <1>5, <2>1, ShapeOf DEF PurgeShaped
  <2>. QED
    BY <1>2, <1>3, <1>5, <2>1, <2>2 DEF IInv, PurgesHold, Held
<1>8. Copies' = [v \in Ids |-> IF v \in gone THEN [state |-> "purged", file |-> Copies[v].file] ELSE Copies[v]]
  <2>. SUFFICES ASSUME NEW v \in Ids
                PROVE  Copies'[v] = IF v \in gone THEN [state |-> "purged", file |-> Copies[v].file] ELSE Copies[v]
    BY DEF Copies
  <2>1. CASE v \in gone
    <3>1. versions[v] \in VersionStates /\ versions'[v] = [versions[v] EXCEPT !.state = "purged"]
      BY <1>5, <2>1 DEF IInv, RowsOK
    <3>2. versions'[v].state = "purged" /\ versions'[v].file = versions[v].file
      BY <3>1 DEF VersionStates
    <3>. QED
      BY <2>1, <3>2, SeenCopies, Shown, SMTT(30)
  <2>2. CASE v \notin gone
    BY <1>5, <2>2, SeenCopies DEF VersionSeen
  <2>. QED
    BY <2>1, <2>2
<1>9. \A g \in Ids :
         /\ Freed(o)[g].state = entries[g].state /\ Freed(o)[g].path = entries[g].path
         /\ Freed(o)[g].current = entries[g].current /\ Freed(o)[g].rev = entries[g].rev
         /\ Freed(o)[g].busy # o /\ Freed(o)[g] \in EntryStates
         /\ entries[g].busy # o => Freed(o)[g] = entries[g]
         /\ entries[g].busy = o => Freed(o)[g].busy = None
  <2>. TAKE g \in Ids
  <2>1. entries[g] \in EntryStates /\ Freed(o)[g] = [entries[g] EXCEPT !.busy = IF @ = o THEN None ELSE @]
    BY DEF IInv, RowsOK, Freed
  <2>. QED
    BY <2>1 DEF EntryStates
<1>10. /\ Asked[o].kind = ops[o].kind /\ Asked[o].file = f /\ Asked[o].rev = ops[o].rev
       /\ Files[f].rev = entries[f].rev /\ Files[f].rev + 1 = n /\ Files[f].state = entries[f].state
       /\ Files[f].current = entries[f].current /\ Files[f].path = entries[f].path
  BY <1>2, <1>4, Shown
<1>11. CASE ops[o].kind = "history_purge"
  <2>1. entries' = Freed(o)
    BY <1>5, <1>11
  <2>2. UNCHANGED Files
    BY <1>9, <2>1, FilesSame DEF FileSeen
  <2>3. HeldAsRead'
    BY <1>6, <1>9, <2>1, HeldStep DEF Open
  <2>4. gone \in SUBSET (Library!CopiesOf(f) \ ({Files[f].current} \cup refs)) /\ gone # {}
    <3>1. gone \subseteq Library!CopiesOf(f)
      BY <1>7, Shown DEF Library!CopiesOf, Library!Ids, Ids
    <3>2. gone \cap refs = {} /\ entries[f].current \notin gone
      BY <1>5, <1>11
    <3>3. Files[f].current = entries[f].current
      BY <1>10
    <3>4. gone # {}
      BY <1>7
    <3>5. gone \subseteq Library!CopiesOf(f) \ ({Files[f].current} \cup refs)
      BY <3>1, <3>2, <3>3
    <3>. QED
      BY <3>4, <3>5
  <2>5. Library!PurgeHistory(o)
    BY <1>8, <1>10, <1>11, <2>2, <2>4 DEF Library!PurgeHistory, Library!Gone, Library!Ids, Ids
  <2>. QED
    BY <1>5, <1>6, <2>3, <2>5, EffectTold
<1>12. CASE ops[o].kind # "history_purge"
  <2>1. /\ entries' = [Freed(o) EXCEPT ![f].state = "purged", ![f].rev = n]
        /\ \A g \in Ids \ {f} : entries'[g] = Freed(o)[g]
    BY <1>4, <1>5, <1>9, <1>12 DEF Freed
  <2>2. /\ entries'[f].state = "purged" /\ entries'[f].path = entries[f].path
        /\ entries'[f].current = entries[f].current /\ entries'[f].rev = n /\ entries'[f].busy = None
    <3>1. entries'[f] = [Freed(o)[f] EXCEPT !.state = "purged", !.rev = n]
      BY <2>1 DEF Freed
    <3>. QED
      BY <1>5, <1>9, <3>1 DEF EntryStates
  <2>3. HeldAsRead'
    <3>1. /\ \A g \in Ids : entries[g].busy \notin {None, o} => entries'[g] = entries[g]
          /\ \A g \in Ids, q \in Ops \ {o} : entries'[g].busy = q => entries[g].busy = q
      <4>. SUFFICES ASSUME NEW g \in Ids
                    PROVE  /\ entries[g].busy \notin {None, o} => entries'[g] = entries[g]
                           /\ entries'[g].busy \in Ops \ {o} => entries[g].busy = entries'[g].busy
        OBVIOUS
      <4>1. CASE g = f
        BY <1>5, <2>2, <4>1
      <4>2. CASE g # f
        BY <1>9, <2>1, <4>2
      <4>. QED
        BY <4>1, <4>2
    <3>. QED
      BY <1>6, <3>1, HeldStep DEF Open
  <2>4. Files' = [Files EXCEPT ![f] = [state |-> "purged", path |-> entries[f].path,
                                       current |-> entries[f].current, rev |-> n]]
    <3>1. Files' = [Files EXCEPT ![f] = Files'[f]]
      BY <1>9, <2>1, FileSet, ZenonT(30) DEF FileSeen
    <3>2. Files'[f] = [state |-> "purged", path |-> entries[f].path,
                       current |-> entries[f].current, rev |-> n]
      BY <2>2, SeenFiles
    <3>. QED
      BY <3>1, <3>2
  <2>5. gone = Library!CopiesOf(f)
    <3>1. \A v \in Ids : versions[v].state = "live" /\ versions[v].file = f => v \in gone
      <4>1. PurgeShaped(o)
        BY <1>5, ShapeOf
      <4>. QED
        BY <1>2, <1>3, <1>5, <1>12, <4>1 DEF PurgeShaped, Planned, VersionsOf
    <3>. QED
      BY <1>7, <3>1, Shown DEF Library!CopiesOf, Library!Ids, Ids
  <2>6. Library!Unreferenced(f)
    <3>. SUFFICES ASSUME NEW u \in Ids \cap refs, Copies[u].file = f PROVE FALSE
      BY DEF Library!Unreferenced, Library!CopiesOf, Library!Ids, Ids
    <3>. QED
      BY <1>5, <1>12, Shown DEF Referenced
  <2>7. /\ ops[o].kind \in {"purge", "trash_purge"} /\ entries[f].state = "trashed"
        /\ ops[o].kind = "purge" => entries[f].rev = ops[o].rev
    BY <1>5, <1>12 DEF Purging, SystemKinds, HeldAsRead
  <2>8. Library!Gone(Library!CopiesOf(f))
    BY <1>8, <2>5 DEF Library!Gone, Library!Ids, Ids
  <2>9. Library!Purge(o)
    BY <1>10, <2>4, <2>6, <2>7, <2>8 DEF Library!Purge, Library!AsRead, Library!Becomes
  <2>. QED
    BY <1>5, <1>6, <2>3, <2>9, EffectTold
<1>. QED
  BY <1>11, <1>12

\* Every step is one of FileLibrary, or goes unseen.
LEMMA StepsTold == IInv /\ HoldersWork /\ Book /\ CallsFit /\ HeldAsRead /\ [Next]_vars => Tells
<1>. SUFFICES ASSUME IInv, HoldersWork, Book, CallsFit, HeldAsRead, [Next]_vars PROVE Tells
  OBVIOUS
<1>. USE Constants
<1>1. CASE UNCHANGED vars
  BY <1>1, UnseenSteps
<1>2. ASSUME NEW p \in Processes, Advance(p) PROVE Tells
  BY <1>2, UnseenSteps, FinishUnseen DEF Advance
<1>3. ASSUME NEW o \in Ops, Commit(o) PROVE Tells
  <2>1. proc[o].op = o /\ Working(o) /\ proc[o].at = "plan" /\ Holds(o) /\ Open(o) /\ UNCHANGED refs
    BY <1>3, HoldsAlone DEF Commit, Working
  <2>. QED
    BY <1>3, <2>1, UploadTakesEffect, OverwriteTakesEffect, RelocationTakesEffect, PurgeTakesEffect
       DEF Commit
<1>4. ASSUME NEW o \in Ops, Request(o) \/ Refuse(o) \/ ServeRequest(o) \/ Lapse(o) \/ Deadline(o)
      PROVE  Tells
  <2>1. CASE ServeRequest(o)
    BY <1>2, <1>3, <2>1, UnseenSteps, PrepareUnseen DEF ServeRequest
  <2>. QED
    BY <1>4, <2>1, UnseenSteps, RequestAsks
<1>5. ASSUME NEW w \in Workers, ServeJob(w) PROVE Tells
  <2>1. CASE PurgeByJob(w)
    BY <2>1, PurgeTakesEffect DEF PurgeByJob, Working
  <2>. QED
    BY <1>2, <1>5, <2>1, UnseenSteps, AbortRefuses DEF ServeJob
<1>6. ASSUME NEW w \in Workers, NEW o \in Ops,
             \/ Claim(w, o)
             \/ \E v \in Ids : EnlistHistory(w, o, v)
             \/ \E f \in Ids : EnlistTrash(w, o, f)
      PROVE  Tells
  BY <1>6, UnseenSteps, EnlistAsks
<1>7. ASSUME NEW v \in Ids, Refer(v) \/ Unrefer(v) PROVE Tells
  BY <1>7, ReferencesTold
<1>8. CASE Mishap
  BY <1>8, UnseenSteps DEF Mishap
<1>. QED
  BY <1>1, <1>4, <1>5, <1>6, <1>7, <1>8 DEF Next

\* The start of the organization is the start of its library.
LEMMA LibraryBegins == Init => HeldAsRead /\ Library!Init
<1>. SUFFICES ASSUME Init PROVE HeldAsRead /\ Library!Init
  OBVIOUS
<1>. USE Constants
<1>1. HeldAsRead
  BY DEF Init, HeldAsRead, Open, NoOp
<1>2. Files = [f \in Ids |-> IF f = First
         THEN [state |-> "active", path |-> Home, current |-> First, rev |-> 1] ELSE Library!NoFile]
  BY DEF Init, Files, NoEntry, Library!NoFile
<1>3. Copies = [v \in Ids |-> IF v = First
         THEN [state |-> "live", file |-> First] ELSE Library!NoCopy]
  BY DEF Init, Copies, NoVersion, Library!NoCopy
<1>4. refs = {} /\ Outcomes = [o \in Ops |-> "none"]
  BY DEF Init, Outcomes, Outcome, Open, Committed, NoOp
<1>. QED
  BY <1>1, <1>2, <1>3, <1>4 DEF Library!Init, Library!Ids, Ids

\* However the transactions, calls, failures and maintenance of file
\* operations interleave, every operation takes effect at its commit, once, as
\* a whole and on the revision its member had read, or has no effect; an
\* active file keeps its name to itself, and what a project refers to stays.
THEOREM LibraryImplemented == Spec => ImplementsLibrary
<1>1. Init => IInv /\ HoldersWork /\ Book /\ CallsFit /\ HeldAsRead /\ Library!Init
  BY InitHolds, LocksBegin, CallsBegin, LibraryBegins
<1>2. IInv /\ HoldersWork /\ Book /\ CallsFit /\ HeldAsRead /\ [Next]_vars
         => (IInv /\ HoldersWork /\ Book /\ CallsFit /\ HeldAsRead)' /\ [Library!Next]_(Library!vars)
  BY StepHolds, LocksHold, StepFits, StepsTold DEF Tells
<1>. QED
  BY <1>1, <1>2, PTL DEF Spec, ImplementsLibrary, Library!Spec

\* Two active files never share a name, whatever requests and maintenance do
\* at the same time (file_entries' unique path, reserveNamespace).
THEOREM NamesApart == Spec => []PathsApart
<1>1. Book => PathsApart
  BY DEF Book
<1>. QED
  BY <1>1, CallsFitPlans, PTL
=============================================================================
