--------------------------- MODULE FileContentProofs ---------------------------
(***************************************************************************)
(* No step of FileWrites loses the content of a version: what lies at an   *)
(* address is only ever deleted by a call that the plan of its operation   *)
(* allows, and every call that writes finds its address empty.  Nothing is *)
(* left behind: an operation is only settled once every address of its     *)
(* plan is empty or that of a version that lives.  And the counters of the *)
(* usage are the sums of what they stand for: each step gives back what    *)
(* the rows it changes had taken, no more and no less.                     *)
(***************************************************************************)
EXTENDS FileCallsProofs, Sums

-----------------------------------------------------------------------------
(* What the storage holds *)

\* What a call wrote is there while its executor still acts.
Landed(p) ==
    LET x == objs[proc[p].op][proc[p].slot]
    IN  /\ proc[p].at = "made" => disk[x.dst] = x.ver
        /\ proc[p].at = "restored" => disk[x.src] = x.ver
CallsLanded == \A p \in Processes : Active(p) => Landed(p)

\* What a request recorded as prepared is there while it keeps its lease.
Made(o, s) == objs[o][s].dst \in Locations /\ disk[objs[o][s].dst] = objs[o][s].ver
Serving(o) == Working(o) /\ ~proc[o].lost /\ Open(o)
MadeStays == \A o \in Ops : Serving(o) => \A s \in Slots : objs[o][s].prepared => Made(o, s)

\* A source whose deletion was begun lies in its archive, or back in its place.
Archived(o, s) ==
    disk[IF objs[o][s].restored THEN objs[o][s].src ELSE objs[o][s].dst] = objs[o][s].ver
ArchivesStay ==
    \A o \in Ops : Unsettled(o) => \A s \in Slots : objs[o][s].started => Archived(o, s)

\* A version lies at its address, or the operation that may delete it there
\* is under way.
InPlace(v) == disk[versions[v].loc] = v
ContentHeld ==
    \A v \in Ids : versions[v].state = "live" => InPlace(v) \/ \E o \in Ops : Exposed(o, v)

Content == CallsLanded /\ MadeStays /\ ArchivesStay /\ ContentHeld

\* An archive, or the source it was copied back to, is one of the addresses
\* of its operation.
LEMMA ArchiveTouched ==
    ASSUME IInv, Book, NEW o \in Ops, Unsettled(o), NEW s \in Slots, objs[o][s].started,
           NEW l, l = IF objs[o][s].restored THEN objs[o][s].src ELSE objs[o][s].dst
    PROVE  l \in Locations /\ Touches(o, l) /\ objs[o][s].ver \in Ids
<1>. USE Constants, Addresses
<1>1. /\ s \in Ids /\ Present(o, s) /\ entries[ops[o].file].path \in Paths
      /\ objs[o][s].src = InFiles(entries[ops[o].file].path) /\ objs[o][s].dst = InHistory(s)
  BY StartedShape
<1>2. objs[o][s] \in ObjectStates
  BY DEF IInv, RowsOK
<1>. QED
  BY <1>1, <1>2 DEF Touches, Present, ObjectStates

\* Who deletes at an address is alone with it.
LEMMA DropperAlone ==
    ASSUME IInv, HoldersWork, Book, CallsFit, NEW r \in Processes, proc[r].at = "drop",
           NEW o \in Ops, Unsettled(o), NEW l \in Locations, Touches(o, l), l = proc[r].loc
    PROVE  /\ Active(r) /\ proc[r].op = o /\ DropFits(r) /\ Spared(o, l)
           /\ \A q \in Processes \ {r} : Active(q) => proc[q].op # o
<1>1. Active(r)
  BY DEF Active, Calling
<1>2. PICK u \in Ops : u = proc[r].op /\ Unsettled(u)
  BY <1>1, ActiveHolds DEF Holder
<1>3. DropFits(r)
  BY <1>1 DEF CallsFit, CallFits
<1>4. Touches(u, l) /\ Spared(u, l)
  BY <1>2, <1>3 DEF DropFits
<1>5. Owned(u, l) /\ Owned(o, l)
  BY <1>2, <1>4 DEF Book, PlansOwned
<1>6. u = o
  BY <1>5, OwnedApart
<1>. QED
  BY <1>1, <1>2, <1>3, <1>4, <1>6, ActiveApart

\* The rows stay, executors move and calls land: nothing but a deletion takes
\* what lies at an address.
LEMMA KeepStep ==
    ASSUME IInv, HoldersWork, Book, CallsFit, Content, UNCHANGED <<versions, objs>>,
           \A o \in Ops : ops'[o].phase = ops[o].phase /\ ops'[o].kind = ops[o].kind,
           \A q \in Processes : Active(q)' =>
              \/ /\ Active(q) /\ proc'[q].at = proc[q].at /\ proc'[q].op = proc[q].op
                 /\ proc'[q].slot = proc[q].slot
              \/ Landed(q)',
           \A o \in Ops : (Working(o) /\ ~proc[o].lost)' => Working(o) /\ ~proc[o].lost,
           \A l \in Locations, v \in Ids : disk[l] = v /\ disk'[l] # v =>
              \E r \in Processes : proc[r].at = "drop" /\ proc[r].loc = l
    PROVE  Content'
<1>. USE Constants
<1>1. \A o \in Ops : /\ Unsettled(o)' = Unsettled(o) /\ Open(o)' = Open(o) /\ Purging(o)' = Purging(o)
                     /\ \A s \in Slots : Present(o, s)' = Present(o, s)
                     /\ \A v \in Ids : Exposed(o, v)' = Exposed(o, v)
  BY DEF Exposed, Unsettled, Open, Committed, Purging, Present
<1>2. CallsLanded'
  <2>. SUFFICES ASSUME NEW q \in Processes, Active(q)' PROVE Landed(q)'
    BY DEF CallsLanded
  <2>. SUFFICES ASSUME Active(q), proc'[q].at = proc[q].at, proc'[q].op = proc[q].op,
                       proc'[q].slot = proc[q].slot, proc[q].at \in {"made", "restored"}
                PROVE  Landed(q)'
    BY DEF Landed
  <2>1. PICK o \in Ops, s \in Slots : o = proc[q].op /\ s = proc[q].slot
    BY DEF IInv, ExecutorsPlaced, PlacedAs
  <2>2. objs[o][s] \in ObjectStates /\ objs[o][s].ver \in Ids
    BY <2>1 DEF IInv, RowsOK, ExecutorsPlaced, PlacedAs, Present, ObjectStates
  <2>3. Unsettled(o) /\ CallFits(q) /\ Landed(q)
    BY <2>1, ActiveHolds DEF Holder, CallsFit, Content, CallsLanded
  <2>4. PICK l \in {objs[o][s].dst, objs[o][s].src} :
           l = IF proc[q].at = "made" THEN objs[o][s].dst ELSE objs[o][s].src
    OBVIOUS
  <2>5. l \in Locations /\ Touches(o, l)
    <3>1. l # None
      <4>1. CASE proc[q].at = "made"
        BY <2>1, <2>3, <2>4, <4>1 DEF CallFits, MakeFits
      <4>2. CASE proc[q].at = "restored"
        BY <2>1, <2>3, <2>4, <4>2, StartedShape, AddressesApart DEF CallFits, RestoreFits
      <4>. QED
        BY <4>1, <4>2
    <3>. QED
      BY <2>2, <2>4, <3>1 DEF Touches, ObjectStates
  <2>6. disk[l] = objs[o][s].ver
    BY <2>1, <2>3, <2>4 DEF Landed
  <2>7. ~ \E r \in Processes : proc[r].at = "drop" /\ proc[r].loc = l
    BY <2>1, <2>3, <2>5, DropperAlone
  <2>8. disk'[l] = objs[o][s].ver
    BY <2>2, <2>5, <2>6, <2>7
  <2>. QED
    BY <2>1, <2>4, <2>8 DEF Landed
<1>3. MadeStays'
  <2>. SUFFICES ASSUME NEW o \in Ops, Serving(o)', NEW s \in Slots, objs[o][s].prepared PROVE Made(o, s)'
    BY DEF MadeStays
  <2>1. Serving(o) /\ Active(o) /\ Made(o, s)
    BY <1>1 DEF Serving, Active, Content, MadeStays
  <2>2. Unsettled(o) /\ proc[o].op = o
    BY <2>1, ActiveHolds DEF Serving, Unsettled, IInv, ExecutorsPlaced, PlacedAs, Working
  <2>3. objs[o][s].ver \in Ids
    <3>1. Present(o, s)
      BY DEF IInv, PlansFollow, Blank
    <3>. QED
      BY <3>1 DEF Present, IInv, RowsOK, ObjectStates
  <2>4. PICK l \in Locations : l = objs[o][s].dst
    BY <2>1 DEF Made
  <2>5. ~ \E r \in Processes : proc[r].at = "drop" /\ proc[r].loc = l
    <3>. SUFFICES ASSUME NEW r \in Processes, proc[r].at = "drop", proc[r].loc = l PROVE FALSE
      OBVIOUS
    <3>1. Touches(o, l)
      BY <2>4 DEF Touches
    <3>2. r = o /\ DropFits(r)
      BY <2>1, <2>2, <2>4, <3>1, DropperAlone
    <3>. QED
      BY <2>1, <2>2, <2>4, <3>2 DEF DropFits, Serving
  <2>. QED
    BY <2>1, <2>3, <2>4, <2>5 DEF Made
<1>4. ArchivesStay'
  <2>. SUFFICES ASSUME NEW o \in Ops, Unsettled(o), NEW s \in Slots, objs[o][s].started
                PROVE  Archived(o, s)'
    BY <1>1 DEF ArchivesStay
  <2>1. PICK l : l = IF objs[o][s].restored THEN objs[o][s].src ELSE objs[o][s].dst
    OBVIOUS
  <2>2. l \in Locations /\ Touches(o, l) /\ objs[o][s].ver \in Ids
    BY <2>1, ArchiveTouched
  <2>3. disk[l] = objs[o][s].ver
    BY <2>1 DEF Content, ArchivesStay, Archived
  <2>4. ~ \E r \in Processes : proc[r].at = "drop" /\ proc[r].loc = l
    BY <2>1, <2>2, DropperAlone DEF Spared
  <2>5. disk'[l] = objs[o][s].ver
    BY <2>2, <2>3, <2>4
  <2>. QED
    BY <2>1, <2>5 DEF Archived
<1>5. ContentHeld'
  <2>. SUFFICES ASSUME NEW v \in Ids, versions[v].state = "live", \A o \in Ops : ~Exposed(o, v)
                PROVE  disk'[versions[v].loc] = v
    BY <1>1 DEF ContentHeld, InPlace
  <2>1. disk[versions[v].loc] = v
    BY DEF Content, ContentHeld, InPlace
  <2>2. PICK l \in Locations : l = versions[v].loc
    BY PlaceOf, Addresses
  <2>3. ASSUME NEW r \in Processes, proc[r].at = "drop", proc[r].loc = l PROVE FALSE
    <3>1. Active(r)
      BY <2>3 DEF Active, Calling
    <3>2. proc[r].op \in Ops /\ DropFits(r)
      BY <2>3, <3>1, ActiveHolds DEF CallsFit, CallFits
    <3>. QED
      BY <2>2, <2>3, <3>2 DEF DropFits, Spared
  <2>. QED
    BY <2>1, <2>2, <2>3
<1>. QED
  BY <1>2, <1>3, <1>4, <1>5 DEF Content

-----------------------------------------------------------------------------
(* Steps that leave the rows alone *)

\* A call writes where nothing lies, or what lies there already.
LEMMA Written ==
    ASSUME IInv, NEW d, NEW c, disk' = [disk EXCEPT ![d] = c], disk[d] \in {"empty", c}
    PROVE  \A l \in Locations, v \in Ids : disk[l] = v => disk'[l] = v
<1>1. disk \in [Locations -> Contents] /\ "empty" \notin Ids
  BY FilesAssumption DEF IInv, RowsOK
<1>. QED
  BY <1>1

LEMMA WritesKeep ==
    ASSUME IInv,
           \/ \E o \in Ops : Make(o) \/ MakeFails(o)
           \/ \E w \in Workers : Restore(w) \/ RestoreFails(w)
    PROVE  \A l \in Locations, v \in Ids : disk[l] = v => disk'[l] = v
<1>1. ASSUME NEW o \in Ops, Make(o) \/ MakeFails(o)
      PROVE  \A l \in Locations, v \in Ids : disk[l] = v => disk'[l] = v
  <2>1. CASE UNCHANGED disk
    BY <2>1
  <2>2. CASE ~UNCHANGED disk
    <3>1. PICK d, c : disk[d] = "empty" /\ disk' = [disk EXCEPT ![d] = c]
      BY <1>1, <2>2 DEF Make, MakeFails, Writable
    <3>. QED
      BY <3>1, Written
  <2>. QED
    BY <2>1, <2>2
<1>2. ASSUME NEW w \in Workers, Restore(w) \/ RestoreFails(w)
      PROVE  \A l \in Locations, v \in Ids : disk[l] = v => disk'[l] = v
  <2>1. CASE UNCHANGED disk
    BY <2>1
  <2>2. CASE ~UNCHANGED disk
    <3>1. PICK x : x = objs[proc[w].op][proc[w].slot]
      OBVIOUS
    <3>2. CASE Restore(w)
      <4>1. Restorable(x) /\ disk' = [disk EXCEPT ![x.src] = x.ver]
        BY <2>2, <3>1, <3>2 DEF Restore
      <4>2. disk[x.src] \in {"empty", x.ver}
        BY <4>1 DEF Restorable
      <4>. QED
        BY <4>1, <4>2, Written
    <3>3. CASE RestoreFails(w)
      <4>1. PICK c : disk[x.src] = "empty" /\ disk' = [disk EXCEPT ![x.src] = c]
        BY <2>2, <3>1, <3>3 DEF RestoreFails
      <4>. QED
        BY <4>1, Written
    <3>. QED
      BY <1>2, <3>2, <3>3
  <2>. QED
    BY <2>1, <2>2
<1>. QED
  BY <1>1, <1>2

\* One executor moves, the others stay where they are.
LEMMA MoverKeeps ==
    ASSUME IInv, HoldersWork, Book, CallsFit, Content, UNCHANGED <<versions, objs>>,
           \A o \in Ops : ops'[o].phase = ops[o].phase /\ ops'[o].kind = ops[o].kind,
           NEW p \in Processes, \A q \in Processes \ {p} : proc'[q] = proc[q],
           Active(p)' => Landed(p)',
           p \in Ops => ((Working(p) /\ ~proc[p].lost)' => Working(p) /\ ~proc[p].lost),
           \A l \in Locations, v \in Ids : disk[l] = v /\ disk'[l] # v =>
              proc[p].at = "drop" /\ proc[p].loc = l
    PROVE  Content'
<1>. USE Constants
<1>1. \A q \in Processes \ {p} :
         /\ Active(q)' => Active(q)
         /\ (Working(q) /\ ~proc[q].lost)' => Working(q) /\ ~proc[q].lost
  BY DEF Active, Calling, Working
<1>2. \A q \in Processes : Active(q)' =>
         \/ /\ Active(q) /\ proc'[q].at = proc[q].at /\ proc'[q].op = proc[q].op
            /\ proc'[q].slot = proc[q].slot
         \/ Landed(q)'
  BY <1>1
<1>3. \A o \in Ops : (Working(o) /\ ~proc[o].lost)' => Working(o) /\ ~proc[o].lost
  BY <1>1
<1>. QED
  BY <1>2, <1>3, KeepStep

LEMMA IssuesKeep ==
    ASSUME IInv, HoldersWork, Book, CallsFit, Content, NEW p \in Processes,
           \/ \E l \in Locations : IssueDrop(p, l)
           \/ p \in Ops /\ \E s \in Slots : IssueMake(p, s)
           \/ p \in Workers /\ \E s \in Slots : IssueRestore(p, s)
    PROVE  Content'
<1>1. PICK at, t :
         /\ at \in {"drop", "make", "restore"}
         /\ \/ proc' = [proc EXCEPT ![p].at = at, ![p].slot = t]
            \/ proc' = [proc EXCEPT ![p].at = at, ![p].loc = t]
  BY DEF IssueDrop, IssueMake, IssueRestore
<1>2. proc[p].at = "plan" /\ ~proc[p].lost /\ UNCHANGED <<versions, ops, objs, disk>>
  BY DEF IssueDrop, IssueMake, IssueRestore
<1>3. proc'[p].at = at /\ \A q \in Processes \ {p} : proc'[q] = proc[q]
  <2>1. proc \in [Processes -> ProcStates] /\ proc[p] \in ProcStates
    BY DEF IInv, RowsOK
  <2>2. CASE proc' = [proc EXCEPT ![p].at = at, ![p].slot = t]
    BY ONLY <2>1, <2>2, p \in Processes DEF ProcStates
  <2>3. CASE proc' = [proc EXCEPT ![p].at = at, ![p].loc = t]
    BY ONLY <2>1, <2>3, p \in Processes DEF ProcStates
  <2>. QED
    BY <1>1, <2>2, <2>3
<1>4. Working(p)
  BY <1>2 DEF Working
<1>5. Landed(p)'
  BY <1>1, <1>3 DEF Landed
<1>. QED
  BY <1>2, <1>3, <1>4, <1>5, MoverKeeps

LEMMA StopsKeep ==
    ASSUME IInv, HoldersWork, Book, CallsFit, Content, NEW p \in Processes,
           \/ p \in Ops /\ (Refuse(p) \/ MakeFails(p))
           \/ p \in Workers /\ RestoreFails(p)
           \/ GiveUp(p) \/ Break(p) \/ Handoff(p) \/ Crash(p) \/ DropFails(p)
    PROVE  Content'
<1>1. Leave(p) \/ Die(p)
  BY DEF Refuse, MakeFails, RestoreFails, GiveUp, Break, Handoff, Crash, DropFails
<1>2. UNCHANGED <<versions, objs>>
  BY DEF Refuse, MakeFails, RestoreFails, GiveUp, Break, Handoff, Crash, DropFails
<1>3. \A o \in Ops : ops'[o].phase = ops[o].phase /\ ops'[o].kind = ops[o].kind
  <2>1. CASE UNCHANGED ops
    BY <2>1
  <2>2. CASE Handoff(p) /\ ~UNCHANGED ops
    <3>1. ops \in [Ops -> OpStates]
      BY DEF IInv, RowsOK
    <3>2. ops' = [ops EXCEPT ![proc[p].op].error = TRUE, ![proc[p].op].live = FALSE]
      BY <2>2 DEF Handoff
    <3>. QED
      BY <3>1, <3>2 DEF OpStates
  <2>. QED
    BY <2>1, <2>2 DEF Refuse, MakeFails, RestoreFails, GiveUp, Break, Crash, DropFails
<1>4. \A l \in Locations, v \in Ids : disk[l] = v /\ disk'[l] # v => proc[p].at = "drop" /\ proc[p].loc = l
  <2>1. CASE UNCHANGED disk
    BY <2>1
  <2>2. CASE (p \in Ops /\ MakeFails(p)) \/ (p \in Workers /\ RestoreFails(p))
    BY <2>2, WritesKeep
  <2>3. CASE DropFails(p)
    <3>1. PICK c : disk' = [disk EXCEPT ![proc[p].loc] = c]
      BY <2>3 DEF DropFails
    <3>2. proc[p].at = "drop"
      BY <2>3 DEF DropFails
    <3>. QED
      BY <3>1, <3>2 DEF IInv, RowsOK
  <2>. QED
    BY <2>1, <2>2, <2>3 DEF Refuse, GiveUp, Break, Handoff, Crash
<1>5. ~Working(p)' /\ ~Active(p)' /\ \A q \in Processes \ {p} : proc'[q] = proc[q]
  BY <1>1, StopEffect DEF Active, Calling, Working
<1>. QED
  BY <1>2, <1>3, <1>4, <1>5, MoverKeeps

LEMMA ReturnsKeep ==
    ASSUME IInv, HoldersWork, Book, CallsFit, Content, NEW p \in Processes,
           (p \in Ops /\ Make(p)) \/ (p \in Workers /\ Restore(p)) \/ Drop(p)
    PROVE  Content'
<1>. USE Constants, Addresses
<1>1. UNCHANGED <<versions, objs, ops>>
  BY DEF Make, Restore, Drop
<1>2. disk \in [Locations -> Contents]
  BY DEF IInv, RowsOK
<1>3. CASE Leave(p)
  <2>1. UNCHANGED disk
    <3>1. ~Drop(p)
      <4>1. Leave(p) => proc'[p].at = "handoff"
        BY GoEffect DEF Leave
      <4>2. Drop(p) => proc'[p].at = "dropped"
        BY GoEffect DEF Drop
      <4>. QED
        BY <1>3, <4>1, <4>2
    <3>2. Go(p, "handoff")
      BY <1>3 DEF Leave
    <3>3. ~Go(p, "made") /\ ~Go(p, "restored")
      BY <3>2, GoEffect
    <3>. QED
      BY <3>1, <3>3 DEF Make, Restore
  <2>2. ~Working(p)' /\ ~Active(p)' /\ \A q \in Processes \ {p} : proc'[q] = proc[q]
    BY <1>3, StopEffect DEF Active, Calling, Working
  <2>. QED
    BY <1>1, <2>1, <2>2, MoverKeeps
<1>4. CASE Drop(p)
  <2>1. proc'[p].at = "dropped" /\ proc'[p].lost = proc[p].lost /\ \A q \in Processes \ {p} : proc'[q] = proc[q]
    BY <1>4, GoEffect DEF Drop
  <2>2. proc[p].at = "drop" /\ disk' = [disk EXCEPT ![proc[p].loc] = "empty"]
    BY <1>4 DEF Drop
  <2>. QED
    BY <1>1, <1>2, <2>1, <2>2, MoverKeeps DEF Landed, Working
<1>5. CASE p \in Ops /\ Make(p) /\ ~Leave(p)
  <2>1. PICK o \in Ops, s \in Slots : o = proc[p].op /\ s = proc[p].slot /\ o = p
    BY <1>5, PlannedVersion DEF Make
  <2>2. /\ proc[p].at = "make" /\ Go(p, "made")
        /\ disk' = [disk EXCEPT ![objs[o][s].dst] = objs[o][s].ver]
    BY <1>5, <2>1 DEF Make
  <2>3. /\ proc'[p].at = "made" /\ proc'[p].op = o /\ proc'[p].slot = s /\ proc'[p].lost = proc[p].lost
        /\ \A q \in Processes \ {p} : proc'[q] = proc[q]
    BY <2>1, <2>2, GoEffect
  <2>4. objs[o][s].dst \in Locations
    <3>1. objs[o][s].dst # None
      BY <2>1, <2>2 DEF CallsFit, Active, Calling, CallFits, MakeFits
    <3>. QED
      BY <3>1 DEF IInv, RowsOK, ObjectStates
  <2>5. Landed(p)'
    BY <1>1, <1>2, <2>2, <2>3, <2>4 DEF Landed
  <2>. QED
    BY <1>1, <1>5, <2>2, <2>3, <2>5, WritesKeep, MoverKeeps DEF Working
<1>6. CASE p \in Workers /\ Restore(p) /\ ~Leave(p)
  <2>1. PICK o \in Ops, s \in Slots : o = proc[p].op /\ s = proc[p].slot
    BY <1>6, PlannedVersion DEF Restore
  <2>2. /\ proc[p].at = "restore" /\ Go(p, "restored")
        /\ disk' = [disk EXCEPT ![objs[o][s].src] = objs[o][s].ver]
    BY <1>6, <2>1 DEF Restore
  <2>3. /\ proc'[p].at = "restored" /\ proc'[p].op = o /\ proc'[p].slot = s /\ proc'[p].lost = proc[p].lost
        /\ \A q \in Processes \ {p} : proc'[q] = proc[q]
    BY <2>1, <2>2, GoEffect
  <2>4. objs[o][s].src \in Locations
    <3>1. Unsettled(o) /\ objs[o][s].started
      BY <2>1, <2>2 DEF CallsFit, Active, Calling, CallFits, RestoreFits, Unsettled
    <3>. QED
      BY <3>1, StartedShape
  <2>5. Landed(p)'
    BY <1>1, <1>2, <2>2, <2>3, <2>4 DEF Landed
  <2>. QED
    BY <1>1, <1>6, <2>2, <2>3, <2>5, WritesKeep, MoverKeeps DEF Working
<1>. QED
  BY <1>3, <1>4, <1>5, <1>6

\* The lock or a lease goes, a reference is made or dropped, maintenance
\* takes an operation.
LEMMA TimeKeeps ==
    ASSUME IInv, HoldersWork, Book, CallsFit, Content,
           \/ UNCHANGED vars
           \/ \E o \in Ops : Stall(o) \/ Lapse(o) \/ Deadline(o)
           \/ \E p \in Processes : LoseLock(p)
           \/ \E v \in Ids : Refer(v) \/ Unrefer(v)
    PROVE  Content'
<1>. USE Constants
<1>1. ops \in [Ops -> OpStates] /\ proc \in [Processes -> ProcStates]
  BY DEF IInv, RowsOK
<1>2. /\ UNCHANGED <<versions, objs, disk>>
      /\ UNCHANGED ops \/ \E o \in Ops : \/ ops' = [ops EXCEPT ![o].live = FALSE]
                                         \/ ops' = [ops EXCEPT ![o].due = TRUE]
      /\ proc' = proc \/ \E p : proc' = [proc EXCEPT ![p].lost = TRUE]
  BY DEF vars, Stall, Lapse, Deadline, LoseLock, Refer, Unrefer
<1>3. \A o \in Ops : ops'[o].phase = ops[o].phase /\ ops'[o].kind = ops[o].kind
  BY <1>1, <1>2 DEF OpStates
<1>4. \A p \in Processes : /\ proc'[p].at = proc[p].at /\ proc'[p].op = proc[p].op
                           /\ proc'[p].slot = proc[p].slot /\ (proc[p].lost => proc'[p].lost)
  BY <1>1, <1>2 DEF ProcStates
<1>5. \A p \in Processes : /\ Active(p)' => Active(p)
                           /\ (Working(p) /\ ~proc[p].lost)' => Working(p) /\ ~proc[p].lost
  BY <1>4 DEF Active, Calling, Working
<1>. QED
  BY <1>2, <1>3, <1>4, <1>5, KeepStep

LEMMA ClaimKeeps ==
    ASSUME IInv, HoldersWork, Book, CallsFit, Content, NEW w \in Workers, NEW o \in Ops, Claim(w, o)
    PROVE  Content'
<1>. USE Constants
<1>1. /\ UNCHANGED <<versions, objs, disk>> /\ Started(w, o)
      /\ ops' = [ops EXCEPT ![o].token = w, ![o].live = TRUE]
  BY DEF Claim
<1>2. proc'[w].at = "plan" /\ \A q \in Processes \ {w} : proc'[q] = proc[q]
  BY <1>1 DEF Started, Idle, IInv, RowsOK
<1>3. \A q \in Ops : ops'[q].phase = ops[q].phase /\ ops'[q].kind = ops[q].kind
  BY <1>1 DEF IInv, RowsOK, OpStates
<1>4. w \notin Ops
  BY FilesAssumption
<1>. QED
  BY <1>1, <1>2, <1>3, <1>4, MoverKeeps DEF Landed

-----------------------------------------------------------------------------
(* Steps on the rows of one operation *)

LEMMA OwnStep ==
    ASSUME IInv, HoldersWork, Content, UNCHANGED disk,
           NEW o \in Ops, \A q \in Ops \ {o} : ops'[q] = ops[q] /\ objs'[q] = objs[q],
           NEW p \in Processes, p \in Ops => p = o,
           \A q \in Processes \ {p} : proc'[q] = proc[q] /\ (Active(q) => proc[q].op # o),
           Active(p)' => Landed(p)',
           Serving(o)' => \A s \in Slots : objs'[o][s].prepared => Made(o, s)',
           Unsettled(o)' => \A s \in Slots : objs'[o][s].started => Archived(o, s)',
           \A v \in Ids : versions'[v].state = "live" =>
              \/ Exposed(o, v)'
              \/ InPlace(v)'
              \/ versions'[v] = versions[v] /\ ~Exposed(o, v)
    PROVE  Content'
<1>. USE Constants
<1>1. \A q \in Ops \ {o} :
         /\ Unsettled(q)' = Unsettled(q) /\ Open(q)' = Open(q) /\ Purging(q)' = Purging(q)
         /\ \A v \in Ids : Exposed(q, v)' = Exposed(q, v)
  BY DEF Exposed, Unsettled, Open, Committed, Purging, Present
<1>2. CallsLanded'
  <2>. SUFFICES ASSUME NEW q \in Processes \ {p}, Active(q)' PROVE Landed(q)'
    BY DEF CallsLanded
  <2>1. Active(q) /\ proc'[q] = proc[q] /\ proc[q].op # o
    BY DEF Active, Calling, Working
  <2>2. proc[q].op \in Ops
    BY <2>1, ActiveHolds
  <2>. QED
    BY <2>1, <2>2, SMTT(30) DEF Content, CallsLanded, Landed
<1>3. MadeStays'
  <2>. SUFFICES ASSUME NEW q \in Ops \ {o}, Serving(q)', NEW s \in Slots, objs'[q][s].prepared
                PROVE  Made(q, s)'
    BY DEF MadeStays
  <2>1. Serving(q)
    BY <1>1 DEF Serving, Working
  <2>. QED
    BY <2>1 DEF Content, MadeStays, Made
<1>4. ArchivesStay'
  BY <1>1 DEF Content, ArchivesStay, Archived
<1>5. ContentHeld'
  <2>. SUFFICES ASSUME NEW v \in Ids, versions'[v].state = "live", versions'[v] = versions[v],
                       ~Exposed(o, v)
                PROVE  InPlace(v)' \/ \E q \in Ops : Exposed(q, v)'
    BY DEF ContentHeld
  <2>1. CASE InPlace(v)
    BY <2>1 DEF InPlace
  <2>2. CASE ~InPlace(v)
    <3>1. PICK q \in Ops \ {o} : Exposed(q, v)
      BY <2>2 DEF Content, ContentHeld
    <3>. QED
      BY <1>1, <3>1
  <2>. QED
    BY <2>1, <2>2
<1>. QED
  BY <1>2, <1>3, <1>4, <1>5 DEF Content

\* An executor records a fact of its operation.
LEMMA RecordStep ==
    ASSUME IInv, HoldersWork, Content, UNCHANGED <<versions, ops, disk>>,
           NEW p \in Processes, Working(p), Holds(p), NEW o \in Ops, o = proc[p].op,
           \A q \in Processes \ {p} : proc'[q] = proc[q], proc'[p].at \notin {"made", "restored"},
           \A q \in Ops \ {o} : objs'[q] = objs[q],
           \A s \in Slots : /\ Present(o, s) => Present(o, s)'
                            /\ objs[o][s].started => objs'[o][s].started,
           p = o /\ Open(o) => \A s \in Slots : objs'[o][s].prepared => Made(o, s)',
           \A s \in Slots : objs'[o][s].started => Archived(o, s)'
    PROVE  Content'
<1>. USE Constants
<1>1. /\ p \in Ops => p = o
      /\ \A q \in Processes \ {p} : Active(q) => proc[q].op # o
  BY HoldsAlone
<1>2. Unsettled(o)' = Unsettled(o) /\ Open(o)' = Open(o) /\ Purging(o)' = Purging(o)
  BY DEF Unsettled, Open, Committed, Purging
<1>3. Serving(o)' => p = o
  <2>. SUFFICES ASSUME Serving(o)', p # o PROVE FALSE
    OBVIOUS
  <2>1. Active(o) /\ Working(o)
    BY DEF Serving, Active, Working
  <2>. QED
    BY <1>1, <2>1 DEF IInv, ExecutorsPlaced, PlacedAs, Working
<1>4. Serving(o)' => \A s \in Slots : objs'[o][s].prepared => Made(o, s)'
  BY <1>2, <1>3 DEF Serving
<1>5. \A v \in Ids : Exposed(o, v) => Exposed(o, v)'
  BY <1>2 DEF Exposed
<1>6. Landed(p)'
  BY DEF Landed
<1>. QED
  BY <1>1, <1>4, <1>5, <1>6, OwnStep

LEMMA RecordMadeKeeps ==
    ASSUME IInv, HoldersWork, Book, CallsFit, Content, NEW o \in Ops, RecordMade(o)
    PROVE  Content'
<1>. USE Constants
<1>1. PICK s : s = proc[o].slot
  OBVIOUS
<1>2. /\ proc[o].at = "made" /\ Holds(o) /\ Open(o) /\ Working(o) /\ UNCHANGED <<versions, ops, disk>>
      /\ objs' = [objs EXCEPT ![o][s].prepared = TRUE, ![o][s].temp = Transient(o, s)]
      /\ proc' = [proc EXCEPT ![o].at = "plan", ![o].slot = None]
  BY <1>1 DEF RecordMade, Working
<1>13. proc[o].at = "made" /\ Holds(o) /\ Open(o) /\ Working(o) /\ UNCHANGED <<versions, ops, disk>>
  BY <1>2
<1>3. proc[o].op = o /\ CallFits(o) /\ Landed(o) /\ Serving(o)
  BY <1>2, HoldsAlone DEF CallsFit, Content, CallsLanded, Serving, Holds
<1>4. s \in Slots /\ MakeFits(o)
  BY <1>1, <1>2, <1>3 DEF CallFits, IInv, ExecutorsPlaced, PlacedAs
<1>5. objs[o] \in [Slots -> ObjectStates]
  BY DEF IInv, RowsOK
<1>6. /\ \A q \in Ops \ {o} : objs'[q] = objs[q]
      /\ objs'[o][s] = [objs[o][s] EXCEPT !.prepared = TRUE, !.temp = Transient(o, s)]
      /\ \A t \in Slots \ {s} : objs'[o][t] = objs[o][t]
  <2>1. objs' = [objs EXCEPT ![o] = [objs[o] EXCEPT ![s] =
                    [objs[o][s] EXCEPT !.prepared = TRUE, !.temp = Transient(o, s)]]]
    BY <1>2, <1>4, <1>5 DEF ObjectStates, IInv, RowsOK
  <2>. QED
    BY <1>4, <2>1, ObjectEdit
<1>7. \A t \in Slots :
         /\ objs'[o][t].ver = objs[o][t].ver /\ objs'[o][t].src = objs[o][t].src
         /\ objs'[o][t].dst = objs[o][t].dst /\ objs'[o][t].started = objs[o][t].started
         /\ objs'[o][t].restored = objs[o][t].restored
         /\ objs'[o][t].prepared <=> objs[o][t].prepared \/ t = s
  <2>1. objs[o][s] \in ObjectStates
    BY <1>4, <1>5
  <2>2. /\ objs'[o][s].ver = objs[o][s].ver /\ objs'[o][s].src = objs[o][s].src
        /\ objs'[o][s].dst = objs[o][s].dst /\ objs'[o][s].started = objs[o][s].started
        /\ objs'[o][s].restored = objs[o][s].restored /\ objs'[o][s].prepared
    BY <1>6, <2>1 DEF ObjectStates
  <2>. QED
    BY <1>6, <2>2
<1>8. objs[o][s].dst \in Locations /\ disk[objs[o][s].dst] = objs[o][s].ver
  <2>1. objs[o][s].dst # None
    BY <1>1, <1>3, <1>4 DEF MakeFits
  <2>. QED
    BY <1>1, <1>2, <1>3, <1>4, <1>5, <2>1 DEF Landed, ObjectStates
<1>9. \A t \in Slots : objs'[o][t].prepared => Made(o, t)'
  BY <1>13, <1>3, <1>7, <1>8 DEF Content, MadeStays, Made
<1>10. \A t \in Slots : objs'[o][t].started => Archived(o, t)'
  BY <1>13, <1>7 DEF Content, ArchivesStay, Archived, Unsettled
<1>11. proc'[o].at = "plan" /\ \A q \in Processes \ {o} : proc'[q] = proc[q]
  BY <1>2, IssueEffect
<1>12. \A t \in Slots : Present(o, t) => Present(o, t)'
  BY <1>7 DEF Present
<1>14. /\ \A q \in Ops \ {o} : objs'[q] = objs[q]
       /\ \A t \in Slots : objs[o][t].started => objs'[o][t].started
  BY <1>6, <1>7
<1>. QED
  BY <1>13, <1>3, <1>14, <1>9, <1>10, <1>11, <1>12, RecordStep

LEMMA RecordRestoredKeeps ==
    ASSUME IInv, HoldersWork, Book, CallsFit, Content, NEW w \in Workers, RecordRestored(w)
    PROVE  Content'
<1>. USE Constants
<1>1. PICK o \in Ops : o = proc[w].op
  BY DEF RecordRestored, IInv, ExecutorsPlaced, PlacedAs
<1>15. PICK s : s = proc[w].slot
  OBVIOUS
<1>2. PICK temp :
         /\ proc[w].at = "restored" /\ Holds(w) /\ Open(o) /\ Working(w)
         /\ UNCHANGED <<versions, ops, disk>>
         /\ objs' = [objs EXCEPT ![o][s].restored = TRUE, ![o][s].temp = temp]
         /\ proc' = [proc EXCEPT ![w].at = "plan", ![w].slot = None]
  BY <1>1, <1>15 DEF RecordRestored, Working
<1>13. /\ proc[w].at = "restored" /\ Holds(w) /\ Open(o) /\ Working(w)
       /\ UNCHANGED <<versions, ops, disk>>
  BY <1>2
<1>3. CallFits(w) /\ Landed(w)
  BY <1>1, <1>2, HoldsAlone DEF CallsFit, Content, CallsLanded
<1>4. s \in Slots /\ RestoreFits(w)
  BY <1>1, <1>2, <1>3, <1>15 DEF CallFits, IInv, ExecutorsPlaced, PlacedAs
<1>5. objs[o] \in [Slots -> ObjectStates]
  BY DEF IInv, RowsOK
<1>6. /\ \A q \in Ops \ {o} : objs'[q] = objs[q]
      /\ objs'[o][s] = [objs[o][s] EXCEPT !.restored = TRUE, !.temp = temp]
      /\ \A t \in Slots \ {s} : objs'[o][t] = objs[o][t]
  <2>1. objs' = [objs EXCEPT ![o] = [objs[o] EXCEPT ![s] =
                    [objs[o][s] EXCEPT !.restored = TRUE, !.temp = temp]]]
    BY <1>2, <1>4, <1>5 DEF IInv, RowsOK
  <2>. QED
    BY <1>4, <2>1, ObjectEdit
<1>7. \A t \in Slots :
         /\ objs'[o][t].ver = objs[o][t].ver /\ objs'[o][t].src = objs[o][t].src
         /\ objs'[o][t].dst = objs[o][t].dst /\ objs'[o][t].started = objs[o][t].started
         /\ objs'[o][t].restored <=> objs[o][t].restored \/ t = s
  <2>1. objs[o][s] \in ObjectStates
    BY <1>4, <1>5
  <2>2. /\ objs'[o][s].ver = objs[o][s].ver /\ objs'[o][s].src = objs[o][s].src
        /\ objs'[o][s].dst = objs[o][s].dst /\ objs'[o][s].started = objs[o][s].started
        /\ objs'[o][s].restored
    BY <1>6, <2>1 DEF ObjectStates
  <2>. QED
    BY <1>6, <2>2
<1>8. disk[objs[o][s].src] = objs[o][s].ver
  BY <1>1, <1>2, <1>3, <1>15 DEF Landed
<1>9. \A t \in Slots : objs'[o][t].started => Archived(o, t)'
  BY <1>13, <1>7, <1>8 DEF Content, ArchivesStay, Archived, Unsettled
<1>10. proc'[w].at = "plan" /\ \A q \in Processes \ {w} : proc'[q] = proc[q]
  BY <1>2, IssueEffect
<1>11. \A t \in Slots : Present(o, t) => Present(o, t)'
  BY <1>7 DEF Present
<1>12. w # o
  OBVIOUS
<1>14. /\ \A q \in Ops \ {o} : objs'[q] = objs[q]
       /\ \A t \in Slots : objs[o][t].started => objs'[o][t].started
  BY <1>6, <1>7
<1>. QED
  BY <1>1, <1>13, <1>14, <1>9, <1>10, <1>11, <1>12, RecordStep

LEMMA RecordDropKeeps ==
    ASSUME IInv, HoldersWork, Book, CallsFit, Content, NEW p \in Processes, RecordDrop(p)
    PROVE  Content'
<1>. USE Constants
<1>1. PICK o \in Ops : o = proc[p].op /\ (p \in Ops => p = o)
  BY DEF RecordDrop, IInv, ExecutorsPlaced, PlacedAs
<1>2. PICK D \in SUBSET Confirmed(p) :
        /\ objs' = [objs EXCEPT ![o] = [s \in Slots |-> Deleted(objs[o][s], s, D)]]
        /\ proc' = IF D = Confirmed(p)
                     THEN [proc EXCEPT ![p].at = "plan", ![p].loc = None] ELSE proc
  BY <1>1 DEF RecordDrop, RecordDeleted
<1>3. proc[p].at = "dropped" /\ Holds(p) /\ Working(p) /\ UNCHANGED <<versions, ops, disk>>
  BY DEF RecordDrop, Working
<1>4. objs[o] \in [Slots -> ObjectStates] /\ Unsettled(o) /\ ~proc[p].lost
  BY <1>1, <1>3 DEF IInv, RowsOK, Holds
<1>5. \A q \in Ops \ {o} : objs'[q] = objs[q]
  BY <1>2
<1>6. \A t \in Slots :
         /\ objs'[o][t].ver = objs[o][t].ver /\ objs'[o][t].src = objs[o][t].src
         /\ objs'[o][t].dst = objs[o][t].dst /\ objs'[o][t].started = objs[o][t].started
         /\ objs'[o][t].prepared = objs[o][t].prepared
         /\ objs'[o][t].restored = objs[o][t].restored
  <2>1. \A t \in Slots : objs'[o][t] = Deleted(objs[o][t], t, D)
    BY <1>2 DEF IInv, RowsOK
  <2>2. ASSUME NEW x \in ObjectStates, NEW t
        PROVE  LET y == Deleted(x, t, D)
               IN  /\ y.ver = x.ver /\ y.src = x.src /\ y.dst = x.dst /\ y.started = x.started
                   /\ y.prepared = x.prepared /\ y.restored = x.restored
    BY DEF Deleted, ObjectStates
  <2>. QED
    BY <1>4, <2>1, <2>2
<1>7. p = o /\ Open(o) => \A t \in Slots : objs'[o][t].prepared => Made(o, t)'
  BY <1>3, <1>4, <1>6 DEF Content, MadeStays, Made, Serving
<1>8. \A t \in Slots : objs'[o][t].started => Archived(o, t)'
  BY <1>3, <1>4, <1>6 DEF Content, ArchivesStay, Archived
<1>9. proc'[p].at \in {"plan", "dropped"} /\ \A q \in Processes \ {p} : proc'[q] = proc[q]
  <2>1. CASE D = Confirmed(p)
    <3>1. proc' = [proc EXCEPT ![p].at = "plan", ![p].loc = None]
      BY <1>2, <2>1
    <3>. QED
      BY <3>1, IssueEffect
  <2>2. CASE D # Confirmed(p)
    BY <1>2, <1>3, <2>2
  <2>. QED
    BY <2>1, <2>2
<1>10. \A t \in Slots : Present(o, t) => Present(o, t)'
  BY <1>6 DEF Present
<1>. QED
  BY <1>1, <1>3, <1>5, <1>6, <1>7, <1>8, <1>9, <1>10, RecordStep

LEMMA IntendKeeps ==
    ASSUME IInv, HoldersWork, Book, CallsFit, Content, NEW o \in Ops, Intend(o)
    PROVE  Content'
<1>. USE Constants, AddressesApart
<1>1. /\ proc[o].at = "plan" /\ Holds(o) /\ Open(o) /\ Working(o)
      /\ UNCHANGED <<versions, ops, disk, proc>>
  BY DEF Intend, Working
<1>2. proc[o].op = o /\ Unsettled(o) /\ ops[o].token = o /\ Serving(o)
  BY <1>1, HoldsAlone DEF Serving, Holds
<1>3. PICK f \in Ids, old \in Ids : f = ops[o].file /\ old = entries[f].current
  BY <1>2 DEF IInv, EntriesFilled, PlansFollow, Unsettled, Open, Committed, Intend
<1>4. /\ ops[o].kind = "overwrite" /\ objs[o][old].prepared /\ ~objs[o][old].started
      /\ objs' = [objs EXCEPT ![o][old].started = TRUE,
                      ![o]["replacement"] = Object(o, InStaging(o), objs[o][old].src)]
  BY <1>3 DEF Intend
<1>5. objs[o] \in [Slots -> ObjectStates] /\ objs[o][old] \in ObjectStates /\ old # "replacement"
  BY DEF IInv, RowsOK
<1>6. PICK x \in ObjectStates : x = objs[o][old]
  BY <1>5
<1>7. /\ \A q \in Ops \ {o} : objs'[q] = objs[q]
      /\ objs'[o]["replacement"] = Object(o, InStaging(o), x.src)
      /\ objs'[o][old] = [x EXCEPT !.started = TRUE]
      /\ \A t \in Slots \ {old, "replacement"} : objs'[o][t] = objs[o][t]
  <2>. DEFINE row == [[objs[o] EXCEPT ![old] = [x EXCEPT !.started = TRUE]] EXCEPT
                         !["replacement"] = Object(o, InStaging(o), x.src)]
  <2>1. objs' = [objs EXCEPT ![o] = row]
    BY <1>4, <1>5, <1>6 DEF IInv, RowsOK
  <2>2. /\ row["replacement"] = Object(o, InStaging(o), x.src) /\ row[old] = [x EXCEPT !.started = TRUE]
        /\ \A t \in Slots \ {old, "replacement"} : row[t] = objs[o][t]
    BY <1>5
  <2>. HIDE DEF row
  <2>. QED
    BY <2>1, <2>2 DEF IInv, RowsOK
<1>8. LET y == objs'[o][old]
      IN  /\ y.ver = x.ver /\ y.src = x.src /\ y.dst = x.dst /\ y.started /\ y.prepared
          /\ y.restored = x.restored
  <2>1. x.prepared
    BY <1>4, <1>6
  <2>. QED
    BY <1>7, <2>1 DEF ObjectStates
<1>9. LET y == objs'[o]["replacement"]
      IN  y.ver = o /\ ~y.started /\ ~y.prepared
  BY <1>7 DEF Object, NoObject
<1>10. ~x.restored
  BY <1>1, <1>2, <1>6 DEF Book, RequestFirst
<1>11. Made(o, old)
  BY <1>2, <1>4 DEF Content, MadeStays
<1>12. ASSUME NEW t \in Slots PROVE objs'[o][t].prepared => Made(o, t)'
  <2>1. CASE t = old
    BY <1>1, <1>6, <1>8, <1>11, <2>1 DEF Made
  <2>2. CASE t \in Slots \ {old, "replacement"}
    BY <1>1, <1>2, <1>7, <2>2 DEF Content, MadeStays, Made
  <2>. QED
    BY <1>9, <2>1, <2>2
<1>13. ASSUME NEW t \in Slots PROVE objs'[o][t].started => Archived(o, t)'
  <2>1. CASE t = old
    BY <1>1, <1>6, <1>8, <1>10, <1>11, <2>1 DEF Made, Archived
  <2>2. CASE t \in Slots \ {old, "replacement"}
    BY <1>1, <1>2, <1>7, <2>2 DEF Content, ArchivesStay, Archived
  <2>. QED
    BY <1>9, <2>1, <2>2
<1>14. ASSUME NEW t \in Slots
       PROVE  /\ Present(o, t) => Present(o, t)'
              /\ objs[o][t].started => objs'[o][t].started
  <2>1. CASE t = old
    BY <1>6, <1>8, <2>1 DEF Present
  <2>2. CASE t \in Slots \ {old, "replacement"}
    BY <1>7, <2>2 DEF Present
  <2>3. CASE t = "replacement"
    <3>1. ~objs[o][t].started
      BY <1>2, <2>3, StartedShape
    <3>. QED
      BY <1>9, <2>3, <3>1 DEF Present
  <2>. QED
    BY <2>1, <2>2, <2>3
<1>15. \A q \in Ops \ {o} : objs'[q] = objs[q]
  BY <1>7
<1>. QED
  BY <1>1, <1>2, <1>12, <1>13, <1>14, <1>15, RecordStep

\* A plan is laid out: nothing of it is made or begun yet.
LEMMA FreshStep ==
    ASSUME IInv, HoldersWork, Book, CallsFit, Content, UNCHANGED <<versions, disk>>,
           NEW o \in Ops, \A q \in Ops \ {o} : ops'[q] = ops[q] /\ objs'[q] = objs[q],
           NEW p \in Processes, p \in Ops => p = o, proc'[p].at \notin {"made", "restored"},
           \A q \in Processes \ {p} : proc'[q] = proc[q] /\ (Active(q) => proc[q].op # o),
           \A s \in Slots : ~Present(o, s),
           \A s \in Slots : objs'[o][s] = objs[o][s] \/ \E v, from, to : objs'[o][s] = Object(v, from, to)
    PROVE  Content'
<1>. USE Constants
<1>1. \A s \in Slots : ~objs[o][s].prepared /\ ~objs[o][s].started
  BY DEF IInv, PlansFollow, Blank
<1>2. \A v, from, to : ~Object(v, from, to).prepared /\ ~Object(v, from, to).started
  BY DEF Object, NoObject
<1>3. \A s \in Slots : ~objs'[o][s].prepared /\ ~objs'[o][s].started
  BY <1>1, <1>2
<1>4. \A v \in Ids : ~Exposed(o, v)
  BY DEF Exposed
<1>5. Landed(p)'
  BY DEF Landed
<1>. QED
  BY <1>3, <1>4, <1>5, OwnStep

LEMMA BeginsKeep ==
    ASSUME IInv, HoldersWork, Book, CallsFit, Content, NEW o \in Ops,
           \/ \E kind, f, path, rev : Admit(o, kind, f, path, rev)
           \/ \E w \in Workers : \E kind, f, doomed : Enlist(w, o, kind, f, doomed)
    PROVE  Content'
<1>. USE Constants
<1>1. lock = None /\ ops[o].phase = "none" /\ UNCHANGED <<versions, disk>>
  BY DEF Admit, Enlist
<1>2. \A s \in Slots : ~Present(o, s)
  BY <1>1 DEF IInv, PlansFollow
<1>3. PICK op : ops' = [ops EXCEPT ![o] = op]
  BY DEF Admit, Enlist
<1>4. \A q \in Ops \ {o} : ops'[q] = ops[q]
  BY <1>3
<1>5. CASE \E kind, f, path, rev : Admit(o, kind, f, path, rev)
  <2>1. proc' = [proc EXCEPT ![o] = [Idle EXCEPT !.at = "prepare", !.op = o]] /\ UNCHANGED objs
    BY <1>5 DEF Admit
  <2>2. proc'[o].at = "prepare" /\ \A q \in Processes \ {o} : proc'[q] = proc[q]
    BY <2>1 DEF Idle, IInv, RowsOK
  <2>. QED
    BY <1>1, <1>2, <1>4, <2>1, <2>2, TakesAlone, FreshStep
<1>6. CASE \E w \in Workers : \E kind, f, doomed : Enlist(w, o, kind, f, doomed)
  <2>5. PICK w \in Workers : \E kind, f, doomed : Enlist(w, o, kind, f, doomed)
    BY <1>6
  <2>4. PICK kind, f, doomed : Enlist(w, o, kind, f, doomed)
    BY <2>5
  <2>1. /\ Started(w, o)
        /\ objs' = [objs EXCEPT ![o] = [s \in Slots |->
                      IF s \in doomed THEN Object(s, versions[s].loc, None) ELSE objs[o][s]]]
    BY <2>4 DEF Enlist
  <2>2. proc'[w].at = "plan" /\ \A q \in Processes \ {w} : proc'[q] = proc[q]
    BY <2>1 DEF Started, Idle, IInv, RowsOK
  <2>3. /\ \A q \in Ops \ {o} : objs'[q] = objs[q]
        /\ \A s \in Slots : objs'[o][s] = objs[o][s] \/ \E v, from, to : objs'[o][s] = Object(v, from, to)
    BY <2>1 DEF IInv, RowsOK
  <2>. QED
    BY <1>1, <1>2, <1>4, <2>2, <2>3, TakesAlone, FreshStep
<1>. QED
  BY <1>5, <1>6

LEMMA PrepareKeeps ==
    ASSUME IInv, HoldersWork, Book, CallsFit, Content, NEW o \in Ops, Prepare(o)
    PROVE  Content'
<1>. USE Constants
<1>1. /\ proc[o].at = "prepare" /\ Holds(o) /\ Working(o) /\ Go(o, "plan") /\ UNCHANGED <<versions, disk>>
      /\ PrepareUpload(o) \/ PrepareOverwrite(o) \/ PrepareRelocation(o)
  BY DEF Prepare, Working
<1>2. \A s \in Slots : ~Present(o, s)
  BY <1>1, BeforePlan
<1>3. ops' \in {ops, [ops EXCEPT ![o].reserved = Bytes[o]]}
  BY <1>1 DEF PrepareUpload, PrepareOverwrite, PrepareRelocation, Reserve
<1>4. \A q \in Ops \ {o} : ops'[q] = ops[q]
  BY <1>3 DEF IInv, RowsOK
<1>5. proc'[o].at = "plan" /\ \A q \in Processes \ {o} : proc'[q] = proc[q]
  BY <1>1, GoEffect
<1>6. \A q \in Processes \ {o} : Active(q) => proc[q].op # o
  BY <1>1, HoldsAlone
<1>7. objs[o] \in [Slots -> ObjectStates] /\ objs \in [Ops -> [Slots -> ObjectStates]]
  BY DEF IInv, RowsOK
<1>8. /\ \A q \in Ops \ {o} : objs'[q] = objs[q]
      /\ \A s \in Slots : objs'[o][s] = objs[o][s] \/ \E v, from, to : objs'[o][s] = Object(v, from, to)
  <2>1. CASE PrepareUpload(o)
    <3>1. objs' = [objs EXCEPT ![o][o] = Object(o, None, InFiles(ops[o].path))]
      BY <2>1 DEF PrepareUpload
    <3>. QED
      BY <1>7, <3>1
  <2>2. CASE PrepareOverwrite(o)
    <3>1. PICK old, from : objs' = [objs EXCEPT ![o]["staging"] = Object(o, None, InStaging(o)),
                                    ![o][old] = Object(old, from, InHistory(old))]
      BY <2>2 DEF PrepareOverwrite
    <3>2. objs' = [objs EXCEPT ![o] = [[objs[o] EXCEPT !["staging"] = Object(o, None, InStaging(o))]
                                         EXCEPT ![old] = Object(old, from, InHistory(old))]]
      BY <1>7, <3>1
    <3>. QED
      BY <1>7, <3>2
  <2>3. CASE PrepareRelocation(o)
    <3>1. PICK moved, to : objs' = [objs EXCEPT ![o] = [s \in Slots |->
                             IF s \in moved THEN Object(s, versions[s].loc, to) ELSE objs[o][s]]]
      BY <2>3 DEF PrepareRelocation
    <3>. QED
      BY <1>7, <3>1
  <2>. QED
    BY <1>1, <2>1, <2>2, <2>3
<1>. QED
  BY <1>1, <1>2, <1>4, <1>5, <1>6, <1>8, FreshStep

-----------------------------------------------------------------------------
(* Publication and completion *)

\* An operation is settled: nothing of it is to be deleted any more.
LEMMA SettledKeeps ==
    ASSUME IInv, HoldersWork, Book, CallsFit, Content, UNCHANGED <<objs, disk>>,
           NEW p \in Processes, Working(p), Holds(p), Die(p), NEW o \in Ops, o = proc[p].op,
           ops'[o].phase \in {"completed", "failed"}, \A q \in Ops \ {o} : ops'[q] = ops[q],
           \A v \in Ids : versions'[v].state = "live" =>
              InPlace(v)' \/ (versions'[v] = versions[v] /\ ~Exposed(o, v))
    PROVE  Content'
<1>. USE Constants
<1>1. ~Unsettled(o)' /\ ~Serving(o)'
  BY DEF Serving, Unsettled, Open, Committed
<1>2. ~Active(p)' /\ \A q \in Processes \ {p} : proc'[q] = proc[q]
  BY StopEffect DEF Active, Calling, Working
<1>3. /\ p \in Ops => p = o
      /\ \A q \in Processes \ {p} : Active(q) => proc[q].op # o
  BY HoldsAlone
<1>. QED
  BY <1>1, <1>2, <1>3, OwnStep

LEMMA CommitUploadKeeps ==
    ASSUME IInv, HoldersWork, Book, CallsFit, Content, NEW o \in Ops, proc[o].at = "plan", Holds(o),
           Open(o), Prepared(o), CommitUpload(o), Die(o), UNCHANGED <<objs, disk>>
    PROVE  Content'
<1>. USE Constants, AddressesApart
<1>1. Working(o) /\ proc[o].op = o /\ Unsettled(o) /\ CallFits(o) /\ Serving(o)
  BY HoldsAlone DEF Working, CallsFit, Serving, Holds
<1>2. PICK path \in Paths : path = ops[o].path
  BY <1>1, ShapeOf DEF CommitUpload, UserKinds
<1>3. /\ ops[o].kind = "upload" /\ UploadShaped(o) /\ ~Purging(o)
      /\ versions' = [versions EXCEPT ![o] = [state |-> "live", file |-> o, loc |-> InFiles(path)]]
      /\ ops' = [ops EXCEPT ![o] = Completed(o)]
  BY <1>1, <1>2, ShapeOf DEF CommitUpload, Purging, SystemKinds
<1>4. ops'[o].phase = "completed" /\ \A q \in Ops \ {o} : ops'[q] = ops[q]
  BY <1>3 DEF Completed, IInv, RowsOK, OpStates
<1>5. versions'[o].loc = InFiles(path) /\ \A v \in Ids \ {o} : versions'[v] = versions[v]
  BY <1>3 DEF IInv, RowsOK
<1>6. Present(o, o)
  BY <1>1, <1>3 DEF CallFits, RequestFits, Planned, UploadShaped
<1>7. objs[o][o].dst = InFiles(path) /\ objs[o][o].ver = o /\ objs[o][o].prepared
  BY <1>2, <1>3, <1>6 DEF UploadShaped, Prepared
<1>8. disk[InFiles(path)] = o
  BY <1>1, <1>7 DEF Content, MadeStays, Made
<1>9. InPlace(o)'
  BY <1>5, <1>8 DEF InPlace
<1>10. \A v \in Ids : ~Exposed(o, v)
  BY <1>3 DEF Exposed, UploadShaped
<1>. QED
  BY <1>1, <1>4, <1>5, <1>9, <1>10, SettledKeeps

LEMMA PurgeKeeps ==
    ASSUME IInv, HoldersWork, Book, CallsFit, Content, NEW p \in Processes, Working(p), Holds(p),
           Die(p), Open(proc[p].op), Purge(proc[p].op), UNCHANGED <<objs, disk>>
    PROVE  Content'
<1>. USE Constants
<1>1. PICK o \in Ops : o = proc[p].op
  BY HoldsAlone
<1>2. PICK gone \in SUBSET Ids : gone = {v \in Ids : Present(o, v) /\ versions[v].state = "live"}
  OBVIOUS
<1>3. /\ versions' = [v \in Ids |->
            IF v \in gone THEN [versions[v] EXCEPT !.state = "purged"] ELSE versions[v]]
      /\ ops' = [ops EXCEPT ![o] = Completed(o)]
  BY <1>1, <1>2 DEF Purge
<1>4. ops'[o].phase = "completed" /\ \A q \in Ops \ {o} : ops'[q] = ops[q]
  BY <1>3 DEF Completed, OpStates, IInv, RowsOK
<1>5. ASSUME NEW v \in Ids, versions'[v].state = "live"
      PROVE  versions'[v] = versions[v] /\ ~Exposed(o, v)
  <2>1. v \in gone => versions'[v].state = "purged"
    BY <1>3 DEF IInv, RowsOK, VersionStates
  <2>2. v \notin gone /\ versions'[v] = versions[v]
    BY <1>3, <1>5, <2>1
  <2>. QED
    BY <1>2, <1>5, <2>2 DEF Exposed
<1>. QED
  BY <1>1, <1>4, <1>5, SettledKeeps

LEMMA EndsKeep ==
    ASSUME IInv, HoldersWork, Book, CallsFit, Content, NEW p \in Processes,
           Finish(p) \/ (p \in Workers /\ Abort(p))
    PROVE  Content'
<1>. USE Constants
<1>1. Working(p) /\ Holds(p) /\ Die(p) /\ UNCHANGED <<versions, objs, disk>>
  BY DEF Finish, Abort, Working
<1>2. PICK o \in Ops : o = proc[p].op /\ Unsettled(o)
  BY <1>1, HoldsAlone
<1>3. ops'[o].phase \in {"completed", "failed"} /\ \A q \in Ops \ {o} : ops'[q] = ops[q]
  <2>1. ops[o] \in OpStates
    BY DEF IInv, RowsOK
  <2>2. \/ ops' = [ops EXCEPT ![o] = Completed(o)]
        \/ ops' = [ops EXCEPT ![o].phase = "failed", ![o].reserved = 0, ![o].live = FALSE]
    BY <1>2 DEF Finish, Abort
  <2>3. CASE ops' = [ops EXCEPT ![o] = Completed(o)]
    BY <2>1, <2>3 DEF Completed, OpStates, IInv, RowsOK
  <2>4. CASE ops' = [ops EXCEPT ![o].phase = "failed", ![o].reserved = 0, ![o].live = FALSE]
    <3>1. ops'[o].phase = "failed"
      BY <2>1, <2>4 DEF OpStates, IInv, RowsOK
    <3>. QED
      BY <2>4, <3>1 DEF IInv, RowsOK
  <2>. QED
    BY <2>2, <2>3, <2>4
<1>4. ASSUME NEW v \in Ids, versions[v].state = "live", Exposed(o, v) PROVE InPlace(v)
  <2>1. Present(o, v) /\ v \in Slots
    BY <1>4 DEF Exposed
  <2>2. ~Purging(o)
    <3>1. CASE Finish(p)
      BY <1>2, <3>1, ShapeOf DEF Finish, PurgeShaped
    <3>2. CASE Abort(p)
      BY <1>2, <2>1, <3>2 DEF Abort, Undoing, Purging, Planned
    <3>. QED
      BY <3>1, <3>2
  <2>3. objs[o][v].started
    BY <1>4, <2>2 DEF Exposed
  <2>4. /\ Held(o, v) /\ entries[ops[o].file].state = "active"
        /\ objs[o][v].src = InFiles(entries[ops[o].file].path) /\ objs[o][v].dst = InHistory(v)
        /\ (v = entries[ops[o].file].current) <=> Open(o)
    BY <1>2, <2>1, <2>3, StartedShape
  <2>5. Archived(o, v)
    BY <1>2, <2>1, <2>3 DEF Content, ArchivesStay
  <2>6. objs[o][v].ver = v /\ versions[v].file = ops[o].file
    BY <2>4 DEF Held
  <2>7. CASE Finish(p)
    <3>1. ~Open(o)
      BY <1>2, <2>7 DEF Finish, Open, Committed
    <3>2. ~objs[o][v].restored
      BY <1>2, <2>1, <2>3, <3>1 DEF Book, RestoredClear, Clear
    <3>3. versions[v].loc = InHistory(v)
      BY <1>4, <2>4, <2>6, <3>1, PlaceOf
    <3>. QED
      BY <2>4, <2>5, <2>6, <3>2, <3>3 DEF InPlace, Archived
  <2>8. CASE Abort(p)
    <3>1. Open(o) /\ ToRestore(o) = {}
      BY <1>2, <2>8 DEF Abort, Undoing
    <3>2. objs[o][v].restored
      BY <2>1, <2>3, <3>1 DEF ToRestore
    <3>3. versions[v].loc = InFiles(entries[ops[o].file].path)
      BY <1>4, <2>4, <2>6, <3>1, PlaceOf
    <3>. QED
      BY <2>4, <2>5, <2>6, <3>2, <3>3 DEF InPlace, Archived
  <2>. QED
    BY <2>7, <2>8
<1>5. \A v \in Ids : versions'[v].state = "live" =>
         InPlace(v)' \/ (versions'[v] = versions[v] /\ ~Exposed(o, v))
  BY <1>1, <1>4 DEF InPlace
<1>. QED
  BY <1>1, <1>2, <1>3, <1>5, SettledKeeps

\* An operation is published: what it replaces may go from now on.
LEMMA PublishedKeeps ==
    ASSUME IInv, HoldersWork, Book, CallsFit, Content, UNCHANGED <<objs, disk, proc>>,
           NEW o \in Ops, proc[o].at = "plan", Holds(o), Open(o), Publish(o),
           \A v \in Ids : versions'[v] = versions[v] \/ Exposed(o, v) \/ InPlace(v)'
    PROVE  Content'
<1>. USE Constants
<1>1. /\ Working(o) /\ proc[o].op = o /\ Unsettled(o)
      /\ \A q \in Processes \ {o} : Active(q) => proc[q].op # o
  BY HoldsAlone DEF Working
<1>2. /\ Committed(o)' /\ ~Open(o)' /\ ops'[o].kind = ops[o].kind /\ \A q \in Ops \ {o} : ops'[q] = ops[q]
  BY DEF Publish, Committed, Open, IInv, RowsOK, OpStates
<1>3. \A v \in Ids : Exposed(o, v)' = Exposed(o, v)
  BY <1>1, <1>2 DEF Exposed, Unsettled, Purging, Present
<1>4. ~Serving(o)' /\ Landed(o)'
  BY <1>2 DEF Serving, Landed
<1>5. \A s \in Slots : objs'[o][s].started => Archived(o, s)'
  BY <1>1 DEF Content, ArchivesStay, Archived
<1>. QED
  BY <1>1, <1>2, <1>3, <1>4, <1>5, OwnStep

LEMMA CommitOverwriteKeeps ==
    ASSUME IInv, HoldersWork, Book, CallsFit, Content, NEW o \in Ops, proc[o].at = "plan", Holds(o),
           Open(o), Prepared(o), CommitOverwrite(o), UNCHANGED <<objs, disk, proc>>
    PROVE  Content'
<1>. USE Constants, AddressesApart
<1>1. proc[o].op = o /\ Unsettled(o) /\ Serving(o)
  BY HoldsAlone DEF Working, Serving, Holds
<1>2. OverwriteShaped(o) /\ ops[o].kind = "overwrite" /\ Present(o, "replacement")
  BY <1>1, ShapeOf DEF CommitOverwrite
<1>3. PICK f \in Ids, old \in Ids, path \in Paths :
         f = ops[o].file /\ old = entries[f].current /\ path = entries[f].path
  <2>1. ops[o].file \in Ids /\ entries[ops[o].file].busy = o
    BY <1>1, ShapeOf DEF CommitOverwrite
  <2>. QED
    BY <2>1, HeldFile
<1>4. /\ objs[o][old].dst = InHistory(old)
      /\ versions' = [versions EXCEPT ![old].loc = InHistory(old),
            ![o] = [state |-> "live", file |-> f, loc |-> InFiles(path)]]
      /\ Publish(o)
  BY <1>3 DEF CommitOverwrite
<1>5. Present(o, old) /\ objs[o][old].started
  BY <1>2, <1>4 DEF IInv, PlansFollow, Blank, OverwriteShaped, ReplacementShaped
<1>6. Exposed(o, old)
  BY <1>1, <1>5 DEF Exposed
<1>7. /\ objs[o]["replacement"].dst = InFiles(path) /\ objs[o]["replacement"].ver = o
      /\ objs[o]["replacement"].prepared
  BY <1>2, <1>3 DEF OverwriteShaped, ReplacementShaped, Prepared
<1>8. disk[InFiles(path)] = o
  BY <1>1, <1>7 DEF Content, MadeStays, Made
<1>9. versions'[o].loc = InFiles(path) /\ \A v \in Ids \ {o, old} : versions'[v] = versions[v]
  BY <1>4 DEF IInv, RowsOK
<1>10. InPlace(o)'
  BY <1>8, <1>9 DEF InPlace
<1>. QED
  BY <1>4, <1>6, <1>9, <1>10, PublishedKeeps

LEMMA CommitRelocationKeeps ==
    ASSUME IInv, HoldersWork, Book, CallsFit, Content, NEW o \in Ops, proc[o].at = "plan", Holds(o),
           Open(o), Prepared(o), CommitRelocation(o), UNCHANGED <<objs, disk, proc>>
    PROVE  Content'
<1>. USE Constants, AddressesApart
<1>1. proc[o].op = o /\ Unsettled(o) /\ CallFits(o) /\ Serving(o)
  BY HoldsAlone DEF Working, CallsFit, Serving, Holds
<1>2. ops[o].kind \in {"move", "trash", "restore"} /\ ~Purging(o) /\ RelocationShaped(o)
  BY <1>1, ShapeOf DEF CommitRelocation, Purging, SystemKinds
<1>3. PICK v \in Ids : v = entries[ops[o].file].current
  <2>1. ops[o].file \in Ids /\ entries[ops[o].file].busy = o
    BY <1>1, ShapeOf DEF CommitRelocation
  <2>. QED
    BY <2>1, HeldFile
<1>4. Present(o, v)
  BY <1>1, <1>2, <1>3 DEF CallFits, RequestFits, Planned, RelocationShaped
<1>5. objs[o][v].ver = v /\ objs[o][v].dst # None
  <2>1. PICK there : there = objs[o][v].dst
    OBVIOUS
  <2>2. ops[o].path \in Paths
    BY <1>1, <1>2, ShapeOf DEF UserKinds
  <2>. QED
    BY <1>2, <1>4, <2>2 DEF RelocationShaped, Held
<1>6. disk[objs[o][v].dst] = v
  BY <1>1, <1>5 DEF Prepared, Content, MadeStays, Made
<1>7. versions' = [versions EXCEPT ![v].loc = objs[o][v].dst] /\ Publish(o)
  BY <1>3 DEF CommitRelocation
<1>8. versions'[v].loc = objs[o][v].dst /\ \A u \in Ids \ {v} : versions'[u] = versions[u]
  BY <1>7 DEF IInv, RowsOK, VersionStates
<1>9. InPlace(v)'
  BY <1>6, <1>8 DEF InPlace
<1>. QED
  BY <1>7, <1>8, <1>9, PublishedKeeps

LEMMA CommitKeeps ==
    ASSUME IInv, HoldersWork, Book, CallsFit, Content, NEW o \in Ops, Commit(o)
    PROVE  Content'
<1>. USE Constants
<1>1. proc[o].at = "plan" /\ Holds(o) /\ Open(o) /\ Prepared(o) /\ UNCHANGED <<objs, disk>>
  BY DEF Commit
<1>2. Working(o) /\ proc[o].op = o
  BY <1>1, HoldsAlone DEF Working
<1>. QED
  BY <1>1, <1>2, CommitUploadKeeps, PurgeKeeps, CommitOverwriteKeeps, CommitRelocationKeeps DEF Commit

LEMMA PurgeByJobKeeps ==
    ASSUME IInv, HoldersWork, Book, CallsFit, Content, NEW w \in Workers, PurgeByJob(w)
    PROVE  Content'
<1>. USE Constants
<1>1. Working(w)
  BY DEF PurgeByJob, Working
<1>. QED
  BY <1>1, PurgeKeeps DEF PurgeByJob

-----------------------------------------------------------------------------
(* Theorems *)

LEMMA ContentBegins == Init => Content
<1>. SUFFICES ASSUME Init PROVE Content
  OBVIOUS
<1>. USE Constants, Addresses
<1>1. \A o \in Ops : ~Unsettled(o) /\ ~Open(o)
  BY DEF Init, NoOp, Unsettled, Open, Committed
<1>2. MadeStays /\ ArchivesStay
  BY <1>1 DEF MadeStays, ArchivesStay, Serving
<1>3. CallsLanded
  BY DEF Init, Idle, CallsLanded, Active, Calling, Working
<1>4. ASSUME NEW v \in Ids, versions[v].state = "live" PROVE disk[versions[v].loc] = v
  <2>1. v = First /\ versions[v].loc = InFiles(Home)
    BY <1>4 DEF Init, NoVersion
  <2>. QED
    BY <2>1 DEF Init
<1>. QED
  BY <1>2, <1>3, <1>4 DEF Content, ContentHeld, InPlace

LEMMA StepKeeps ==
    IInv /\ HoldersWork /\ Book /\ CallsFit /\ Content /\ [Next]_vars => Content'
<1>. SUFFICES ASSUME IInv, HoldersWork, Book, CallsFit, Content, [Next]_vars PROVE Content'
  OBVIOUS
<1>. USE Constants
<1>1. CASE UNCHANGED vars
  BY <1>1, TimeKeeps
<1>2. ASSUME NEW p \in Processes, Advance(p) PROVE Content'
  BY <1>2, IssuesKeep, ReturnsKeep, RecordDropKeeps, EndsKeep, StopsKeep DEF Advance
<1>3. ASSUME NEW o \in Ops, Request(o) \/ Refuse(o) \/ ServeRequest(o) \/ Lapse(o) \/ Deadline(o)
      PROVE  Content'
  <2>1. CASE ServeRequest(o)
    <3>1. CASE (\E s \in Slots : IssueMake(o, s)) \/ Make(o)
      BY <3>1, IssuesKeep, ReturnsKeep
    <3>2. CASE Prepare(o) \/ RecordMade(o) \/ Intend(o) \/ Commit(o)
      BY <3>2, PrepareKeeps, RecordMadeKeeps, IntendKeeps, CommitKeeps
    <3>. QED
      BY <1>2, <2>1, <3>1, <3>2 DEF ServeRequest
  <2>2. CASE Request(o)
    BY <2>2, BeginsKeep DEF Request
  <2>3. CASE Refuse(o)
    BY <2>3, StopsKeep
  <2>4. CASE Lapse(o) \/ Deadline(o)
    BY <2>4, TimeKeeps
  <2>. QED
    BY <1>3, <2>1, <2>2, <2>3, <2>4
<1>4. ASSUME NEW w \in Workers, ServeJob(w) PROVE Content'
  <2>1. CASE (\E s \in Slots : IssueRestore(w, s)) \/ Restore(w) \/ RecordRestored(w)
    BY <2>1, IssuesKeep, ReturnsKeep, RecordRestoredKeeps
  <2>2. CASE Abort(w) \/ PurgeByJob(w)
    BY <2>2, EndsKeep, PurgeByJobKeeps
  <2>. QED
    BY <1>2, <1>4, <2>1, <2>2 DEF ServeJob
<1>5. ASSUME NEW w \in Workers, NEW o \in Ops,
             \/ Claim(w, o)
             \/ \E v \in Ids : EnlistHistory(w, o, v)
             \/ \E f \in Ids : EnlistTrash(w, o, f)
      PROVE  Content'
  <2>1. CASE Claim(w, o)
    BY <2>1, ClaimKeeps
  <2>2. ASSUME NEW v \in Ids, EnlistHistory(w, o, v) PROVE Content'
    BY <2>2, BeginsKeep DEF EnlistHistory
  <2>3. ASSUME NEW f \in Ids, EnlistTrash(w, o, f) PROVE Content'
    BY <2>3, BeginsKeep DEF EnlistTrash
  <2>. QED
    BY <1>5, <2>1, <2>2, <2>3
<1>6. ASSUME NEW v \in Ids, Refer(v) \/ Unrefer(v) PROVE Content'
  BY <1>6, TimeKeeps
<1>7. CASE Mishap
  BY <1>7, StopsKeep, TimeKeeps DEF Mishap
<1>. QED
  BY <1>1, <1>3, <1>4, <1>5, <1>6, <1>7 DEF Next

LEMMA HeldIsKept ==
    ASSUME IInv, Book, Content PROVE ContentKept
<1>. USE Constants
<1>. SUFFICES ASSUME NEW v \in Ids, versions[v].state = "live", ~InPlace(v)
              PROVE  \E o \in Ops :
                        /\ Unsettled(o) /\ entries[versions[v].file].busy = o /\ Present(o, v)
                        /\ \/ Purging(o)
                           \/ objs[o][v].started /\ disk[InHistory(v)] = v
  BY DEF ContentKept, InPlace
<1>1. PICK o \in Ops : Exposed(o, v)
  BY DEF Content, ContentHeld
<1>2. Unsettled(o) /\ Present(o, v) /\ (Purging(o) \/ objs[o][v].started)
  BY <1>1 DEF Exposed
<1>3. CASE Purging(o)
  <2>1. Held(o, v)
    BY <1>2, <1>3, ShapeOf DEF PurgeShaped
  <2>. QED
    BY <1>2, <1>3, <2>1 DEF Held
<1>4. CASE objs[o][v].started
  <2>1. /\ Held(o, v) /\ entries[ops[o].file].state = "active"
        /\ objs[o][v].src = InFiles(entries[ops[o].file].path) /\ objs[o][v].dst = InHistory(v)
        /\ (v = entries[ops[o].file].current) <=> Open(o)
    BY <1>2, <1>4, StartedShape
  <2>2. Archived(o, v) /\ objs[o][v].ver = v /\ versions[v].file = ops[o].file
    BY <1>2, <1>4, <2>1 DEF Content, ArchivesStay, Held
  <2>3. ~objs[o][v].restored
    <3>. SUFFICES ASSUME objs[o][v].restored PROVE FALSE
      OBVIOUS
    <3>1. Open(o)
      BY <1>2, <1>4 DEF Book, RestoredClear, Clear
    <3>2. versions[v].loc = InFiles(entries[ops[o].file].path)
      BY <2>1, <2>2, <3>1, PlaceOf
    <3>. QED
      BY <2>1, <2>2, <3>2 DEF Archived, InPlace
  <2>. QED
    BY <1>2, <1>4, <2>1, <2>2, <2>3 DEF Archived, Held
<1>. QED
  BY <1>2, <1>3, <1>4

\* What a version's row names is in the storage, or in the archive of the
\* overwrite its file is busy with, whatever executor loses its lock, its
\* lease or its answer between two steps (file-lifecycle.ts, file-objects.ts,
\* file-maintenance.ts).
THEOREM ContentStays == Spec => []ContentKept
<1>1. Init => IInv /\ HoldersWork /\ Book /\ CallsFit /\ Content
  BY InitHolds, LocksBegin, CallsBegin, ContentBegins
<1>2. /\ IInv /\ HoldersWork /\ Book /\ CallsFit /\ Content /\ [Next]_vars
      => (IInv /\ HoldersWork /\ Book /\ CallsFit /\ Content)'
  BY StepHolds, LocksHold, StepFits, StepKeeps
<1>3. IInv /\ Book /\ Content => ContentKept
  BY HeldIsKept
<1>. QED
  BY <1>1, <1>2, <1>3, PTL DEF Spec

-----------------------------------------------------------------------------
(* What is deleted stays deleted *)

\* An address that a recorded fact says is empty.  The address of a file that
\* is overwritten is written again, by the replacement or a restoration.
Vacated(o, l) ==
    \E s \in Slots :
        \/ objs[o][s].srcGone /\ objs[o][s].src = l /\ ~(ops[o].kind = "overwrite" /\ s \in Ids)
        \/ objs[o][s].dstGone /\ objs[o][s].dst = l /\ s # "replacement"
GoneEmpty == \A o \in Ops, l \in Locations : Unsettled(o) /\ Vacated(o, l) => disk[l] = "empty"

\* A deletion that was confirmed holds until it is recorded.
Emptied(p) == proc[p].at = "dropped" => disk[proc[p].loc] = "empty"
DropsEmpty == \A p \in Processes : Active(p) => Emptied(p)

\* A request deletes no target it has still to publish.
TargetsFirst ==
    \A o \in Ops : ops[o].phase = "none" \/ (Open(o) /\ ops[o].token = o)
        => \A s \in Slots : ~objs[o][s].dstGone

\* The replacement is copied from the staging of its operation.
StagingFirst ==
    \A o \in Ops : Unsettled(o) /\ Present(o, "replacement") => Present(o, "staging")

Lives(l) == \E v \in Ids : versions[v].state = "live" /\ versions[v].loc = l
Tidy == GoneEmpty /\ DropsEmpty /\ TargetsFirst /\ StagingFirst /\ NothingLeaks

\* What a call writes is no address that was recorded as empty.
LEMMA WriterSpares ==
    ASSUME IInv, HoldersWork, Book, CallsFit, Tidy, NEW r \in Processes, proc[r].at # "drop",
           NEW l \in Locations, l \in Writes(r), NEW o \in Ops, Unsettled(o), Vacated(o, l)
    PROVE  FALSE
<1>. USE Constants, AddressesApart
<1>1. /\ Active(r) /\ proc[r].op \in Ops /\ Unsettled(proc[r].op) /\ Touches(proc[r].op, l)
      /\ CallFits(r)
  BY CallsTouch DEF CallsFit
<1>2. Touches(o, l)
  BY DEF Vacated, Touches
<1>3. o = proc[r].op
  BY <1>1, <1>2, OwnedApart DEF Book, PlansOwned
<1>4. PICK t \in Slots :
         \/ objs[o][t].srcGone /\ objs[o][t].src = l /\ ~(ops[o].kind = "overwrite" /\ t \in Ids)
         \/ objs[o][t].dstGone /\ objs[o][t].dst = l /\ t # "replacement"
  BY DEF Vacated
<1>5. ASSUME Open(o), ~Purging(o) PROVE ~objs[o][t].srcGone \/ (ops[o].kind = "overwrite" /\ t \in Ids)
  <2>. SUFFICES ASSUME objs[o][t].srcGone PROVE ops[o].kind = "overwrite" /\ t \in Ids
    OBVIOUS
  <2>1. objs[o][t].started
    BY <1>5, GoneShape
  <2>. QED
    BY <2>1, StartedShape
<1>6. PICK s \in Slots : s = proc[r].slot
  BY DEF Writes, Calling, IInv, ExecutorsPlaced, PlacedAs
<1>7. CASE proc[r].at = "make"
  <2>1. r \in Ops /\ Open(o) /\ Present(o, s) /\ objs[o][s].dst # None
    BY <1>1, <1>3, <1>6, <1>7 DEF CallFits, MakeFits
  <2>2. ops[o].token = o
    BY <1>1, <1>3, <2>1, ActiveHolds DEF Holder, IInv, ExecutorsPlaced, PlacedAs, Working
  <2>3. ~objs[o][t].dstGone
    BY <2>1, <2>2 DEF Tidy, TargetsFirst
  <2>4. ~Purging(o)
    BY <2>1, ShapeOf DEF PurgeShaped
  <2>. QED
    BY <1>4, <1>5, <2>1, <2>3, <2>4
<1>8. CASE proc[r].at = "restore"
  <2>1. Open(o) /\ objs[o][s].started /\ l = objs[o][s].src
    BY <1>1, <1>3, <1>6, <1>8 DEF CallFits, RestoreFits, Writes, Calling
  <2>2. /\ ops[o].kind = "overwrite" /\ entries[ops[o].file].path \in Paths
        /\ l = InFiles(entries[ops[o].file].path)
    BY <2>1, StartedShape
  <2>3. objs[o][t].dst = l /\ t # "replacement"
    BY <1>4, <1>5, <2>1, <2>2 DEF Purging, SystemKinds
  <2>4. Present(o, t) /\ OverwriteShaped(o)
    BY <2>2, <2>3, ShapeOf DEF IInv, PlansFollow, Blank
  <2>. QED
    BY <2>2, <2>3, <2>4 DEF Slots, OverwriteShaped, StagingShaped, ArchiveShaped
<1>. QED
  BY <1>7, <1>8 DEF Writes, Calling

\* The rows stay, executors move and calls land.
LEMMA DiskStep ==
    ASSUME IInv, HoldersWork, Book, CallsFit, Tidy, UNCHANGED <<versions, objs>>,
           \A o \in Ops : /\ ops'[o].phase = ops[o].phase /\ ops'[o].kind = ops[o].kind
                          /\ ops'[o].token = o => ops[o].token = o,
           \A q \in Processes : Active(q)' =>
              \/ Emptied(q)'
              \/ Active(q) /\ proc'[q].at = proc[q].at /\ proc'[q].loc = proc[q].loc,
           \A l \in Locations : disk'[l] # disk[l] =>
              disk'[l] = "empty" \/ \E r \in Processes : proc[r].at # "drop" /\ l \in Writes(r)
    PROVE  Tidy'
<1>. USE Constants
<1>1. \A o \in Ops :
         /\ Unsettled(o)' = Unsettled(o) /\ Open(o)' = Open(o)
         /\ \A s \in Slots : Present(o, s)' = Present(o, s)
         /\ \A l \in Locations : Vacated(o, l)' = Vacated(o, l) /\ Touches(o, l)' = Touches(o, l)
  BY DEF Unsettled, Open, Committed, Present, Vacated, Touches
<1>2. GoneEmpty'
  <2>. SUFFICES ASSUME NEW o \in Ops, NEW l \in Locations, Unsettled(o), Vacated(o, l)
                PROVE  disk'[l] = "empty"
    BY <1>1 DEF GoneEmpty
  <2>1. disk[l] = "empty"
    BY DEF Tidy, GoneEmpty
  <2>. QED
    BY <2>1, WriterSpares
<1>3. DropsEmpty'
  <2>. SUFFICES ASSUME NEW q \in Processes, Active(q), proc[q].at = "dropped", proc'[q].loc = proc[q].loc
                PROVE  disk'[proc[q].loc] = "empty"
    BY DEF DropsEmpty, Emptied
  <2>1. PICK l \in Locations : l = proc[q].loc
    BY DEF IInv, ExecutorsPlaced, PlacedAs
  <2>2. disk[l] = "empty"
    BY <2>1 DEF Tidy, DropsEmpty, Emptied
  <2>3. proc[q].op \in Ops /\ Unsettled(proc[q].op) /\ Touches(proc[q].op, l)
    BY <2>1, ActiveHolds DEF Holder, CallsFit, CallFits, DropFits
  <2>4. ASSUME NEW r \in Processes, l \in Writes(r) PROVE FALSE
    <3>1. Active(r) /\ proc[r].op \in Ops /\ Unsettled(proc[r].op) /\ Touches(proc[r].op, l)
      BY <2>4, CallsTouch
    <3>2. proc[r].op = proc[q].op
      BY <2>3, <3>1, OwnedApart DEF Book, PlansOwned
    <3>3. r # q
      BY <2>4 DEF Writes, Calling
    <3>. QED
      BY <3>1, <3>2, <3>3, ActiveApart
  <2>. QED
    BY <2>1, <2>2, <2>4
<1>4. TargetsFirst' /\ StagingFirst'
  BY <1>1 DEF Tidy, TargetsFirst, StagingFirst
<1>5. NothingLeaks'
  <2>. SUFFICES ASSUME NEW l \in Locations, disk'[l] # "empty"
                PROVE  Lives(l) \/ \E o \in Ops : Unsettled(o) /\ Touches(o, l)
    BY <1>1 DEF NothingLeaks, Lives, Touches
  <2>1. ASSUME NEW r \in Processes, l \in Writes(r)
        PROVE  \E o \in Ops : Unsettled(o) /\ Touches(o, l)
    BY <2>1, CallsTouch
  <2>2. CASE disk[l] # "empty"
    BY <2>2 DEF Tidy, NothingLeaks, Lives, Touches
  <2>. QED
    BY <2>1, <2>2
<1>. QED
  BY <1>2, <1>3, <1>4, <1>5 DEF Tidy

\* One executor moves, the others stay where they are.
LEMMA MoverStaysTidy ==
    ASSUME IInv, HoldersWork, Book, CallsFit, Tidy, UNCHANGED <<versions, objs>>,
           \A o \in Ops : /\ ops'[o].phase = ops[o].phase /\ ops'[o].kind = ops[o].kind
                          /\ ops'[o].token = o => ops[o].token = o,
           NEW p \in Processes, \A q \in Processes \ {p} : proc'[q] = proc[q],
           Active(p)' => Emptied(p)',
           \A l \in Locations : disk'[l] # disk[l] =>
              disk'[l] = "empty" \/ (proc[p].at # "drop" /\ l \in Writes(p))
    PROVE  Tidy'
<1>1. \A q \in Processes \ {p} : Active(q)' => Active(q)
  BY DEF Active, Calling, Working
<1>2. \A q \in Processes : Active(q)' =>
         \/ Emptied(q)'
         \/ Active(q) /\ proc'[q].at = proc[q].at /\ proc'[q].loc = proc[q].loc
  BY <1>1
<1>. QED
  BY <1>2, DiskStep

LEMMA IssuesStayTidy ==
    ASSUME IInv, HoldersWork, Book, CallsFit, Tidy, NEW p \in Processes,
           \/ \E l \in Locations : IssueDrop(p, l)
           \/ p \in Ops /\ \E s \in Slots : IssueMake(p, s)
           \/ p \in Workers /\ \E s \in Slots : IssueRestore(p, s)
    PROVE  Tidy'
<1>1. PICK at, t :
         /\ at \in {"drop", "make", "restore"}
         /\ \/ proc' = [proc EXCEPT ![p].at = at, ![p].slot = t]
            \/ proc' = [proc EXCEPT ![p].at = at, ![p].loc = t]
  BY DEF IssueDrop, IssueMake, IssueRestore
<1>2. UNCHANGED <<versions, ops, objs, disk>>
  BY DEF IssueDrop, IssueMake, IssueRestore
<1>3. proc'[p].at = at /\ \A q \in Processes \ {p} : proc'[q] = proc[q]
  <2>1. proc \in [Processes -> ProcStates] /\ proc[p] \in ProcStates
    BY DEF IInv, RowsOK
  <2>2. CASE proc' = [proc EXCEPT ![p].at = at, ![p].slot = t]
    BY ONLY <2>1, <2>2, p \in Processes DEF ProcStates
  <2>3. CASE proc' = [proc EXCEPT ![p].at = at, ![p].loc = t]
    BY ONLY <2>1, <2>3, p \in Processes DEF ProcStates
  <2>. QED
    BY <1>1, <2>2, <2>3
<1>4. Emptied(p)'
  BY <1>1, <1>3 DEF Emptied
<1>. QED
  BY <1>2, <1>3, <1>4, MoverStaysTidy

LEMMA StopsStayTidy ==
    ASSUME IInv, HoldersWork, Book, CallsFit, Tidy, NEW p \in Processes,
           \/ p \in Ops /\ (Refuse(p) \/ MakeFails(p))
           \/ p \in Workers /\ RestoreFails(p)
           \/ GiveUp(p) \/ Break(p) \/ Handoff(p) \/ Crash(p) \/ DropFails(p)
    PROVE  Tidy'
<1>1. Leave(p) \/ Die(p)
  BY DEF Refuse, MakeFails, RestoreFails, GiveUp, Break, Handoff, Crash, DropFails
<1>2. UNCHANGED <<versions, objs>>
  BY DEF Refuse, MakeFails, RestoreFails, GiveUp, Break, Handoff, Crash, DropFails
<1>3. \A o \in Ops : /\ ops'[o].phase = ops[o].phase /\ ops'[o].kind = ops[o].kind
                     /\ ops'[o].token = ops[o].token
  <2>1. CASE UNCHANGED ops
    BY <2>1
  <2>2. CASE Handoff(p) /\ ~UNCHANGED ops
    <3>1. ops \in [Ops -> OpStates]
      BY DEF IInv, RowsOK
    <3>2. ops' = [ops EXCEPT ![proc[p].op].error = TRUE, ![proc[p].op].live = FALSE]
      BY <2>2 DEF Handoff
    <3>. QED
      BY <3>1, <3>2 DEF OpStates
  <2>. QED
    BY <2>1, <2>2 DEF Refuse, MakeFails, RestoreFails, GiveUp, Break, Crash, DropFails
<1>4. disk \in [Locations -> Contents]
  BY DEF IInv, RowsOK
<1>5. \A l \in Locations : disk'[l] # disk[l] =>
         disk'[l] = "empty" \/ (proc[p].at # "drop" /\ l \in Writes(p))
  <2>1. CASE UNCHANGED disk
    BY <2>1
  <2>2. CASE p \in Ops /\ MakeFails(p)
    <3>1. PICK d, c : d = objs[proc[p].op][proc[p].slot].dst /\ disk' = [disk EXCEPT ![d] = c]
      BY <2>2, PlannedVersion DEF MakeFails
    <3>2. proc[p].at = "make"
      BY <2>2 DEF MakeFails
    <3>3. Writes(p) = {d}
      BY <3>1, <3>2 DEF Writes, Calling
    <3>. QED
      BY <1>4, <3>1, <3>2, <3>3
  <2>3. CASE p \in Workers /\ RestoreFails(p) /\ ~UNCHANGED disk
    <3>1. PICK d, c : d = objs[proc[p].op][proc[p].slot].src /\ disk' = [disk EXCEPT ![d] = c]
      BY <2>3 DEF RestoreFails
    <3>2. proc[p].at = "restore"
      BY <2>3 DEF RestoreFails
    <3>3. Writes(p) = {d}
      BY <3>1, <3>2 DEF Writes, Calling
    <3>. QED
      BY <1>4, <3>1, <3>2, <3>3
  <2>4. CASE DropFails(p)
    <3>1. PICK d, c : c \in {"empty", disk[d]} /\ disk' = [disk EXCEPT ![d] = c]
      BY <2>4 DEF DropFails
    <3>. QED
      BY <1>4, <3>1
  <2>. QED
    BY <2>1, <2>2, <2>3, <2>4 DEF Refuse, GiveUp, Break, Handoff, Crash
<1>6. ~Active(p)' /\ \A q \in Processes \ {p} : proc'[q] = proc[q]
  BY <1>1, StopEffect DEF Active, Calling, Working
<1>. QED
  BY <1>2, <1>3, <1>5, <1>6, MoverStaysTidy

LEMMA ReturnsStayTidy ==
    ASSUME IInv, HoldersWork, Book, CallsFit, Tidy, NEW p \in Processes,
           (p \in Ops /\ Make(p)) \/ (p \in Workers /\ Restore(p)) \/ Drop(p)
    PROVE  Tidy'
<1>1. UNCHANGED <<versions, objs, ops>>
  BY DEF Make, Restore, Drop
<1>2. disk \in [Locations -> Contents]
  BY DEF IInv, RowsOK
<1>3. CASE Drop(p)
  <2>1. proc[p].at = "drop" /\ disk' = [disk EXCEPT ![proc[p].loc] = "empty"]
    BY <1>3 DEF Drop
  <2>2. /\ proc'[p].at = "dropped" /\ proc'[p].loc = proc[p].loc
        /\ \A q \in Processes \ {p} : proc'[q] = proc[q]
    BY <1>3, GoEffect DEF Drop
  <2>3. proc[p].loc \in Locations
    BY <2>1 DEF IInv, ExecutorsPlaced, PlacedAs
  <2>4. Emptied(p)'
    BY <1>2, <2>1, <2>2, <2>3 DEF Emptied
  <2>. QED
    BY <1>1, <1>2, <2>1, <2>2, <2>4, MoverStaysTidy
<1>4. CASE (p \in Ops /\ Make(p)) \/ (p \in Workers /\ Restore(p))
  <2>1. /\ proc[p].at \in {"make", "restore"} /\ \A q \in Processes \ {p} : proc'[q] = proc[q]
        /\ proc'[p].at # "dropped"
    <3>1. Leave(p) \/ Go(p, "made") \/ Go(p, "restored")
      BY <1>4 DEF Make, Restore
    <3>2. Leave(p) => Go(p, "handoff")
      BY DEF Leave
    <3>3. proc'[p].at # "dropped" /\ \A q \in Processes \ {p} : proc'[q] = proc[q]
      BY <3>1, <3>2, GoEffect
    <3>. QED
      BY <1>4, <3>3 DEF Make, Restore
  <2>2. PICK d : \A l \in Locations : disk'[l] # disk[l] => l = d /\ l \in Writes(p)
    <3>1. CASE UNCHANGED disk
      BY <3>1
    <3>2. CASE p \in Ops /\ Make(p) /\ ~UNCHANGED disk
      <4>1. proc[p].op = p
        BY <3>2, PlannedVersion DEF Make
      <4>2. PICK d, c : d = objs[proc[p].op][proc[p].slot].dst /\ disk' = [disk EXCEPT ![d] = c]
        BY <3>2, <4>1 DEF Make
      <4>3. Writes(p) = {d}
        BY <3>2, <4>2 DEF Make, Writes, Calling
      <4>. QED
        BY <1>2, <4>2, <4>3
    <3>3. CASE p \in Workers /\ Restore(p) /\ ~UNCHANGED disk
      <4>1. PICK d, c : d = objs[proc[p].op][proc[p].slot].src /\ disk' = [disk EXCEPT ![d] = c]
        BY <3>3 DEF Restore
      <4>2. Writes(p) = {d}
        BY <3>3, <4>1 DEF Restore, Writes, Calling
      <4>. QED
        BY <1>2, <4>1, <4>2
    <3>. QED
      BY <1>4, <3>1, <3>2, <3>3
  <2>. QED
    BY <1>1, <2>1, <2>2, MoverStaysTidy DEF Emptied
<1>. QED
  BY <1>3, <1>4

LEMMA TimeStaysTidy ==
    ASSUME IInv, HoldersWork, Book, CallsFit, Tidy,
           \/ UNCHANGED vars
           \/ \E o \in Ops : Stall(o) \/ Lapse(o) \/ Deadline(o)
           \/ \E p \in Processes : LoseLock(p)
           \/ \E v \in Ids : Refer(v) \/ Unrefer(v)
    PROVE  Tidy'
<1>1. ops \in [Ops -> OpStates] /\ proc \in [Processes -> ProcStates]
  BY DEF IInv, RowsOK
<1>2. /\ UNCHANGED <<versions, objs, disk>>
      /\ UNCHANGED ops \/ \E o \in Ops : \/ ops' = [ops EXCEPT ![o].live = FALSE]
                                         \/ ops' = [ops EXCEPT ![o].due = TRUE]
      /\ proc' = proc \/ \E p : proc' = [proc EXCEPT ![p].lost = TRUE]
  BY DEF vars, Stall, Lapse, Deadline, LoseLock, Refer, Unrefer
<1>3. \A o \in Ops : /\ ops'[o].phase = ops[o].phase /\ ops'[o].kind = ops[o].kind
                     /\ ops'[o].token = ops[o].token
  BY <1>1, <1>2 DEF OpStates
<1>4. \A p \in Processes : /\ proc'[p].at = proc[p].at /\ proc'[p].loc = proc[p].loc
                           /\ (proc[p].lost => proc'[p].lost)
  BY <1>1, <1>2 DEF ProcStates
<1>5. \A p \in Processes : Active(p)' => Active(p)
  BY <1>4 DEF Active, Calling, Working
<1>. QED
  BY <1>2, <1>3, <1>4, <1>5, DiskStep

LEMMA ClaimStaysTidy ==
    ASSUME IInv, HoldersWork, Book, CallsFit, Tidy, NEW w \in Workers, NEW o \in Ops, Claim(w, o)
    PROVE  Tidy'
<1>. USE Constants
<1>1. /\ UNCHANGED <<versions, objs, disk>> /\ Started(w, o)
      /\ ops' = [ops EXCEPT ![o].token = w, ![o].live = TRUE]
  BY DEF Claim
<1>2. proc'[w].at = "plan" /\ \A q \in Processes \ {w} : proc'[q] = proc[q]
  BY <1>1 DEF Started, Idle, IInv, RowsOK
<1>3. w \notin Ops
  BY FilesAssumption
<1>4. \A q \in Ops : /\ ops'[q].phase = ops[q].phase /\ ops'[q].kind = ops[q].kind
                     /\ ops'[q].token = q => ops[q].token = q
  BY <1>1, <1>3 DEF IInv, RowsOK, OpStates
<1>. QED
  BY <1>1, <1>2, <1>4, MoverStaysTidy DEF Emptied

\* The rows of one operation change, and of the versions it makes or moves.
LEMMA RowsStep ==
    ASSUME IInv, Tidy, UNCHANGED disk,
           NEW o \in Ops, \A q \in Ops \ {o} : ops'[q] = ops[q] /\ objs'[q] = objs[q],
           NEW p \in Processes, \A q \in Processes \ {p} : proc'[q] = proc[q],
           Active(p)' => Emptied(p)',
           \A l \in Locations : Unsettled(o)' /\ Vacated(o, l)' => disk[l] = "empty",
           ops'[o].phase = "none" \/ (Open(o)' /\ ops'[o].token = o)
              => \A s \in Slots : ~objs'[o][s].dstGone,
           Unsettled(o)' /\ Present(o, "replacement")' => Present(o, "staging")',
           \A l \in Locations : disk[l] # "empty" /\ (Lives(l) \/ (Unsettled(o) /\ Touches(o, l)))
              => Lives(l)' \/ (Unsettled(o)' /\ Touches(o, l)')
    PROVE  Tidy'
<1>1. \A q \in Ops \ {o} :
         /\ Unsettled(q)' = Unsettled(q) /\ Open(q)' = Open(q)
         /\ \A s \in Slots : Present(q, s)' = Present(q, s)
         /\ \A l \in Locations : Vacated(q, l)' = Vacated(q, l) /\ Touches(q, l)' = Touches(q, l)
  BY DEF Unsettled, Open, Committed, Present, Vacated, Touches
<1>2. GoneEmpty'
  BY <1>1 DEF Tidy, GoneEmpty
<1>3. DropsEmpty'
  <2>1. \A q \in Processes \ {p} : Active(q)' => Active(q)
    BY DEF Active, Calling, Working
  <2>. QED
    BY <2>1 DEF Tidy, DropsEmpty, Emptied
<1>4. TargetsFirst'
  BY <1>1 DEF Tidy, TargetsFirst
<1>5. StagingFirst'
  BY <1>1, Constants DEF Tidy, StagingFirst
<1>6. NothingLeaks'
  <2>. SUFFICES ASSUME NEW l \in Locations, disk[l] # "empty"
                PROVE  Lives(l)' \/ \E q \in Ops : Unsettled(q)' /\ Touches(q, l)'
    BY DEF NothingLeaks, Lives, Touches
  <2>1. Lives(l) \/ \E q \in Ops : Unsettled(q) /\ Touches(q, l)
    BY DEF Tidy, NothingLeaks, Lives, Touches
  <2>2. CASE Lives(l) \/ (Unsettled(o) /\ Touches(o, l))
    BY <2>2
  <2>3. ASSUME NEW q \in Ops \ {o}, Unsettled(q), Touches(q, l)
        PROVE  Unsettled(q)' /\ Touches(q, l)'
    BY <1>1, <2>3
  <2>. QED
    BY <2>1, <2>2, <2>3
<1>. QED
  BY <1>2, <1>3, <1>4, <1>5, <1>6 DEF Tidy

\* An executor records what a call did.
LEMMA FlagsStayTidy ==
    ASSUME IInv, Tidy, UNCHANGED <<versions, ops, disk>>, NEW o \in Ops, Unsettled(o),
           \A q \in Ops \ {o} : objs'[q] = objs[q],
           NEW p \in Processes, \A q \in Processes \ {p} : proc'[q] = proc[q], Emptied(p)',
           \A s \in Slots : /\ objs'[o][s].ver = objs[o][s].ver /\ objs'[o][s].src = objs[o][s].src
                            /\ objs'[o][s].dst = objs[o][s].dst,
           \A l \in Locations : Vacated(o, l)' => Vacated(o, l) \/ disk[l] = "empty",
           Open(o) /\ ops[o].token = o => \A s \in Slots : ~objs'[o][s].dstGone
    PROVE  Tidy'
<1>. USE Constants
<1>1. /\ Unsettled(o)' /\ Open(o)' = Open(o)
      /\ \A s \in Slots : Present(o, s)' = Present(o, s)
      /\ \A l \in Locations : Touches(o, l)' = Touches(o, l) /\ Lives(l)' = Lives(l)
  BY DEF Unsettled, Open, Committed, Present, Touches, Lives
<1>2. ASSUME NEW l \in Locations, Vacated(o, l)' PROVE disk[l] = "empty"
  BY <1>2 DEF Tidy, GoneEmpty
<1>3. ops'[o].phase = "none" \/ (Open(o)' /\ ops'[o].token = o) => \A s \in Slots : ~objs'[o][s].dstGone
  BY <1>1 DEF Unsettled, Open, Committed
<1>4. Present(o, "replacement")' => Present(o, "staging")'
  BY <1>1 DEF Tidy, StagingFirst
<1>. QED
  BY <1>1, <1>2, <1>3, <1>4, RowsStep

LEMMA RecordMadeStaysTidy ==
    ASSUME IInv, HoldersWork, Tidy, NEW o \in Ops, RecordMade(o)
    PROVE  Tidy'
<1>. USE Constants
<1>1. PICK s : s = proc[o].slot
  OBVIOUS
<1>2. /\ proc[o].at = "made" /\ Open(o)
      /\ objs' = [objs EXCEPT ![o][s].prepared = TRUE, ![o][s].temp = Transient(o, s)]
      /\ proc' = [proc EXCEPT ![o].at = "plan", ![o].slot = None]
  BY <1>1 DEF RecordMade
<1>3. Unsettled(o) /\ UNCHANGED <<versions, ops, disk>>
  BY <1>2 DEF RecordMade, Unsettled
<1>4. s \in Slots
  BY <1>1, <1>2 DEF IInv, ExecutorsPlaced, PlacedAs
<1>5. objs[o] \in [Slots -> ObjectStates] /\ objs[o][s] \in ObjectStates
  BY <1>4 DEF IInv, RowsOK
<1>6. /\ \A q \in Ops \ {o} : objs'[q] = objs[q]
      /\ objs'[o][s] = [objs[o][s] EXCEPT !.prepared = TRUE, !.temp = Transient(o, s)]
      /\ \A t \in Slots \ {s} : objs'[o][t] = objs[o][t]
  <2>1. objs' = [objs EXCEPT ![o] = [objs[o] EXCEPT ![s] =
                    [objs[o][s] EXCEPT !.prepared = TRUE, !.temp = Transient(o, s)]]]
    BY <1>2, <1>4, <1>5 DEF ObjectStates, IInv, RowsOK
  <2>. QED
    BY <1>4, <2>1, ObjectEdit
<1>7. \A t \in Slots :
         /\ objs'[o][t].ver = objs[o][t].ver /\ objs'[o][t].src = objs[o][t].src
         /\ objs'[o][t].dst = objs[o][t].dst
         /\ objs'[o][t].srcGone <=> objs[o][t].srcGone
         /\ objs'[o][t].dstGone <=> objs[o][t].dstGone
  <2>1. LET x == objs[o][s]
            y == objs'[o][s]
        IN  y.ver = x.ver /\ y.src = x.src /\ y.dst = x.dst /\ y.srcGone = x.srcGone /\ y.dstGone = x.dstGone
    BY <1>5, <1>6 DEF ObjectStates
  <2>. QED
    BY <1>6, <2>1
<1>8. proc'[o].at = "plan" /\ \A q \in Processes \ {o} : proc'[q] = proc[q]
  BY <1>2, IssueEffect
<1>9. Emptied(o)' /\ \A q \in Ops \ {o} : objs'[q] = objs[q]
  BY <1>6, <1>8 DEF Emptied
<1>10. \A l \in Locations : Vacated(o, l)' => Vacated(o, l)
  BY <1>3, <1>7 DEF Vacated
<1>11. Open(o) /\ ops[o].token = o => \A t \in Slots : ~objs'[o][t].dstGone
  BY <1>7 DEF Tidy, TargetsFirst
<1>. QED
  BY <1>3, <1>7, <1>8, <1>9, <1>10, <1>11, FlagsStayTidy

LEMMA RecordRestoredStaysTidy ==
    ASSUME IInv, HoldersWork, Tidy, NEW w \in Workers, RecordRestored(w)
    PROVE  Tidy'
<1>. USE Constants
<1>1. PICK o \in Ops : o = proc[w].op
  BY DEF RecordRestored, IInv, ExecutorsPlaced, PlacedAs
<1>12. PICK s : s = proc[w].slot
  OBVIOUS
<1>2. PICK temp :
         /\ proc[w].at = "restored" /\ Open(o)
         /\ objs' = [objs EXCEPT ![o][s].restored = TRUE, ![o][s].temp = temp]
         /\ proc' = [proc EXCEPT ![w].at = "plan", ![w].slot = None]
  BY <1>1, <1>12 DEF RecordRestored
<1>3. Unsettled(o) /\ UNCHANGED <<versions, ops, disk>>
  BY <1>2 DEF RecordRestored, Unsettled
<1>4. s \in Slots
  BY <1>2, <1>12 DEF IInv, ExecutorsPlaced, PlacedAs
<1>5. objs[o] \in [Slots -> ObjectStates] /\ objs[o][s] \in ObjectStates
  BY <1>4 DEF IInv, RowsOK
<1>6. /\ \A q \in Ops \ {o} : objs'[q] = objs[q]
      /\ objs'[o][s] = [objs[o][s] EXCEPT !.restored = TRUE, !.temp = temp]
      /\ \A t \in Slots \ {s} : objs'[o][t] = objs[o][t]
  <2>1. objs' = [objs EXCEPT ![o] = [objs[o] EXCEPT ![s] =
                    [objs[o][s] EXCEPT !.restored = TRUE, !.temp = temp]]]
    BY <1>2, <1>4, <1>5 DEF IInv, RowsOK
  <2>. QED
    BY <1>4, <2>1, ObjectEdit
<1>7. \A t \in Slots :
         /\ objs'[o][t].ver = objs[o][t].ver /\ objs'[o][t].src = objs[o][t].src
         /\ objs'[o][t].dst = objs[o][t].dst
         /\ objs'[o][t].srcGone <=> objs[o][t].srcGone
         /\ objs'[o][t].dstGone <=> objs[o][t].dstGone
  <2>1. LET x == objs[o][s]
            y == objs'[o][s]
        IN  y.ver = x.ver /\ y.src = x.src /\ y.dst = x.dst /\ y.srcGone = x.srcGone /\ y.dstGone = x.dstGone
    BY <1>5, <1>6 DEF ObjectStates
  <2>. QED
    BY <1>6, <2>1
<1>8. proc'[w].at = "plan" /\ \A q \in Processes \ {w} : proc'[q] = proc[q]
  BY <1>2, IssueEffect
<1>9. Emptied(w)' /\ \A q \in Ops \ {o} : objs'[q] = objs[q]
  BY <1>6, <1>8 DEF Emptied
<1>10. \A l \in Locations : Vacated(o, l)' => Vacated(o, l)
  BY <1>3, <1>7 DEF Vacated
<1>11. Open(o) /\ ops[o].token = o => \A t \in Slots : ~objs'[o][t].dstGone
  BY <1>7 DEF Tidy, TargetsFirst
<1>. QED
  BY <1>3, <1>7, <1>8, <1>9, <1>10, <1>11, FlagsStayTidy

\* A request records no target it is still to publish as deleted: what it
\* deletes before its commit is the old source, never its own staging copy.
LEMMA RecordDropStaysTidy ==
    ASSUME IInv, HoldersWork, Book, CallsFit, Tidy, NEW p \in Processes, RecordDrop(p)
    PROVE  Tidy'
<1>. USE Constants
<1>1. PICK o \in Ops, l \in Locations : o = proc[p].op /\ l = proc[p].loc /\ (p \in Ops => p = o)
  BY DEF RecordDrop, IInv, ExecutorsPlaced, PlacedAs
<1>2. PICK D \in SUBSET Confirmed(p) :
        /\ objs' = [objs EXCEPT ![o] = [s \in Slots |-> Deleted(objs[o][s], s, D)]]
        /\ proc' = IF D = Confirmed(p)
                     THEN [proc EXCEPT ![p].at = "plan", ![p].loc = None] ELSE proc
  BY <1>1 DEF RecordDrop, RecordDeleted
<1>3. proc[p].at = "dropped" /\ Holds(p) /\ Working(p) /\ UNCHANGED <<versions, ops, disk>>
  BY DEF RecordDrop, Working
<1>4. Unsettled(o) /\ Active(p) /\ ops[o].token = p /\ objs[o] \in [Slots -> ObjectStates]
  BY <1>1, <1>3, HoldsAlone DEF IInv, RowsOK
<1>5. disk[l] = "empty" /\ DropFits(p)
  BY <1>1, <1>3, <1>4 DEF Tidy, DropsEmpty, Emptied, CallsFit, CallFits
<1>6. \A q \in Ops \ {o} : objs'[q] = objs[q]
  BY <1>2
<1>7. ASSUME NEW s \in Slots
      PROVE  /\ <<s, "source">> \in D => objs[o][s].src = l
             /\ <<s, "target">> \in D => objs[o][s].dst = l /\ (p \in Ops => Staged(o, s))
  <2>1. <<s, "source">> \in Confirmed(p) => objs[o][s].src = l
    BY <1>1 DEF Confirmed
  <2>2. <<s, "target">> \in Confirmed(p) => objs[o][s].dst = l /\ (p \in Ops => Staged(o, s))
    BY <1>1 DEF Confirmed
  <2>. QED
    BY <2>1, <2>2
<1>8. ASSUME NEW s \in Slots, p \in Ops, Open(o), <<s, "target">> \in D PROVE FALSE
  <2>1. objs[o][s].dst = l /\ l = InStaging(o)
    BY <1>7, <1>8 DEF Staged
  <2>2. CASE Purging(o)
    BY <1>4, <2>1, <2>2, ShapeOf, AddressesApart DEF PurgeShaped, IInv, PlansFollow, Blank
  <2>3. CASE ~Purging(o)
    <3>1. PICK t \in Slots : objs[o][t].started /\ objs[o][t].src = l
      BY <1>1, <1>5, <1>8, <2>3 DEF DropFits
    <3>. QED
      BY <1>4, <2>1, <3>1, StartedShape, AddressesApart
  <2>. QED
    BY <2>2, <2>3
<1>9. \A s \in Slots :
         /\ objs'[o][s].ver = objs[o][s].ver /\ objs'[o][s].src = objs[o][s].src
         /\ objs'[o][s].dst = objs[o][s].dst
         /\ objs'[o][s].srcGone /\ ~objs[o][s].srcGone => <<s, "source">> \in D
         /\ objs'[o][s].dstGone /\ ~objs[o][s].dstGone => <<s, "target">> \in D
  <2>1. \A s \in Slots : objs'[o][s] = Deleted(objs[o][s], s, D)
    BY <1>2 DEF IInv, RowsOK
  <2>2. ASSUME NEW x \in ObjectStates, NEW s
        PROVE  /\ Deleted(x, s, D).ver = x.ver /\ Deleted(x, s, D).src = x.src
               /\ Deleted(x, s, D).dst = x.dst
               /\ Deleted(x, s, D).srcGone /\ ~x.srcGone => <<s, "source">> \in D
               /\ Deleted(x, s, D).dstGone /\ ~x.dstGone => <<s, "target">> \in D
    BY DEF Deleted, ObjectStates
  <2>3. SUFFICES ASSUME NEW s \in Slots
                 PROVE  /\ objs'[o][s].ver = objs[o][s].ver /\ objs'[o][s].src = objs[o][s].src
                        /\ objs'[o][s].dst = objs[o][s].dst
                        /\ objs'[o][s].srcGone /\ ~objs[o][s].srcGone => <<s, "source">> \in D
                        /\ objs'[o][s].dstGone /\ ~objs[o][s].dstGone => <<s, "target">> \in D
    OBVIOUS
  <2>4. PICK x \in ObjectStates : x = objs[o][s]
    BY <1>4
  <2>. QED
    BY <2>1, <2>2, <2>4
<1>10. Emptied(p)' /\ \A q \in Processes \ {p} : proc'[q] = proc[q]
  <2>1. CASE D = Confirmed(p)
    <3>1. proc' = [proc EXCEPT ![p].at = "plan", ![p].loc = None]
      BY <1>2, <2>1
    <3>2. proc'[p].at = "plan" /\ \A q \in Processes \ {p} : proc'[q] = proc[q]
      BY <3>1, IssueEffect
    <3>. QED
      BY <3>2 DEF Emptied
  <2>2. CASE D # Confirmed(p)
    BY <1>1, <1>2, <1>3, <1>5, <2>2 DEF Emptied
  <2>. QED
    BY <2>1, <2>2
<1>11. \A k \in Locations : Vacated(o, k)' => Vacated(o, k) \/ disk[k] = "empty"
  <2>. SUFFICES ASSUME NEW k \in Locations, Vacated(o, k)', ~Vacated(o, k) PROVE disk[k] = "empty"
    OBVIOUS
  <2>1. PICK s \in Slots :
           \/ objs'[o][s].srcGone /\ objs'[o][s].src = k /\ ~(ops[o].kind = "overwrite" /\ s \in Ids)
           \/ objs'[o][s].dstGone /\ objs'[o][s].dst = k /\ s # "replacement"
    BY <1>3 DEF Vacated
  <2>2. objs'[o][s].src = objs[o][s].src /\ objs'[o][s].dst = objs[o][s].dst
    BY <1>9
  <2>3. \/ <<s, "source">> \in D /\ objs[o][s].src = k
        \/ <<s, "target">> \in D /\ objs[o][s].dst = k
    BY <1>9, <2>1, <2>2 DEF Vacated
  <2>4. k = l
    BY <1>7, <2>3
  <2>. QED
    BY <1>5, <2>4
<1>12. Open(o) /\ ops[o].token = o => \A s \in Slots : ~objs'[o][s].dstGone
  BY <1>4, <1>8, <1>9 DEF Tidy, TargetsFirst
<1>13. \A s \in Slots : /\ objs'[o][s].ver = objs[o][s].ver /\ objs'[o][s].src = objs[o][s].src
                        /\ objs'[o][s].dst = objs[o][s].dst
  BY <1>9
<1>. QED
  BY <1>3, <1>4, <1>6, <1>10, <1>11, <1>12, <1>13, FlagsStayTidy

LEMMA IntendStaysTidy ==
    ASSUME IInv, HoldersWork, Book, CallsFit, Tidy, NEW o \in Ops, Intend(o)
    PROVE  Tidy'
<1>. USE Constants
<1>1. /\ proc[o].at = "plan" /\ Holds(o) /\ Open(o) /\ Working(o)
      /\ UNCHANGED <<versions, ops, disk, proc>>
  BY DEF Intend, Working
<1>2. Unsettled(o)
  BY <1>1 DEF Unsettled
<1>3. PICK f \in Ids, old \in Ids : f = ops[o].file /\ old = entries[f].current
  BY <1>2 DEF IInv, EntriesFilled, PlansFollow, Unsettled, Open, Committed, Intend
<1>4. /\ ops[o].kind = "overwrite" /\ objs[o]["staging"].prepared
      /\ objs[o][old].prepared /\ ~objs[o][old].started
      /\ objs' = [objs EXCEPT ![o][old].started = TRUE,
                      ![o]["replacement"] = Object(o, InStaging(o), objs[o][old].src)]
  BY <1>3 DEF Intend
<1>5. objs[o] \in [Slots -> ObjectStates] /\ old # "replacement"
  BY DEF IInv, RowsOK
<1>6. PICK x \in ObjectStates : x = objs[o][old]
  BY <1>5
<1>7. /\ \A q \in Ops \ {o} : objs'[q] = objs[q]
      /\ objs'[o]["replacement"] = Object(o, InStaging(o), x.src)
      /\ objs'[o][old] = [x EXCEPT !.started = TRUE]
      /\ \A t \in Slots \ {old, "replacement"} : objs'[o][t] = objs[o][t]
  <2>. DEFINE row == [[objs[o] EXCEPT ![old] = [x EXCEPT !.started = TRUE]] EXCEPT
                         !["replacement"] = Object(o, InStaging(o), x.src)]
  <2>1. objs' = [objs EXCEPT ![o] = row]
    BY <1>4, <1>5, <1>6 DEF IInv, RowsOK
  <2>2. /\ row["replacement"] = Object(o, InStaging(o), x.src) /\ row[old] = [x EXCEPT !.started = TRUE]
        /\ \A t \in Slots \ {old, "replacement"} : row[t] = objs[o][t]
    BY <1>5
  <2>. HIDE DEF row
  <2>. QED
    BY <2>1, <2>2 DEF IInv, RowsOK
<1>8. \A t \in Slots \ {"replacement"} :
         /\ objs'[o][t].ver = objs[o][t].ver /\ objs'[o][t].src = objs[o][t].src
         /\ objs'[o][t].dst = objs[o][t].dst
         /\ objs'[o][t].srcGone <=> objs[o][t].srcGone
         /\ objs'[o][t].dstGone <=> objs[o][t].dstGone
  <2>1. LET y == objs'[o][old]
        IN  y.ver = x.ver /\ y.src = x.src /\ y.dst = x.dst /\ y.srcGone = x.srcGone /\ y.dstGone = x.dstGone
    BY <1>7 DEF ObjectStates
  <2>. QED
    BY <1>6, <1>7, <2>1
<1>9. ~objs'[o]["replacement"].srcGone /\ ~objs'[o]["replacement"].dstGone
  BY <1>7 DEF Object, NoObject
<1>10. Present(o, old) /\ Present(o, "staging")
  BY <1>4 DEF IInv, PlansFollow, Blank
<1>11. objs[o]["replacement"].src = None /\ objs[o]["replacement"].dst = None
  <2>1. ~Present(o, "replacement")
    BY <1>2, <1>4, <1>10, ShapeOf DEF OverwriteShaped, ReplacementShaped
  <2>. QED
    BY <2>1 DEF IInv, PlansFollow, Blank
<1>12. /\ Unsettled(o)' = Unsettled(o) /\ Open(o)' = Open(o)
       /\ \A l \in Locations : /\ Lives(l)' = Lives(l)
                               /\ Touches(o, l) => Touches(o, l)'
                               /\ Vacated(o, l)' => Vacated(o, l)
  <2>1. Unsettled(o)' = Unsettled(o) /\ Open(o)' = Open(o) /\ \A l \in Locations : Lives(l)' = Lives(l)
    BY <1>1 DEF Unsettled, Open, Committed, Lives
  <2>2. ASSUME NEW l \in Locations, Touches(o, l) PROVE Touches(o, l)'
    <3>1. PICK t \in Slots \ {"replacement"} : objs[o][t].src = l \/ objs[o][t].dst = l
      BY <1>11, <2>2 DEF Touches
    <3>. QED
      BY <1>8, <3>1 DEF Touches
  <2>3. ASSUME NEW l \in Locations, Vacated(o, l)' PROVE Vacated(o, l)
    <3>1. PICK t \in Slots \ {"replacement"} :
             \/ objs'[o][t].srcGone /\ objs'[o][t].src = l /\ ~(ops[o].kind = "overwrite" /\ t \in Ids)
             \/ objs'[o][t].dstGone /\ objs'[o][t].dst = l
      BY <1>1, <1>9, <2>3 DEF Vacated
    <3>. QED
      BY <1>8, <3>1 DEF Vacated
  <2>. QED
    BY <2>1, <2>2, <2>3
<1>13. \A l \in Locations : Vacated(o, l)' => disk[l] = "empty"
  BY <1>2, <1>12 DEF Tidy, GoneEmpty
<1>14. Open(o) /\ ops[o].token = o => \A t \in Slots : ~objs'[o][t].dstGone
  BY <1>8, <1>9 DEF Tidy, TargetsFirst
<1>15. Present(o, "staging")'
  BY <1>8, <1>10 DEF Present
<1>16. Active(o)' => Emptied(o)'
  BY <1>1 DEF Emptied
<1>17. /\ UNCHANGED <<ops, disk>> /\ \A q \in Processes : proc'[q] = proc[q]
       /\ \A q \in Ops \ {o} : objs'[q] = objs[q]
       /\ ops'[o].phase # "none"
  BY <1>1, <1>2, <1>7 DEF Unsettled, Open, Committed
<1>. QED
  BY <1>2, <1>12, <1>13, <1>14, <1>15, <1>16, <1>17, RowsStep

\* A plan is laid out: nothing of it is recorded yet.
LEMMA FreshStaysTidy ==
    ASSUME IInv, Tidy, UNCHANGED <<versions, disk>>,
           NEW o \in Ops, \A q \in Ops \ {o} : ops'[q] = ops[q] /\ objs'[q] = objs[q],
           ops[o].phase = "none" \/ (Open(o) /\ ops[o].token = o),
           NEW p \in Processes, \A q \in Processes \ {p} : proc'[q] = proc[q],
           proc'[p].at # "dropped",
           \A s \in Slots : ~Present(o, s),
           \A s \in Slots : objs'[o][s] = objs[o][s] \/ \E v, from, to : objs'[o][s] = Object(v, from, to),
           ~Present(o, "replacement")'
    PROVE  Tidy'
<1>. USE Constants
<1>1. \A s \in Slots : Blank(objs[o][s]) /\ ~objs[o][s].dstGone
  BY DEF IInv, PlansFollow, Tidy, TargetsFirst
<1>2. \A v, from, to : ~Object(v, from, to).srcGone /\ ~Object(v, from, to).dstGone
  BY DEF Object, NoObject
<1>3. \A s \in Slots : ~objs'[o][s].srcGone /\ ~objs'[o][s].dstGone
  BY <1>1, <1>2 DEF Blank
<1>4. \A l \in Locations : ~Vacated(o, l)' /\ ~Touches(o, l) /\ Lives(l)' = Lives(l)
  BY <1>1, <1>3 DEF Vacated, Touches, Blank, Lives
<1>5. Emptied(p)'
  BY DEF Emptied
<1>. QED
  BY <1>3, <1>4, <1>5, RowsStep

LEMMA BeginsStayTidy ==
    ASSUME IInv, Tidy, NEW o \in Ops,
           \/ \E kind, f, path, rev : Admit(o, kind, f, path, rev)
           \/ \E w \in Workers : \E kind, f : \E doomed \in SUBSET Ids : Enlist(w, o, kind, f, doomed)
    PROVE  Tidy'
<1>. USE Constants
<1>1. ops[o].phase = "none" /\ UNCHANGED <<versions, disk>>
  BY DEF Admit, Enlist
<1>2. \A s \in Slots : ~Present(o, s)
  BY <1>1 DEF IInv, PlansFollow
<1>3. PICK op : ops' = [ops EXCEPT ![o] = op]
  BY DEF Admit, Enlist
<1>4. \A q \in Ops \ {o} : ops'[q] = ops[q]
  BY <1>3
<1>5. CASE \E kind, f, path, rev : Admit(o, kind, f, path, rev)
  <2>1. proc' = [proc EXCEPT ![o] = [Idle EXCEPT !.at = "prepare", !.op = o]] /\ UNCHANGED objs
    BY <1>5 DEF Admit
  <2>2. proc'[o].at = "prepare" /\ \A q \in Processes \ {o} : proc'[q] = proc[q]
    BY <2>1 DEF Idle, IInv, RowsOK
  <2>3. ~Present(o, "replacement")'
    BY <1>2, <2>1 DEF Present
  <2>. QED
    BY <1>1, <1>2, <1>4, <2>1, <2>2, <2>3, FreshStaysTidy
<1>6. CASE \E w \in Workers : \E kind, f : \E doomed \in SUBSET Ids : Enlist(w, o, kind, f, doomed)
  <2>1. PICK w \in Workers, doomed \in SUBSET Ids : \E kind, f : Enlist(w, o, kind, f, doomed)
    BY <1>6
  <2>2. /\ Started(w, o)
        /\ objs' = [objs EXCEPT ![o] = [s \in Slots |->
                      IF s \in doomed THEN Object(s, versions[s].loc, None) ELSE objs[o][s]]]
    BY <2>1 DEF Enlist
  <2>3. proc'[w].at = "plan" /\ \A q \in Processes \ {w} : proc'[q] = proc[q]
    BY <2>2 DEF Started, Idle, IInv, RowsOK
  <2>4. /\ \A q \in Ops \ {o} : objs'[q] = objs[q]
        /\ \A s \in Slots : objs'[o][s] = objs[o][s] \/ \E v, from, to : objs'[o][s] = Object(v, from, to)
        /\ objs'[o]["replacement"] = objs[o]["replacement"]
    BY <2>2 DEF IInv, RowsOK
  <2>5. ~Present(o, "replacement")'
    BY <1>2, <2>4 DEF Present
  <2>. QED
    BY <1>1, <1>2, <1>4, <2>3, <2>4, <2>5, FreshStaysTidy
<1>. QED
  BY <1>5, <1>6

\* A plan adds objects to an operation that had none.
LEMMA PreparedRows ==
    ASSUME IInv, HoldersWork, Book, CallsFit, NEW o \in Ops, Prepare(o)
    PROVE  /\ \A q \in Ops \ {o} : objs'[q] = objs[q]
           /\ \A s \in Slots : objs'[o][s] = objs[o][s] \/ \E v, from, to : objs'[o][s] = Object(v, from, to)
           /\ objs'[o]["replacement"] = objs[o]["replacement"]
           /\ PrepareUpload(o) => Present(o, o)'
           /\ PrepareOverwrite(o) => Present(o, "staging")'
<1>. USE Constants
<1>1. /\ proc[o].at = "prepare" /\ Holds(o) /\ Working(o)
      /\ PrepareUpload(o) \/ PrepareOverwrite(o) \/ PrepareRelocation(o)
  BY DEF Prepare, Working
<1>2. objs[o] \in [Slots -> ObjectStates] /\ objs \in [Ops -> [Slots -> ObjectStates]]
  BY DEF IInv, RowsOK
<1>3. PICK f : f = ops[o].file
  OBVIOUS
<1>4. CASE PrepareUpload(o)
  <2>1. objs' = [objs EXCEPT ![o][o] = Object(o, None, InFiles(ops[o].path))]
    BY <1>4 DEF PrepareUpload
  <2>2. objs'[o][o] = Object(o, None, InFiles(ops[o].path)) /\ ~PrepareOverwrite(o)
    BY <1>2, <1>4, <2>1 DEF PrepareUpload, PrepareOverwrite, CanUpload, CanOverwrite
  <2>. QED
    BY <1>2, <2>1, <2>2 DEF Present, Object, NoObject
<1>5. CASE PrepareOverwrite(o)
  <2>1. entries[f].current \in Ids
    BY <1>1, <1>3, <1>5, BeforePlan DEF PrepareOverwrite, CanOverwrite, IInv, EntriesFilled
  <2>2. PICK old \in Ids : \E from :
           objs' = [objs EXCEPT ![o]["staging"] = Object(o, None, InStaging(o)),
                                ![o][old] = Object(old, from, InHistory(old))]
    BY <1>3, <1>5, <2>1 DEF PrepareOverwrite
  <2>3. \E from :
           objs' = [objs EXCEPT ![o] = [[objs[o] EXCEPT !["staging"] = Object(o, None, InStaging(o))]
                                          EXCEPT ![old] = Object(old, from, InHistory(old))]]
    BY <1>2, <2>2
  <2>4. "staging" # "replacement" /\ old # "replacement" /\ old # "staging"
    OBVIOUS
  <2>5. /\ \A q \in Ops \ {o} : objs'[q] = objs[q]
        /\ \A s \in Slots : objs'[o][s] = objs[o][s] \/ \E v, from, to : objs'[o][s] = Object(v, from, to)
        /\ objs'[o]["replacement"] = objs[o]["replacement"]
        /\ objs'[o]["staging"] = Object(o, None, InStaging(o))
    BY <1>2, <2>3, <2>4
  <2>6. ~PrepareUpload(o)
    BY <1>5 DEF PrepareUpload, PrepareOverwrite, CanUpload, CanOverwrite
  <2>7. Object(o, None, InStaging(o)).ver = o
    BY DEF Object, NoObject
  <2>8. Present(o, "staging")'
    <3>1. o # None
      OBVIOUS
    <3>. QED
      BY ONLY <2>5, <2>7, <3>1 DEF Present
  <2>. QED
    BY <2>5, <2>6, <2>8
<1>6. CASE PrepareRelocation(o)
  <2>1. entries[f].current \in Ids
    <3>1. f \in Ids /\ entries[f].state \in {"active", "trashed"}
      BY <1>1, <1>3, <1>6, BeforePlan DEF PrepareRelocation, CanRelocate
    <3>. QED
      BY <3>1 DEF IInv, EntriesFilled
  <2>2. PICK moved : moved = IF ops[o].kind = "purge" THEN VersionsOf(f) ELSE {entries[f].current}
    OBVIOUS
  <2>3. moved \subseteq Ids
    BY <2>1, <2>2 DEF VersionsOf
  <2>4. PICK to : to = Destination(o)
    OBVIOUS
  <2>5. objs' = [objs EXCEPT ![o] = [s \in Slots |->
                   IF s \in moved THEN Object(s, versions[s].loc, to) ELSE objs[o][s]]]
    BY <1>3, <1>6, <2>2, <2>4 DEF PrepareRelocation
  <2>6. ~PrepareUpload(o) /\ ~PrepareOverwrite(o)
    BY <1>6 DEF PrepareUpload, PrepareOverwrite, PrepareRelocation, CanUpload, CanOverwrite, CanRelocate
  <2>. QED
    BY <1>2, <2>3, <2>5, <2>6
<1>. QED
  BY <1>1, <1>4, <1>5, <1>6

LEMMA PrepareStaysTidy ==
    ASSUME IInv, HoldersWork, Book, CallsFit, Tidy, NEW o \in Ops, Prepare(o)
    PROVE  Tidy'
<1>. USE Constants
<1>1. /\ proc[o].at = "prepare" /\ Holds(o) /\ Working(o) /\ Go(o, "plan") /\ UNCHANGED <<versions, disk>>
      /\ PrepareUpload(o) \/ PrepareOverwrite(o) \/ PrepareRelocation(o)
  BY DEF Prepare, Working
<1>2. Open(o) /\ ops[o].token = o /\ \A s \in Slots : ~Present(o, s)
  BY <1>1, BeforePlan
<1>3. ops' \in {ops, [ops EXCEPT ![o].reserved = Bytes[o]]}
  BY <1>1 DEF PrepareUpload, PrepareOverwrite, PrepareRelocation, Reserve
<1>4. \A q \in Ops \ {o} : ops'[q] = ops[q]
  BY <1>3 DEF IInv, RowsOK
<1>5. proc'[o].at = "plan" /\ \A q \in Processes \ {o} : proc'[q] = proc[q]
  BY <1>1, GoEffect
<1>6. /\ \A q \in Ops \ {o} : objs'[q] = objs[q]
      /\ \A s \in Slots : objs'[o][s] = objs[o][s] \/ \E v, from, to : objs'[o][s] = Object(v, from, to)
      /\ objs'[o]["replacement"] = objs[o]["replacement"]
  BY PreparedRows
<1>7. ~Present(o, "replacement")'
  BY <1>2, <1>6 DEF Present
<1>. QED
  BY <1>1, <1>2, <1>4, <1>5, <1>6, <1>7, FreshStaysTidy

\* An address a plan names belongs to an object of the plan.
LEMMA TouchedBy ==
    ASSUME IInv, NEW o \in Ops, NEW l \in Locations, Touches(o, l)
    PROVE  \E s \in Slots : Present(o, s) /\ (objs[o][s].src = l \/ objs[o][s].dst = l)
<1>. QED
  BY Constants DEF Touches, IInv, PlansFollow, Blank

\* An operation is settled: what its addresses still hold belongs to versions.
LEMMA SettledStaysTidy ==
    ASSUME IInv, HoldersWork, Tidy, UNCHANGED <<objs, disk>>,
           NEW p \in Processes, Die(p), NEW o \in Ops,
           ops'[o].phase \in {"completed", "failed"}, \A q \in Ops \ {o} : ops'[q] = ops[q],
           \A l \in Locations : disk[l] # "empty" /\ (Lives(l) \/ Touches(o, l)) => Lives(l)'
    PROVE  Tidy'
<1>1. ~Unsettled(o)' /\ ~Open(o)' /\ ops'[o].phase # "none"
  BY DEF Unsettled, Open, Committed
<1>2. ~Active(p)' /\ \A q \in Processes \ {p} : proc'[q] = proc[q]
  BY StopEffect DEF Active, Calling, Working
<1>. QED
  BY <1>1, <1>2, RowsStep

LEMMA CommitUploadStaysTidy ==
    ASSUME IInv, HoldersWork, Book, Tidy, NEW o \in Ops, Open(o), CommitUpload(o), Die(o),
           UNCHANGED <<objs, disk>>
    PROVE  Tidy'
<1>. USE Constants
<1>1. Unsettled(o) /\ versions[o].state = "unborn" /\ ops[o].kind = "upload" /\ UploadShaped(o)
  BY ShapeOf DEF CommitUpload, Unsettled, Open, IInv, IdsFresh
<1>2. PICK path : path = ops[o].path
  OBVIOUS
<1>3. /\ versions' = [versions EXCEPT ![o] = [state |-> "live", file |-> o, loc |-> InFiles(path)]]
      /\ ops' = [ops EXCEPT ![o] = Completed(o)]
  BY <1>2 DEF CommitUpload
<1>4. ops'[o].phase = "completed" /\ \A q \in Ops \ {o} : ops'[q] = ops[q]
  BY <1>3 DEF Completed, IInv, RowsOK, OpStates
<1>5. /\ versions'[o].state = "live" /\ versions'[o].loc = InFiles(path)
      /\ \A v \in Ids \ {o} : versions'[v] = versions[v]
  BY <1>3 DEF IInv, RowsOK
<1>6. \A l \in Locations : Lives(l) => Lives(l)'
  BY <1>1, <1>5 DEF Lives
<1>7. ASSUME NEW l \in Locations, Touches(o, l) PROVE Lives(l)'
  <2>1. l = InFiles(path)
    BY <1>1, <1>2, <1>7, TouchedBy DEF UploadShaped
  <2>. QED
    BY <1>5, <2>1 DEF Lives
<1>. QED
  BY <1>4, <1>6, <1>7, SettledStaysTidy

LEMMA PurgeStaysTidy ==
    ASSUME IInv, HoldersWork, Book, Tidy, NEW p \in Processes, NEW o \in Ops, Open(o), Purge(o), Die(p),
           UNCHANGED <<objs, disk>>
    PROVE  Tidy'
<1>. USE Constants
<1>1. Unsettled(o) /\ Purging(o) /\ PurgeShaped(o) /\ ops[o].kind # "overwrite" /\ PendingSource(o) = {}
  BY ShapeOf DEF Purge, Unsettled, Purging, SystemKinds
<1>2. PICK gone \in SUBSET Ids : gone = {v \in Ids : Present(o, v) /\ versions[v].state = "live"}
  OBVIOUS
<1>3. /\ versions' = [v \in Ids |->
            IF v \in gone THEN [versions[v] EXCEPT !.state = "purged"] ELSE versions[v]]
      /\ ops' = [ops EXCEPT ![o] = Completed(o)]
  BY <1>2 DEF Purge
<1>4. ops'[o].phase = "completed" /\ \A q \in Ops \ {o} : ops'[q] = ops[q]
  BY <1>3 DEF Completed, OpStates, IInv, RowsOK
<1>5. ASSUME NEW l \in Locations, NEW s \in Slots, Present(o, s), objs[o][s].src = l
      PROVE  disk[l] = "empty"
  <2>1. objs[o][s].srcGone
    BY <1>1, <1>5 DEF PendingSource
  <2>. QED
    BY <1>1, <1>5, <2>1 DEF Tidy, GoneEmpty, Vacated
<1>6. ASSUME NEW l \in Locations, disk[l] # "empty", Lives(l) PROVE Lives(l)'
  <2>1. PICK v \in Ids : versions[v].state = "live" /\ versions[v].loc = l
    BY <1>6 DEF Lives
  <2>2. ~Present(o, v)
    BY <1>1, <1>5, <1>6, <2>1 DEF PurgeShaped
  <2>3. versions'[v] = versions[v]
    BY <1>2, <1>3, <2>2
  <2>. QED
    BY <2>1, <2>3 DEF Lives
<1>7. ASSUME NEW l \in Locations, disk[l] # "empty", Touches(o, l) PROVE FALSE
  BY <1>1, <1>5, <1>7, TouchedBy DEF PurgeShaped
<1>. QED
  BY <1>4, <1>6, <1>7, SettledStaysTidy

\* The address of the file an overwrite concerns is that of its current version.
LEMMA OverwrittenLives ==
    ASSUME IInv, Book, NEW o \in Ops, Unsettled(o), ops[o].kind = "overwrite",
           NEW s \in Slots, Present(o, s), s # "staging"
    PROVE  /\ entries[ops[o].file].path \in Paths
           /\ Lives(InFiles(entries[ops[o].file].path))
<1>. USE Constants
<1>1. OverwriteShaped(o) /\ ops[o].file \in Ids
  BY ShapeOf
<1>2. PICK v \in Ids : Present(o, v)
  BY <1>1 DEF OverwriteShaped, Planned
<1>3. Held(o, v) /\ entries[ops[o].file].state = "active"
  BY <1>1, <1>2 DEF OverwriteShaped, ArchiveShaped
<1>4. PICK u \in Ids : u = entries[ops[o].file].current /\ versions[u].state = "live" /\ versions[u].file = ops[o].file
  BY <1>1, <1>3 DEF IInv, EntriesFilled, Book, CurrentLives
<1>5. versions[u].loc = InFiles(entries[ops[o].file].path) /\ entries[ops[o].file].path \in Paths
  BY <1>3, <1>4, PlaceOf, SMTT(30)
<1>. QED
  BY <1>4, <1>5 DEF Lives

LEMMA FinishStaysTidy ==
    ASSUME IInv, HoldersWork, Book, Tidy, NEW p \in Processes, Finish(p)
    PROVE  Tidy'
<1>. USE Constants, AddressesApart
<1>1. PICK o \in Ops : o = proc[p].op
  BY DEF Finish, IInv, ExecutorsPlaced, PlacedAs
<1>2. /\ Committed(o) /\ Finished(o) /\ Die(p) /\ UNCHANGED <<versions, objs, disk>>
      /\ ops' = [ops EXCEPT ![o] = Completed(o)]
  BY <1>1 DEF Finish
<1>3. Unsettled(o) /\ ~Open(o)
  BY <1>2 DEF Unsettled, Open, Committed
<1>4. ops'[o].phase = "completed" /\ \A q \in Ops \ {o} : ops'[q] = ops[q]
  BY <1>2 DEF Completed, OpStates, IInv, RowsOK
<1>5. ASSUME NEW l \in Locations, disk[l] # "empty", Touches(o, l) PROVE Lives(l)
  <2>1. PICK s \in Slots : Present(o, s) /\ (objs[o][s].src = l \/ objs[o][s].dst = l)
    BY <1>5, TouchedBy
  <2>2. objs[o][s].src = l => objs[o][s].srcGone
    BY <1>2 DEF Finished, PendingSource
  <2>3. objs[o][s].dst = l /\ Staged(o, s) => objs[o][s].dstGone
    BY <1>2 DEF Finished, PendingTarget
  <2>4. ~Vacated(o, l)
    BY <1>3, <1>5 DEF Tidy, GoneEmpty
  <2>5. ops[o].kind = "overwrite" \/ ops[o].kind \in {"move", "trash", "restore"}
    BY <1>2, <1>3, <2>1, ShapeOf DEF UploadShaped, PurgeShaped
  <2>6. CASE ops[o].kind = "overwrite"
    <3>1. OverwriteShaped(o)
      BY <1>3, <2>6, ShapeOf
    <3>2. CASE s = "staging"
      BY <2>1, <2>3, <2>4, <3>1, <3>2 DEF OverwriteShaped, StagingShaped, Staged, Vacated
    <3>3. CASE s = "replacement"
      <4>1. objs[o][s].dst = InFiles(entries[ops[o].file].path)
        BY <2>1, <3>1, <3>3 DEF OverwriteShaped, ReplacementShaped
      <4>2. objs[o][s].src # l
        BY <2>2, <2>4, <3>3 DEF Vacated
      <4>. QED
        BY <1>3, <2>1, <2>6, <3>3, <4>1, <4>2, OverwrittenLives
    <3>4. CASE s \in Ids
      <4>1. /\ Held(o, s) /\ s # entries[ops[o].file].current
            /\ objs[o][s].src = InFiles(entries[ops[o].file].path) /\ objs[o][s].dst = InHistory(s)
        BY <1>3, <2>1, <3>1, <3>4 DEF OverwriteShaped, ArchiveShaped
      <4>2. versions[s].state = "live" /\ versions[s].loc = InHistory(s)
        BY <3>4, <4>1, PlaceOf DEF Held
      <4>3. Lives(InFiles(entries[ops[o].file].path))
        BY <1>3, <2>1, <2>6, <3>4, OverwrittenLives
      <4>. QED
        BY <2>1, <3>4, <4>1, <4>2, <4>3 DEF Lives
    <3>. QED
      BY <3>2, <3>3, <3>4 DEF Slots
  <2>7. CASE ops[o].kind \in {"move", "trash", "restore"}
    <3>1. s \in Ids /\ Held(o, s) /\ versions[s].loc = objs[o][s].dst
      <4>1. RelocationShaped(o)
        BY <1>3, <2>7, ShapeOf
      <4>. QED
        BY <1>3, <2>1, <4>1 DEF RelocationShaped
    <3>2. objs[o][s].src # l
      BY <2>2, <2>4, <2>7 DEF Vacated
    <3>. QED
      BY <2>1, <3>1, <3>2 DEF Held, Lives
  <2>. QED
    BY <2>5, <2>6, <2>7
<1>6. \A l \in Locations : Lives(l)' = Lives(l)
  BY <1>2 DEF Lives
<1>. QED
  BY <1>2, <1>4, <1>5, <1>6, SettledStaysTidy

LEMMA AbortStaysTidy ==
    ASSUME IInv, HoldersWork, Book, Tidy, NEW w \in Workers, Abort(w)
    PROVE  Tidy'
<1>. USE Constants, AddressesApart
<1>1. PICK o \in Ops : o = proc[w].op
  BY DEF Abort, IInv, ExecutorsPlaced, PlacedAs
<1>2. /\ Undoing(o) /\ PendingTarget(o) = {} /\ Die(w) /\ UNCHANGED <<versions, objs, disk>>
      /\ ops' = [ops EXCEPT ![o].phase = "failed", ![o].reserved = 0, ![o].live = FALSE]
  BY <1>1 DEF Abort
<1>3. Unsettled(o) /\ Open(o)
  BY <1>2 DEF Undoing, Unsettled
<1>4. ops'[o].phase = "failed" /\ \A q \in Ops \ {o} : ops'[q] = ops[q]
  <2>1. ops[o] \in OpStates
    BY DEF IInv, RowsOK
  <2>2. ops'[o].phase = "failed"
    BY <1>2, <2>1 DEF OpStates, IInv, RowsOK
  <2>. QED
    BY <1>2, <2>2 DEF IInv, RowsOK
<1>5. ASSUME NEW l \in Locations, disk[l] # "empty", Touches(o, l) PROVE Lives(l)
  <2>1. PICK s \in Slots : Present(o, s) /\ (objs[o][s].src = l \/ objs[o][s].dst = l)
    BY <1>5, TouchedBy
  <2>2. ASSUME NEW t \in Slots, objs[o][t].dst # None PROVE objs[o][t].dstGone
    BY <1>2, <2>2 DEF PendingTarget
  <2>3. ~Vacated(o, l)
    BY <1>3, <1>5 DEF Tidy, GoneEmpty
  <2>4. \A t \in Slots \ {"replacement"} : objs[o][t].dst # l
    BY <2>2, <2>3 DEF Vacated
  <2>5. ops[o].kind \in {"upload", "overwrite", "move", "trash", "restore"}
    BY <1>2, <1>3, <2>1, ShapeOf DEF Undoing, Purging, Planned
  <2>6. CASE ops[o].kind = "upload"
    BY <1>3, <2>1, <2>4, <2>6, ShapeOf DEF UploadShaped
  <2>7. CASE ops[o].kind = "overwrite"
    <3>1. OverwriteShaped(o)
      BY <1>3, <2>7, ShapeOf
    <3>2. CASE s = "staging"
      BY <2>1, <2>4, <3>1, <3>2 DEF OverwriteShaped, StagingShaped
    <3>3. CASE s = "replacement"
      <4>1. /\ objs[o][s].src = InStaging(o)
            /\ objs[o][s].dst = InFiles(entries[ops[o].file].path)
        BY <2>1, <3>1, <3>3 DEF OverwriteShaped, ReplacementShaped
      <4>2. objs[o]["staging"].dst = InStaging(o)
        BY <1>3, <2>1, <3>1, <3>3 DEF Tidy, StagingFirst, OverwriteShaped, StagingShaped
      <4>3. "staging" # "replacement"
        OBVIOUS
      <4>4. objs[o][s].src # l
        BY <2>4, <4>1, <4>2, <4>3
      <4>. QED
        BY <1>3, <2>1, <2>7, <3>3, <4>1, <4>4, OverwrittenLives
    <3>4. CASE s \in Ids
      <4>1. objs[o][s].src = InFiles(entries[ops[o].file].path)
        BY <2>1, <3>1, <3>4 DEF OverwriteShaped, ArchiveShaped
      <4>. QED
        BY <1>3, <2>1, <2>4, <2>7, <3>4, <4>1, OverwrittenLives
    <3>. QED
      BY <3>2, <3>3, <3>4 DEF Slots
  <2>8. CASE ops[o].kind \in {"move", "trash", "restore"}
    <3>1. s \in Ids /\ Held(o, s) /\ versions[s].loc = objs[o][s].src
      <4>1. RelocationShaped(o)
        BY <1>3, <2>8, ShapeOf
      <4>. QED
        BY <1>3, <2>1, <4>1 DEF RelocationShaped
    <3>. QED
      BY <2>1, <2>4, <3>1 DEF Held, Lives
  <2>. QED
    BY <2>5, <2>6, <2>7, <2>8
<1>6. \A l \in Locations : Lives(l)' = Lives(l)
  BY <1>2 DEF Lives
<1>. QED
  BY <1>2, <1>4, <1>5, <1>6, SettledStaysTidy

\* An operation is published: its plan goes on to name what it leaves behind.
LEMMA PublishedStaysTidy ==
    ASSUME IInv, Tidy, UNCHANGED <<objs, disk, proc>>, NEW o \in Ops, Open(o), Publish(o),
           \A l \in Locations : Lives(l) => Lives(l)' \/ Touches(o, l)
    PROVE  Tidy'
<1>. USE Constants
<1>1. /\ Unsettled(o) /\ Unsettled(o)' /\ ~Open(o)' /\ ops'[o].phase # "none"
      /\ ops'[o].kind = ops[o].kind /\ \A q \in Ops \ {o} : ops'[q] = ops[q]
  BY DEF Publish, Unsettled, Committed, Open, IInv, RowsOK, OpStates
<1>2. \A l \in Locations : Vacated(o, l)' = Vacated(o, l) /\ Touches(o, l)' = Touches(o, l)
  BY <1>1 DEF Vacated, Touches
<1>3. \A l \in Locations : Vacated(o, l)' => disk[l] = "empty"
  BY <1>1, <1>2 DEF Tidy, GoneEmpty
<1>4. Present(o, "replacement")' => Present(o, "staging")'
  BY <1>1 DEF Tidy, StagingFirst, Present
<1>5. Active(o)' => Emptied(o)'
  BY DEF Tidy, DropsEmpty, Active, Calling, Working, Emptied
<1>. QED
  BY <1>1, <1>2, <1>3, <1>4, <1>5, RowsStep

LEMMA CommitOverwriteStaysTidy ==
    ASSUME IInv, Book, Tidy, NEW o \in Ops, Open(o), CommitOverwrite(o), UNCHANGED <<objs, disk, proc>>
    PROVE  Tidy'
<1>. USE Constants
<1>1. Unsettled(o) /\ versions[o].state = "unborn" /\ ops[o].file \in Ids
  BY ShapeOf DEF Unsettled, Open, IInv, IdsFresh
<1>2. PICK f \in Ids, old \in Ids, path \in Paths :
         f = ops[o].file /\ old = entries[f].current /\ path = entries[f].path
  BY <1>1, HeldFile DEF CommitOverwrite
<1>3. /\ versions' = [versions EXCEPT ![old].loc = InHistory(old),
            ![o] = [state |-> "live", file |-> f, loc |-> InFiles(path)]]
      /\ Publish(o)
  BY <1>2 DEF CommitOverwrite
<1>4. /\ versions'[o].state = "live" /\ versions'[o].loc = InFiles(path)
      /\ \A v \in Ids \ {o, old} : versions'[v] = versions[v]
  BY <1>3 DEF IInv, RowsOK
<1>5. ASSUME NEW l \in Locations, Lives(l) PROVE Lives(l)'
  <2>1. PICK v \in Ids : versions[v].state = "live" /\ versions[v].loc = l
    BY <1>5 DEF Lives
  <2>2. CASE v = old
    <3>1. versions[v].file = f /\ entries[f].state = "active"
      <4>1. OverwriteShaped(o) /\ Present(o, "replacement") /\ entries[f].busy = o
        BY <1>1, <1>2, ShapeOf DEF CommitOverwrite
      <4>2. PICK u \in Ids : Present(o, u)
        BY <4>1 DEF OverwriteShaped, Planned
      <4>3. Held(o, u) /\ u = entries[f].current /\ entries[f].state = "active"
        BY <1>2, <4>1, <4>2 DEF OverwriteShaped, ArchiveShaped
      <4>. QED
        BY <1>2, <2>2, <4>3 DEF Held
    <3>2. l = InFiles(path)
      BY <1>2, <2>1, <2>2, <3>1, PlaceOf
    <3>. QED
      BY <1>4, <3>2 DEF Lives
  <2>3. CASE v # old
    BY <1>1, <1>4, <2>1, <2>3 DEF Lives
  <2>. QED
    BY <2>2, <2>3
<1>. QED
  BY <1>3, <1>5, PublishedStaysTidy

LEMMA CommitRelocationStaysTidy ==
    ASSUME IInv, HoldersWork, Book, CallsFit, Tidy, NEW o \in Ops, proc[o].at = "plan", Holds(o), Open(o),
           CommitRelocation(o), UNCHANGED <<objs, disk, proc>>
    PROVE  Tidy'
<1>. USE Constants
<1>1. proc[o].op = o /\ Unsettled(o) /\ CallFits(o)
  BY HoldsAlone DEF Working, CallsFit
<1>2. ops[o].kind \in {"move", "trash", "restore"} /\ ~Purging(o) /\ RelocationShaped(o)
  BY <1>1, ShapeOf DEF CommitRelocation, Purging, SystemKinds
<1>3. PICK v \in Ids : v = entries[ops[o].file].current
  <2>1. ops[o].file \in Ids /\ entries[ops[o].file].busy = o
    BY <1>1, ShapeOf DEF CommitRelocation
  <2>. QED
    BY <2>1, HeldFile
<1>4. Present(o, v)
  BY <1>1, <1>2, <1>3 DEF CallFits, RequestFits, Planned, RelocationShaped
<1>5. versions[v].loc = objs[o][v].src
  BY <1>2, <1>4 DEF RelocationShaped
<1>6. versions' = [versions EXCEPT ![v].loc = objs[o][v].dst] /\ Publish(o)
  BY <1>3 DEF CommitRelocation
<1>7. \A u \in Ids \ {v} : versions'[u] = versions[u]
  BY <1>6 DEF IInv, RowsOK
<1>8. ASSUME NEW l \in Locations, Lives(l) PROVE Lives(l)' \/ Touches(o, l)
  <2>1. PICK u \in Ids : versions[u].state = "live" /\ versions[u].loc = l
    BY <1>8 DEF Lives
  <2>2. CASE u = v
    BY <1>5, <2>1, <2>2 DEF Touches
  <2>3. CASE u # v
    BY <1>7, <2>1, <2>3 DEF Lives
  <2>. QED
    BY <2>2, <2>3
<1>. QED
  BY <1>6, <1>8, PublishedStaysTidy

LEMMA CommitStaysTidy ==
    ASSUME IInv, HoldersWork, Book, CallsFit, Tidy, NEW o \in Ops, Commit(o)
    PROVE  Tidy'
<1>. USE Constants
<1>1. proc[o].at = "plan" /\ Holds(o) /\ Open(o) /\ UNCHANGED <<objs, disk>>
  BY DEF Commit
<1>. QED
  BY <1>1, CommitUploadStaysTidy, PurgeStaysTidy, CommitOverwriteStaysTidy,
     CommitRelocationStaysTidy DEF Commit

LEMMA PurgeByJobStaysTidy ==
    ASSUME IInv, HoldersWork, Book, Tidy, NEW w \in Workers, PurgeByJob(w)
    PROVE  Tidy'
<1>. USE Constants
<1>1. PICK o \in Ops : o = proc[w].op
  BY DEF PurgeByJob, IInv, ExecutorsPlaced, PlacedAs
<1>. QED
  BY <1>1, PurgeStaysTidy DEF PurgeByJob

LEMMA TidyBegins == Init => Tidy
<1>. SUFFICES ASSUME Init PROVE Tidy
  OBVIOUS
<1>. USE Constants, Addresses
<1>1. \A o \in Ops : ~Unsettled(o)
  BY DEF Init, NoOp, Unsettled, Open, Committed
<1>2. \A o \in Ops, s \in Slots : ~objs[o][s].dstGone
  BY DEF Init, NoObject
<1>3. DropsEmpty
  BY DEF Init, Idle, DropsEmpty, Active, Calling, Working
<1>4. ASSUME NEW l \in Locations, disk[l] # "empty"
      PROVE  \E v \in Ids : versions[v].state = "live" /\ versions[v].loc = l
  <2>1. l = InFiles(Home)
    BY <1>4 DEF Init
  <2>2. versions[First].state = "live" /\ versions[First].loc = InFiles(Home)
    BY DEF Init
  <2>. QED
    BY <2>1, <2>2
<1>. QED
  BY <1>1, <1>2, <1>3, <1>4 DEF Tidy, GoneEmpty, TargetsFirst, StagingFirst, NothingLeaks

LEMMA StepStaysTidy ==
    IInv /\ HoldersWork /\ Book /\ CallsFit /\ Tidy /\ [Next]_vars => Tidy'
<1>. SUFFICES ASSUME IInv, HoldersWork, Book, CallsFit, Tidy, [Next]_vars PROVE Tidy'
  OBVIOUS
<1>. USE Constants
<1>1. CASE UNCHANGED vars
  BY <1>1, TimeStaysTidy
<1>2. ASSUME NEW p \in Processes, Advance(p) PROVE Tidy'
  BY <1>2, IssuesStayTidy, ReturnsStayTidy, RecordDropStaysTidy, FinishStaysTidy,
     StopsStayTidy DEF Advance
<1>3. ASSUME NEW o \in Ops, Request(o) \/ Refuse(o) \/ ServeRequest(o) \/ Lapse(o) \/ Deadline(o)
      PROVE  Tidy'
  <2>1. CASE ServeRequest(o)
    <3>1. CASE (\E s \in Slots : IssueMake(o, s)) \/ Make(o)
      BY <3>1, IssuesStayTidy, ReturnsStayTidy
    <3>2. CASE Prepare(o) \/ RecordMade(o) \/ Intend(o) \/ Commit(o)
      BY <3>2, PrepareStaysTidy, RecordMadeStaysTidy, IntendStaysTidy, CommitStaysTidy
    <3>. QED
      BY <1>2, <2>1, <3>1, <3>2 DEF ServeRequest
  <2>2. CASE Request(o)
    BY <2>2, BeginsStayTidy DEF Request
  <2>3. CASE Refuse(o)
    BY <2>3, StopsStayTidy
  <2>4. CASE Lapse(o) \/ Deadline(o)
    BY <2>4, TimeStaysTidy
  <2>. QED
    BY <1>3, <2>1, <2>2, <2>3, <2>4
<1>4. ASSUME NEW w \in Workers, ServeJob(w) PROVE Tidy'
  <2>1. CASE (\E s \in Slots : IssueRestore(w, s)) \/ Restore(w) \/ RecordRestored(w)
    BY <2>1, IssuesStayTidy, ReturnsStayTidy, RecordRestoredStaysTidy
  <2>2. CASE Abort(w) \/ PurgeByJob(w)
    BY <2>2, AbortStaysTidy, PurgeByJobStaysTidy
  <2>. QED
    BY <1>2, <1>4, <2>1, <2>2 DEF ServeJob
<1>5. ASSUME NEW w \in Workers, NEW o \in Ops,
             \/ Claim(w, o)
             \/ \E v \in Ids : EnlistHistory(w, o, v)
             \/ \E f \in Ids : EnlistTrash(w, o, f)
      PROVE  Tidy'
  <2>1. CASE Claim(w, o)
    BY <2>1, ClaimStaysTidy
  <2>2. ASSUME NEW v \in Ids, EnlistHistory(w, o, v) PROVE Tidy'
    <3>1. \E f : Enlist(w, o, "history_purge", f, {v})
      BY <2>2 DEF EnlistHistory
    <3>. QED
      BY <3>1, BeginsStayTidy
  <2>3. ASSUME NEW f \in Ids, EnlistTrash(w, o, f) PROVE Tidy'
    <3>1. VersionsOf(f) \in SUBSET Ids
      BY DEF VersionsOf
    <3>. QED
      BY <2>3, <3>1, BeginsStayTidy DEF EnlistTrash
  <2>. QED
    BY <1>5, <2>1, <2>2, <2>3
<1>6. ASSUME NEW v \in Ids, Refer(v) \/ Unrefer(v) PROVE Tidy'
  BY <1>6, TimeStaysTidy
<1>7. CASE Mishap
  BY <1>7, StopsStayTidy, TimeStaysTidy DEF Mishap
<1>. QED
  BY <1>1, <1>3, <1>4, <1>5, <1>6, <1>7 DEF Next

\* Whatever lies in the storage belongs to a version or to a plan that is
\* still to be settled: no failure between a call and the transaction that
\* records it leaves an object nobody will ever delete (file-objects.ts,
\* file-maintenance.ts).
THEOREM NothingLeft == Spec => []NothingLeaks
<1>1. Init => IInv /\ HoldersWork /\ Book /\ CallsFit /\ Tidy
  BY InitHolds, LocksBegin, CallsBegin, TidyBegins
<1>2. /\ IInv /\ HoldersWork /\ Book /\ CallsFit /\ Tidy /\ [Next]_vars
      => (IInv /\ HoldersWork /\ Book /\ CallsFit /\ Tidy)'
  BY StepHolds, LocksHold, StepFits, StepStaysTidy
<1>3. Tidy => NothingLeaks
  BY DEF Tidy
<1>. QED
  BY <1>1, <1>2, <1>3, PTL DEF Spec

-----------------------------------------------------------------------------
(* What the counters stand for *)

Pairs == Ops \X Slots
Pending(op) == op.phase \in {"open", "committed"}

\* What versions, operations and transient copies each weigh.
UsedBy(vs) == [v \in Ids |-> IF vs[v].state = "live" THEN Bytes[v] ELSE 0]
ReservedBy(os) == [o \in Ops |-> IF Pending(os[o]) THEN os[o].reserved ELSE 0]
CopiedBy(os, xs) == [x \in Pairs |-> IF Pending(os[x[1]]) THEN xs[x[1]][x[2]].temp ELSE 0]

UsedSum(vs) == Total(UsedBy(vs), Ids)
ReservedSum(os) == Total(ReservedBy(os), Ops)
CopiedSum(os, xs) == Total(CopiedBy(os, xs), Pairs)

Counted ==
    /\ usage \in [used : Int, reserved : Int, transient : Int]
    /\ usage.used = UsedSum(versions) /\ usage.reserved = ReservedSum(ops)
    /\ usage.transient = CopiedSum(ops, objs)
    /\ usage.used + usage.reserved =< Quota

\* An operation keeps a reservation from its plan to its commit, if it writes
\* content, and a transient copy is a target still to be deleted: the copy of
\* a source that is not gone, or was restored, or a staging.
CopyStands(o, s) ==
    LET x == objs[o][s]
    IN  x.temp # 0 =>
          /\ Present(o, s) /\ ops[o].kind # "upload"
          /\ x.dst # None /\ ~x.dstGone /\ (x.prepared \/ x.restored)
          /\ Staged(o, s) \/ (x.src # None /\ (~x.srcGone \/ (x.started /\ x.restored)))
Ledger(o) ==
    /\ Open(o) => ops[o].reserved =
          IF ops[o].kind \in {"upload", "overwrite"} /\ Planned(o) THEN Bytes[o] ELSE 0
    /\ ~Open(o) => ops[o].reserved = 0
    /\ ops[o].phase = "none" \/ Unsettled(o) => \A s \in Slots : CopyStands(o, s)
Ledgers == \A o \in Ops : Ledger(o)

LEMMA Finiteness ==
    /\ IsFiniteSet(Ops) /\ IsFiniteSet(Ids) /\ IsFiniteSet(Slots) /\ IsFiniteSet(Pairs)
<1>1. IsFiniteSet(Ids)
  BY UsageAssumption, FS_AddElement DEF Ids
<1>2. IsFiniteSet({"staging", "replacement"})
  <2>1. IsFiniteSet({"staging"})
    BY FS_Singleton
  <2>2. IsFiniteSet({"staging"} \cup {"replacement"})
    BY <2>1, FS_AddElement
  <2>3. {"staging"} \cup {"replacement"} = {"staging", "replacement"}
    OBVIOUS
  <2>. QED
    BY <2>2, <2>3
<1>3. IsFiniteSet(Slots)
  BY <1>1, <1>2, FS_Union DEF Slots
<1>. QED
  BY <1>1, <1>3, UsageAssumption, FS_Product DEF Pairs

LEMMA Weighed ==
    ASSUME NEW vs, NEW os \in [Ops -> OpStates], NEW xs \in [Ops -> [Slots -> ObjectStates]]
    PROVE  /\ \A v \in Ids : UsedBy(vs)[v] \in Nat
           /\ \A o \in Ops : ReservedBy(os)[o] \in Nat
           /\ \A x \in Pairs : CopiedBy(os, xs)[x] \in Nat
           /\ UsedSum(vs) \in Nat /\ ReservedSum(os) \in Nat /\ CopiedSum(os, xs) \in Nat
<1>1. \A v \in Ids : UsedBy(vs)[v] \in Nat
  BY Constants DEF UsedBy
<1>2. \A o \in Ops : ReservedBy(os)[o] \in Nat
  BY DEF ReservedBy, OpStates
<1>3. ASSUME NEW o \in Ops, NEW s \in Slots PROVE CopiedBy(os, xs)[<<o, s>>] \in Nat
  BY DEF CopiedBy, Pairs, ObjectStates
<1>4. \A x \in Pairs : CopiedBy(os, xs)[x] \in Nat
  BY <1>3 DEF Pairs
<1>. QED
  BY <1>1, <1>2, <1>4, Finiteness, TotalType DEF UsedSum, ReservedSum, CopiedSum

\* The sums move with what they are about, one at a time.
LEMMA UsedStep ==
    ASSUME NEW vs, NEW ws, NEW y \in Ids,
           \A v \in Ids \ {y} : vs[v].state = "live" <=> ws[v].state = "live"
    PROVE  UsedSum(ws) = UsedSum(vs) - UsedBy(vs)[y] + UsedBy(ws)[y]
<1>1. \A v \in Ids : UsedBy(vs)[v] \in Nat /\ UsedBy(ws)[v] \in Nat
  BY Constants DEF UsedBy
<1>2. \A v \in Ids \ {y} : UsedBy(vs)[v] = UsedBy(ws)[v]
  BY DEF UsedBy
<1>. QED
  BY <1>1, <1>2, Finiteness, TotalChanged DEF UsedSum

LEMMA ReservedStep ==
    ASSUME NEW os \in [Ops -> OpStates], NEW qs \in [Ops -> OpStates], NEW o \in Ops,
           \A q \in Ops \ {o} : /\ Pending(qs[q]) <=> Pending(os[q])
                                /\ qs[q].reserved = os[q].reserved
    PROVE  /\ ReservedSum(os) \in Nat
           /\ ReservedSum(qs) = ReservedSum(os) - ReservedBy(os)[o] + ReservedBy(qs)[o]
<1>1. \A q \in Ops : ReservedBy(os)[q] \in Nat /\ ReservedBy(qs)[q] \in Nat
  BY DEF ReservedBy, OpStates
<1>2. \A q \in Ops \ {o} : ReservedBy(os)[q] = ReservedBy(qs)[q]
  BY DEF ReservedBy
<1>. QED
  BY <1>1, <1>2, Finiteness, TotalChanged DEF ReservedSum

LEMMA CopiedSame ==
    ASSUME NEW os \in [Ops -> OpStates], NEW qs \in [Ops -> OpStates],
           NEW xs \in [Ops -> [Slots -> ObjectStates]], NEW ys \in [Ops -> [Slots -> ObjectStates]],
           \A q \in Ops, s \in Slots : CopiedBy(qs, ys)[<<q, s>>] = CopiedBy(os, xs)[<<q, s>>]
    PROVE  CopiedSum(qs, ys) = CopiedSum(os, xs)
<1>1. \A x \in Pairs : CopiedBy(os, xs)[x] = CopiedBy(qs, ys)[x]
  BY DEF Pairs
<1>. QED
  BY <1>1, Finiteness, TotalSame DEF CopiedSum

LEMMA UsedSame ==
    ASSUME NEW vs, NEW ws, \A v \in Ids : vs[v].state = "live" <=> ws[v].state = "live"
    PROVE  UsedSum(ws) = UsedSum(vs)
<1>1. \A v \in Ids : UsedBy(ws)[v] = UsedBy(vs)[v]
  BY DEF UsedBy
<1>. QED
  BY <1>1, Finiteness, TotalSame DEF UsedSum

LEMMA ReservedSame ==
    ASSUME NEW os \in [Ops -> OpStates], NEW qs \in [Ops -> OpStates],
           \A q \in Ops : ReservedBy(qs)[q] = ReservedBy(os)[q]
    PROVE  ReservedSum(qs) = ReservedSum(os)
<1>. QED
  BY Finiteness, TotalSame DEF ReservedSum

-----------------------------------------------------------------------------
(* Steps that count nothing *)

Accounts == Ledgers /\ Counted

LEMMA Rows ==
    ASSUME IInv
    PROVE  /\ ops \in [Ops -> OpStates] /\ objs \in [Ops -> [Slots -> ObjectStates]]
           /\ \A o \in Ops : ops[o].reserved \in Nat /\ (Pending(ops[o]) <=> Unsettled(o))
           /\ \A o \in Ops, s \in Slots : objs[o][s].temp \in Nat
<1>1. ops \in [Ops -> OpStates] /\ objs \in [Ops -> [Slots -> ObjectStates]]
  BY DEF IInv, RowsOK
<1>2. \A o \in Ops : ops[o].reserved \in Nat
  BY <1>1 DEF OpStates
<1>3. \A o \in Ops, s \in Slots : objs[o][s].temp \in Nat
  BY <1>1 DEF ObjectStates
<1>. QED
  BY <1>1, <1>2, <1>3 DEF Pending, Unsettled, Open, Committed

LEMMA RowsNext ==
    ASSUME IInv'
    PROVE  /\ ops' \in [Ops -> OpStates] /\ objs' \in [Ops -> [Slots -> ObjectStates]]
           /\ \A o \in Ops : ops'[o].reserved \in Nat /\ (Pending(ops'[o]) <=> Unsettled(o)')
           /\ \A o \in Ops, s \in Slots : objs'[o][s].temp \in Nat
<1>1. ops' \in [Ops -> OpStates] /\ objs' \in [Ops -> [Slots -> ObjectStates]]
  BY DEF IInv, RowsOK
<1>2. \A o \in Ops : ops'[o].reserved \in Nat
  BY <1>1 DEF OpStates
<1>3. \A o \in Ops, s \in Slots : objs'[o][s].temp \in Nat
  BY <1>1 DEF ObjectStates
<1>. QED
  BY <1>1, <1>2, <1>3 DEF Pending, Unsettled, Open, Committed

\* A step on one operation leaves the ledgers of the others.
LEMMA LedgerStep ==
    ASSUME Ledgers, NEW o \in Ops, \A q \in Ops \ {o} : ops'[q] = ops[q] /\ objs'[q] = objs[q],
           Ledger(o)'
    PROVE  Ledgers'
<1>1. ASSUME NEW q \in Ops \ {o} PROVE Ledger(q)'
  <2>1. Ledger(q) /\ ops'[q] = ops[q] /\ objs'[q] = objs[q]
    BY DEF Ledgers
  <2>. QED
    BY <2>1 DEF Ledger, CopyStands, Open, Committed, Unsettled, Planned, Present, Staged
<1>. QED
  BY <1>1 DEF Ledgers

LEMMA CopiesSame ==
    ASSUME IInv, IInv', NEW o \in Ops,
           \A q \in Ops \ {o} : ops'[q] = ops[q] /\ objs'[q] = objs[q],
           \A s \in Slots :
              \/ (Unsettled(o)' <=> Unsettled(o)) /\ objs'[o][s].temp = objs[o][s].temp
              \/ objs[o][s].temp = 0 /\ objs'[o][s].temp = 0
    PROVE  CopiedSum(ops', objs') = CopiedSum(ops, objs)
<1>1. ASSUME NEW q \in Ops, NEW s \in Slots
      PROVE  CopiedBy(ops', objs')[<<q, s>>] = CopiedBy(ops, objs)[<<q, s>>]
  <2>1. CASE q # o
    BY <2>1 DEF CopiedBy, Pairs
  <2>2. CASE q = o
    <3>1. (Pending(ops'[o]) <=> Unsettled(o)') /\ (Pending(ops[o]) <=> Unsettled(o))
      BY Rows, RowsNext
    <3>. QED
      BY <2>2, <3>1 DEF CopiedBy, Pairs
  <2>. QED
    BY <2>1, <2>2
<1>. QED
  BY <1>1, Rows, RowsNext, CopiedSame

LEMMA ReservedMoves ==
    ASSUME IInv, IInv', NEW o \in Ops, \A q \in Ops \ {o} : ops'[q] = ops[q],
           Unsettled(o) \/ ops[o].reserved = 0, Unsettled(o)' \/ ops'[o].reserved = 0
    PROVE  /\ ReservedSum(ops) \in Nat /\ ops[o].reserved \in Nat /\ ops'[o].reserved \in Nat
           /\ ReservedSum(ops') = ReservedSum(ops) - ops[o].reserved + ops'[o].reserved
<1>1. ReservedBy(ops)[o] = ops[o].reserved /\ ReservedBy(ops')[o] = ops'[o].reserved
  BY Rows, RowsNext DEF ReservedBy
<1>2. \A q \in Ops \ {o} : (Pending(ops'[q]) <=> Pending(ops[q])) /\ ops'[q].reserved = ops[q].reserved
  OBVIOUS
<1>. QED
  BY <1>1, <1>2, Rows, RowsNext, ReservedStep

\* A version begins to live.
LEMMA UsedBorn ==
    ASSUME NEW o \in Ids, versions[o].state # "live", versions'[o].state = "live",
           \A v \in Ids \ {o} : versions[v].state = "live" <=> versions'[v].state = "live"
    PROVE  UsedSum(versions) \in Nat /\ UsedSum(versions') = UsedSum(versions) + Bytes[o]
<1>1. UsedBy(versions)[o] = 0 /\ UsedBy(versions')[o] = Bytes[o] /\ Bytes[o] \in Nat
  BY Constants DEF UsedBy
<1>2. UsedSum(versions) \in Nat
  <2>1. \A v \in Ids : UsedBy(versions)[v] \in Nat
    BY Constants DEF UsedBy
  <2>. QED
    BY <2>1, Finiteness, TotalType DEF UsedSum
<1>3. UsedSum(versions') = UsedSum(versions) - UsedBy(versions)[o] + UsedBy(versions')[o]
  <2>1. PICK vs, ws : vs = versions /\ ws = versions'
    OBVIOUS
  <2>2. UsedSum(ws) = UsedSum(vs) - UsedBy(vs)[o] + UsedBy(ws)[o]
    BY <2>1, UsedStep
  <2>. QED
    BY <2>1, <2>2
<1>. QED
  BY <1>1, <1>2, <1>3

LEMMA QuietStep ==
    ASSUME IInv, IInv', Accounts, UNCHANGED <<usage, objs>>,
           \A v \in Ids : versions[v].state = "live" <=> versions'[v].state = "live",
           \A o \in Ops : /\ ops'[o].phase = ops[o].phase /\ ops'[o].kind = ops[o].kind
                          /\ ops'[o].reserved = ops[o].reserved
    PROVE  Accounts'
<1>1. ASSUME NEW o \in Ops PROVE Ledger(o)'
  <2>1. /\ Open(o)' <=> Open(o)
        /\ Unsettled(o)' <=> Unsettled(o)
        /\ Planned(o)' <=> Planned(o)
    BY DEF Open, Unsettled, Committed, Planned, Present
  <2>2. \A s \in Slots : CopyStands(o, s)' <=> CopyStands(o, s)
    BY DEF CopyStands, Present, Staged
  <2>3. Ledger(o) /\ ops'[o].phase = ops[o].phase
    BY DEF Accounts, Ledgers
  <2>. QED
    BY <2>1, <2>2, <2>3 DEF Ledger
<1>2. UsedSum(versions') = UsedSum(versions)
  BY UsedSame
<1>3. ReservedSum(ops') = ReservedSum(ops)
  <2>1. \A o \in Ops : ReservedBy(ops')[o] = ReservedBy(ops)[o]
    BY DEF ReservedBy, Pending
  <2>. QED
    BY <2>1, Rows, RowsNext, ReservedSame
<1>4. CopiedSum(ops', objs') = CopiedSum(ops, objs)
  <2>1. \A o \in Ops, s \in Slots : CopiedBy(ops', objs')[<<o, s>>] = CopiedBy(ops, objs)[<<o, s>>]
    BY DEF CopiedBy, Pairs, Pending
  <2>. QED
    BY <2>1, Rows, RowsNext, CopiedSame
<1>. QED
  BY <1>1, <1>2, <1>3, <1>4 DEF Accounts, Ledgers, Counted

\* Calls, moves of executors, leases, terms and references count nothing.
LEMMA QuietSteps ==
    ASSUME IInv, IInv', Accounts,
           \/ UNCHANGED vars
           \/ \E p \in Processes :
                \/ \E l \in Locations : IssueDrop(p, l)
                \/ Drop(p) \/ DropFails(p) \/ GiveUp(p) \/ Break(p) \/ Crash(p) \/ LoseLock(p)
                \/ Handoff(p)
           \/ \E o \in Ops :
                \/ Refuse(o) \/ Lapse(o) \/ Deadline(o) \/ Stall(o) \/ MakeFails(o) \/ Make(o)
                \/ \E s \in Slots : IssueMake(o, s)
           \/ \E w \in Workers :
                \/ Restore(w) \/ RestoreFails(w)
                \/ \E s \in Slots : IssueRestore(w, s)
                \/ \E o \in Ops : Claim(w, o)
           \/ \E v \in Ids : Refer(v) \/ Unrefer(v)
    PROVE  Accounts'
<1>1. UNCHANGED <<usage, objs, versions>>
  BY DEF vars, IssueDrop, Drop, DropFails, GiveUp, Break, Crash, LoseLock, Handoff, Refuse, Lapse,
         Deadline, Stall, MakeFails, Make, IssueMake, Restore, RestoreFails, IssueRestore, Claim,
         Refer, Unrefer
<1>2. \/ UNCHANGED ops
      \/ \E o : ops' \in {[ops EXCEPT ![o].live = FALSE], [ops EXCEPT ![o].due = TRUE],
                          [ops EXCEPT ![o].error = TRUE, ![o].live = FALSE]}
      \/ \E o, w : ops' = [ops EXCEPT ![o].token = w, ![o].live = TRUE]
  <2>1. ASSUME NEW p \in Processes, Handoff(p)
        PROVE  UNCHANGED ops \/ \E o : ops' = [ops EXCEPT ![o].error = TRUE, ![o].live = FALSE]
    BY <2>1 DEF Handoff
  <2>2. ASSUME NEW w \in Workers, NEW o \in Ops, Claim(w, o)
        PROVE  ops' = [ops EXCEPT ![o].token = w, ![o].live = TRUE]
    BY <2>2 DEF Claim
  <2>3. ASSUME NEW o \in Ops, Lapse(o) \/ Stall(o) \/ Deadline(o)
        PROVE  ops' \in {[ops EXCEPT ![o].live = FALSE], [ops EXCEPT ![o].due = TRUE]}
    BY <2>3 DEF Lapse, Stall, Deadline
  <2>4. ASSUME \/ UNCHANGED vars
               \/ \E p \in Processes :
                    \/ \E l \in Locations : IssueDrop(p, l)
                    \/ Drop(p) \/ DropFails(p) \/ GiveUp(p) \/ Break(p) \/ Crash(p) \/ LoseLock(p)
               \/ \E o \in Ops :
                    \/ Refuse(o) \/ MakeFails(o) \/ Make(o)
                    \/ \E s \in Slots : IssueMake(o, s)
               \/ \E w \in Workers :
                    \/ Restore(w) \/ RestoreFails(w)
                    \/ \E s \in Slots : IssueRestore(w, s)
               \/ \E v \in Ids : Refer(v) \/ Unrefer(v)
        PROVE  UNCHANGED ops
    BY <2>4 DEF vars, IssueDrop, Drop, DropFails, GiveUp, Break, Crash, LoseLock, Refuse,
         MakeFails, Make, IssueMake, Restore, RestoreFails, IssueRestore, Refer, Unrefer
  <2>. QED
    BY <2>1, <2>2, <2>3, <2>4
<1>3. ASSUME NEW o \in Ops
      PROVE  /\ ops'[o].phase = ops[o].phase /\ ops'[o].kind = ops[o].kind
             /\ ops'[o].reserved = ops[o].reserved
  <2>1. ops \in [Ops -> OpStates] /\ ops[o] \in OpStates
    BY Rows
  <2>2. CASE UNCHANGED ops
    BY <2>2
  <2>3. CASE \E q : ops' \in {[ops EXCEPT ![q].live = FALSE], [ops EXCEPT ![q].due = TRUE],
                              [ops EXCEPT ![q].error = TRUE, ![q].live = FALSE]}
    BY <2>1, <2>3 DEF OpStates
  <2>4. CASE \E q, w : ops' = [ops EXCEPT ![q].token = w, ![q].live = TRUE]
    BY <2>1, <2>4 DEF OpStates
  <2>. QED
    BY <1>2, <2>2, <2>3, <2>4
<1>. QED
  BY <1>1, <1>3, QuietStep

-----------------------------------------------------------------------------
(* Operations begin and are planned *)

LEMMA CountedIs ==
    ASSUME Counted
    PROVE  /\ usage \in [used : Int, reserved : Int, transient : Int]
           /\ usage.used = UsedSum(versions) /\ usage.reserved = ReservedSum(ops)
           /\ usage.transient = CopiedSum(ops, objs)
           /\ usage.used + usage.reserved =< Quota
<1>. QED
  BY DEF Counted

\* One transient copy comes or goes.
LEMMA CopyMoves ==
    ASSUME IInv, IInv', NEW o \in Ops, NEW s \in Slots, Unsettled(o), UNCHANGED ops,
           \A q \in Ops \ {o} : objs'[q] = objs[q],
           \A t \in Slots \ {s} : objs'[o][t] = objs[o][t]
    PROVE  /\ CopiedSum(ops, objs) \in Nat
           /\ objs[o][s].temp \in Nat /\ objs'[o][s].temp \in Nat
           /\ CopiedSum(ops', objs') = CopiedSum(ops, objs) - objs[o][s].temp + objs'[o][s].temp
<1>1. PICK g, h : g = CopiedBy(ops, objs) /\ h = CopiedBy(ops', objs')
  OBVIOUS
<1>2. PICK y \in Pairs : y = <<o, s>>
  BY DEF Pairs
<1>3. g[y] = objs[o][s].temp /\ h[y] = objs'[o][s].temp
  BY <1>1, <1>2, Rows, RowsNext DEF CopiedBy
<1>4. \A x \in Pairs : g[x] \in Nat /\ h[x] \in Nat
  <2>1. \A x \in Pairs : g[x] \in Nat
    BY <1>1, Rows, Weighed
  <2>2. \A x \in Pairs : h[x] \in Nat
    BY <1>1, RowsNext, Weighed
  <2>. QED
    BY <2>1, <2>2
<1>5. ASSUME NEW q \in Ops, NEW t \in Slots, <<q, t>> # y PROVE g[<<q, t>>] = h[<<q, t>>]
  <2>1. CASE q = o
    <3>1. t # s
      BY <1>2, <1>5, <2>1
    <3>. QED
      BY <1>1, <2>1, <3>1 DEF CopiedBy, Pairs
  <2>2. CASE q # o
    BY <1>1, <2>2 DEF CopiedBy, Pairs
  <2>. QED
    BY <2>1, <2>2
<1>6. \A x \in Pairs \ {y} : g[x] = h[x]
  BY <1>5 DEF Pairs
<1>7. /\ Total(g, Pairs) \in Nat /\ Total(h, Pairs) \in Nat
      /\ Total(h, Pairs) = Total(g, Pairs) - g[y] + h[y]
  BY <1>4, <1>6, Finiteness, TotalChanged
<1>. QED
  BY <1>1, <1>3, <1>7, Rows, RowsNext DEF CopiedSum

\* An operation begins, or a plan is made, without a transient copy.
LEMMA NoCopyStep ==
    ASSUME IInv, IInv', Accounts, NEW o \in Ops, UNCHANGED versions, Unsettled(o)',
           \A q \in Ops \ {o} : ops'[q] = ops[q] /\ objs'[q] = objs[q],
           \A s \in Slots : ~Present(o, s),
           ops[o].phase = "none" \/ Unsettled(o),
           \A s \in Slots : objs'[o][s] = objs[o][s] \/ \E v, from, to : objs'[o][s] = Object(v, from, to),
           usage' \in [used : Int, reserved : Int, transient : Int],
           usage'.used = usage.used, usage'.transient = usage.transient,
           usage'.reserved = usage.reserved + ops'[o].reserved,
           ops[o].reserved = 0, usage'.used + usage'.reserved =< Quota,
           Open(o)', ops'[o].reserved =
              IF ops'[o].kind \in {"upload", "overwrite"} /\ Planned(o)' THEN Bytes[o] ELSE 0
    PROVE  Accounts'
<1>. USE DEF Accounts
<1>1. \A s \in Slots : objs[o][s].temp = 0
  BY DEF Ledgers, Ledger, CopyStands
<1>2. \A s \in Slots : objs'[o][s].temp = 0
  BY <1>1 DEF Object, NoObject
<1>3. Ledger(o)'
  BY <1>2 DEF Ledger, CopyStands
<1>4. CopiedSum(ops', objs') = CopiedSum(ops, objs)
  BY <1>1, <1>2, CopiesSame
<1>5. ReservedSum(ops') = ReservedSum(ops) + ops'[o].reserved
  BY ReservedMoves
<1>6. UsedSum(versions') = UsedSum(versions)
  BY UsedSame
<1>7. Counted'
  BY <1>4, <1>5, <1>6, CountedIs DEF Counted
<1>. QED
  BY <1>3, <1>7, LedgerStep

LEMMA BeginsCount ==
    ASSUME IInv, IInv', Accounts, NEW o \in Ops,
           \/ \E kind, f, path, rev : Admit(o, kind, f, path, rev)
           \/ \E w \in Workers : \E kind \in SystemKinds : \E f : \E doomed \in SUBSET Ids :
                 Enlist(w, o, kind, f, doomed)
    PROVE  Accounts'
<1>. USE Constants
<1>1. ops[o].phase = "none" /\ UNCHANGED <<versions, usage>>
  BY DEF Admit, Enlist
<1>2. (\A s \in Slots : ~Present(o, s)) /\ ops[o].reserved = 0
  BY <1>1 DEF IInv, PlansFollow, Accounts, Ledgers, Ledger, Open
<1>3. /\ \A q \in Ops \ {o} : ops'[q] = ops[q] /\ objs'[q] = objs[q]
      /\ \A s \in Slots : objs'[o][s] = objs[o][s] \/ \E v, from, to : objs'[o][s] = Object(v, from, to)
      /\ ops'[o].phase = "open" /\ ops'[o].reserved = 0
      /\ ops'[o].kind \in SystemKinds \/ objs' = objs
  <2>1. CASE \E kind, f, path, rev : Admit(o, kind, f, path, rev)
    <3>4. PICK kind, f, path, rev : Admit(o, kind, f, path, rev)
      BY <2>1
    <3>1. ops' = [ops EXCEPT ![o] = [NoOp EXCEPT !.phase = "open", !.kind = kind, !.file = f,
                    !.path = path, !.rev = rev, !.token = o, !.live = TRUE]]
      BY <3>4 DEF Admit
    <3>2. ops'[o].phase = "open" /\ ops'[o].reserved = 0
      BY <3>1 DEF NoOp, IInv, RowsOK
    <3>3. UNCHANGED objs
      BY <2>1 DEF Admit
    <3>. QED
      BY <3>1, <3>2, <3>3
  <2>2. CASE \E w \in Workers : \E kind \in SystemKinds : \E f : \E doomed \in SUBSET Ids :
                Enlist(w, o, kind, f, doomed)
    <3>4. PICK w \in Workers : \E kind \in SystemKinds : \E f : \E doomed \in SUBSET Ids :
             Enlist(w, o, kind, f, doomed)
      BY <2>2
    <3>5. PICK kind \in SystemKinds : \E f : \E doomed \in SUBSET Ids : Enlist(w, o, kind, f, doomed)
      BY <3>4
    <3>1. PICK f : \E doomed \in SUBSET Ids : Enlist(w, o, kind, f, doomed)
      BY <3>5
    <3>6. PICK doomed \in SUBSET Ids : Enlist(w, o, kind, f, doomed)
      BY <3>1
    <3>2. /\ ops' = [ops EXCEPT ![o] = [NoOp EXCEPT !.phase = "open", !.kind = kind, !.file = f,
                        !.token = w, !.live = TRUE, !.due = TRUE]]
          /\ objs' = [objs EXCEPT ![o] = [s \in Slots |->
                        IF s \in doomed THEN Object(s, versions[s].loc, None) ELSE objs[o][s]]]
      BY <3>6 DEF Enlist
    <3>3. ops'[o].phase = "open" /\ ops'[o].reserved = 0 /\ ops'[o].kind = kind
      BY <3>2 DEF NoOp, IInv, RowsOK
    <3>. QED
      BY <3>2, <3>3 DEF IInv, RowsOK
  <2>. QED
    BY <2>1, <2>2
<1>4. ops'[o].kind \in {"upload", "overwrite"} => ~Planned(o)'
  <2>1. ops'[o].kind \in SystemKinds => ops'[o].kind \notin {"upload", "overwrite"}
    BY DEF SystemKinds
  <2>2. objs' = objs => ~Planned(o)'
    BY <1>2 DEF Planned, Present
  <2>. QED
    BY <1>3, <2>1, <2>2
<1>5. Open(o)' /\ Unsettled(o)'
  BY <1>3 DEF Open, Unsettled
<1>6. /\ usage' \in [used : Int, reserved : Int, transient : Int]
      /\ usage'.reserved = usage.reserved + ops'[o].reserved
      /\ usage'.used + usage'.reserved =< Quota
  BY <1>1, <1>3 DEF Accounts, Counted
<1>. QED
  BY <1>1, <1>2, <1>3, <1>4, <1>5, <1>6, NoCopyStep

LEMMA PrepareCounts ==
    ASSUME IInv, IInv', HoldersWork, Book, CallsFit, Accounts, NEW o \in Ops, Prepare(o)
    PROVE  Accounts'
<1>. USE Constants
<1>1. /\ Open(o) /\ Unsettled(o) /\ \A s \in Slots : ~Present(o, s)
      /\ UNCHANGED versions
      /\ PrepareUpload(o) \/ PrepareOverwrite(o) \/ PrepareRelocation(o)
  BY BeforePlan DEF Prepare, Working
<1>2. ops[o].reserved = 0
  BY <1>1 DEF Accounts, Ledgers, Ledger, Planned
<1>3. CASE PrepareUpload(o) \/ PrepareOverwrite(o)
  <2>1. Reserve(o) /\ Fits(o) /\ ops[o].kind \in {"upload", "overwrite"}
    BY <1>3 DEF PrepareUpload, PrepareOverwrite, CanUpload, CanOverwrite
  <2>2. /\ ops' = [ops EXCEPT ![o].reserved = Bytes[o]]
        /\ usage' = [usage EXCEPT !.reserved = @ + Bytes[o]]
    BY <2>1 DEF Reserve
  <2>3. ops[o] \in OpStates /\ ops \in [Ops -> OpStates]
    BY Rows
  <2>4. /\ \A q \in Ops \ {o} : ops'[q] = ops[q]
        /\ ops'[o].phase = ops[o].phase /\ ops'[o].kind = ops[o].kind
        /\ ops'[o].reserved = Bytes[o]
    BY <2>2, <2>3 DEF OpStates
  <2>5. Open(o)' /\ Unsettled(o)'
    BY <1>1, <2>4 DEF Open, Unsettled
  <2>6. Planned(o)'
    BY <1>3, PreparedRows DEF Planned
  <2>7. /\ usage' \in [used : Int, reserved : Int, transient : Int]
        /\ usage'.used = usage.used /\ usage'.transient = usage.transient
        /\ usage'.reserved = usage.reserved + Bytes[o]
        /\ usage'.used + usage'.reserved =< Quota
    BY <2>1, <2>2, CountedIs DEF Accounts, Fits
  <2>. QED
    BY <1>1, <1>2, <2>1, <2>4, <2>5, <2>6, <2>7, PreparedRows, NoCopyStep
<1>4. CASE PrepareRelocation(o)
  <2>1. UNCHANGED <<usage, ops>> /\ ops[o].kind \notin {"upload", "overwrite"}
    BY <1>4 DEF PrepareRelocation, CanRelocate
  <2>2. Open(o)' /\ Unsettled(o)'
    BY <1>1, <2>1 DEF Open, Unsettled
  <2>3. /\ usage' \in [used : Int, reserved : Int, transient : Int]
        /\ usage'.reserved = usage.reserved + ops'[o].reserved
        /\ usage'.used + usage'.reserved =< Quota
    BY <1>2, <2>1, CountedIs DEF Accounts
  <2>. QED
    BY <1>1, <1>2, <2>1, <2>2, <2>3, PreparedRows, NoCopyStep
<1>. QED
  BY <1>1, <1>3, <1>4

-----------------------------------------------------------------------------
(* Executors record what calls did *)

\* An executor records what a call did.
LEMMA FlagsCount ==
    ASSUME IInv, IInv', Accounts, NEW o \in Ops, UNCHANGED <<versions, ops>>, Unsettled(o),
           \A q \in Ops \ {o} : objs'[q] = objs[q], Planned(o)' <=> Planned(o),
           \A s \in Slots : CopyStands(o, s)',
           usage' \in [used : Int, reserved : Int, transient : Int],
           usage'.used = usage.used, usage'.reserved = usage.reserved,
           usage'.transient = CopiedSum(ops', objs')
    PROVE  Accounts'
<1>. USE DEF Accounts
<1>1. Open(o)' <=> Open(o)
  BY DEF Open
<1>2. Ledger(o)'
  BY <1>1 DEF Ledgers, Ledger
<1>3. Counted'
  BY CountedIs DEF Counted
<1>. QED
  BY <1>2, <1>3, LedgerStep

\* An object that a step leaves alone accounts for its copy as before.
LEMMA CopyKept ==
    ASSUME Accounts, NEW o \in Ops, NEW s \in Slots, Unsettled(o), UNCHANGED ops, objs'[o][s] = objs[o][s]
    PROVE  CopyStands(o, s) /\ CopyStands(o, s)'
<1>1. CopyStands(o, s)
  BY DEF Accounts, Ledgers, Ledger
<1>. QED
  BY <1>1 DEF CopyStands, Present, Staged

\* What a request makes is there to be deleted, and its source is not gone.
LEMMA TargetStands ==
    ASSUME IInv, Book, NEW o \in Ops, Open(o), NEW s \in Slots, Present(o, s), objs[o][s].dst # None,
           s # "replacement", ~objs[o][s].prepared
    PROVE  Staged(o, s) \/ (objs[o][s].src # None /\ ~objs[o][s].srcGone) \/ ops[o].kind = "upload"
<1>. USE Constants, AddressesApart
<1>1. Unsettled(o)
  BY DEF Unsettled
<1>2. CASE Purging(o)
  BY <1>1, <1>2, ShapeOf DEF PurgeShaped
<1>3. CASE ops[o].kind \in {"move", "trash", "restore"}
  BY <1>1, <1>3, ShapeOf DEF RelocationShaped
<1>4. CASE ops[o].kind = "overwrite"
  <2>1. OverwriteShaped(o) /\ ops[o].file \in Ids
    BY <1>1, <1>4, ShapeOf
  <2>2. CASE s = "staging"
    BY <2>1, <2>2 DEF OverwriteShaped, StagingShaped, Staged
  <2>3. CASE s \in Ids
    <3>1. ArchiveShaped(o, s)
      BY <2>1, <2>3 DEF OverwriteShaped
    <3>2. entries[ops[o].file].path \in Paths
      BY <2>1, <3>1 DEF ArchiveShaped, IInv, EntriesFilled
    <3>. QED
      BY <3>1, <3>2 DEF ArchiveShaped
  <2>. QED
    BY <2>2, <2>3 DEF Slots
<1>. QED
  BY <1>1, <1>2, <1>3, <1>4, ShapeOf

LEMMA RecordMadeCounts ==
    ASSUME IInv, IInv', HoldersWork, Book, CallsFit, Tidy, Accounts, NEW o \in Ops, RecordMade(o)
    PROVE  Accounts'
<1>. USE Constants
<1>1. PICK s : s = proc[o].slot
  OBVIOUS
<1>2. /\ proc[o].at = "made" /\ Holds(o) /\ Open(o) /\ Working(o) /\ UNCHANGED <<versions, ops>>
      /\ objs' = [objs EXCEPT ![o][s].prepared = TRUE, ![o][s].temp = Transient(o, s)]
      /\ usage' = [usage EXCEPT !.transient = @ + Transient(o, s)]
  BY <1>1 DEF RecordMade, Working
<1>3. proc[o].op = o /\ Unsettled(o) /\ CallFits(o) /\ ops[o].token = o
  BY <1>2, HoldsAlone DEF CallsFit
<1>4. s \in Slots /\ Present(o, s) /\ objs[o][s].dst # None /\ ~objs[o][s].prepared
  BY <1>1, <1>2, <1>3 DEF CallFits, MakeFits, IInv, ExecutorsPlaced, PlacedAs
<1>5. ~objs[o][s].restored /\ ~objs[o][s].dstGone
  BY <1>2, <1>3, <1>4 DEF Book, RequestFirst, Tidy, TargetsFirst
<1>6. PICK x \in ObjectStates : x = objs[o][s]
  BY <1>4, Rows
<1>7. /\ \A q \in Ops \ {o} : objs'[q] = objs[q]
      /\ objs'[o][s] = [x EXCEPT !.prepared = TRUE, !.temp = Transient(o, s)]
      /\ \A t \in Slots \ {s} : objs'[o][t] = objs[o][t]
  <2>1. objs' = [objs EXCEPT ![o] = [objs[o] EXCEPT ![s] =
                    [x EXCEPT !.prepared = TRUE, !.temp = Transient(o, s)]]]
    BY <1>2, <1>4, <1>6 DEF ObjectStates, IInv, RowsOK
  <2>. QED
    BY <1>4, <2>1, ObjectEdit
<1>8. LET y == objs'[o][s]
      IN  /\ y.ver = x.ver /\ y.src = x.src /\ y.dst = x.dst /\ y.prepared /\ y.temp = Transient(o, s)
          /\ y.srcGone <=> x.srcGone
          /\ y.dstGone <=> x.dstGone
  BY <1>7 DEF ObjectStates
<1>9. ASSUME Transient(o, s) # 0
      PROVE  s # "replacement" /\ ops[o].kind # "upload"
  BY <1>9 DEF Transient
<1>10. CopyStands(o, s)'
  <2>1. SUFFICES ASSUME Transient(o, s) # 0 PROVE CopyStands(o, s)'
    BY <1>8 DEF CopyStands
  <2>2. Staged(o, s) \/ (x.src # None /\ ~x.srcGone)
    BY <1>2, <1>4, <1>6, <1>9, <2>1, TargetStands
  <2>. QED
    BY <1>2, <1>4, <1>5, <1>6, <1>8, <1>9, <2>1, <2>2 DEF CopyStands, Present, Staged
<1>11. \A t \in Slots : CopyStands(o, t)'
  BY <1>2, <1>3, <1>7, <1>10, CopyKept
<1>12. objs[o][s].temp = 0
  BY <1>2, <1>3, <1>4, <1>5, Rows DEF Accounts, Ledgers, Ledger, CopyStands
<1>13. usage'.transient = CopiedSum(ops', objs')
  <2>0. /\ CopiedSum(ops, objs) \in Nat
        /\ objs[o][s].temp \in Nat /\ objs'[o][s].temp \in Nat
        /\ CopiedSum(ops', objs') = CopiedSum(ops, objs) - objs[o][s].temp + objs'[o][s].temp
    BY <1>2, <1>3, <1>4, <1>7, CopyMoves
  <2>1. /\ CopiedSum(ops, objs) \in Nat /\ Transient(o, s) \in Nat
        /\ CopiedSum(ops', objs') = CopiedSum(ops, objs) - 0 + Transient(o, s)
    BY <1>8, <1>12, <2>0
  <2>2. /\ usage.transient = CopiedSum(ops, objs)
        /\ usage'.transient = usage.transient + Transient(o, s)
    BY <1>2, CountedIs DEF Accounts
  <2>. QED
    BY <2>1, <2>2
<1>14. Planned(o)' <=> Planned(o)
  BY <1>4, <1>6, <1>7, <1>8 DEF Planned, Present
<1>15. /\ usage' \in [used : Int, reserved : Int, transient : Int]
       /\ usage'.used = usage.used /\ usage'.reserved = usage.reserved
  <2>1. Transient(o, s) \in Nat
    BY <1>4, <1>8, RowsNext
  <2>. QED
    BY <1>2, <2>1, CountedIs DEF Accounts
<1>. QED
  BY <1>2, <1>3, <1>7, <1>11, <1>13, <1>14, <1>15, FlagsCount

LEMMA RecordRestoredCounts ==
    ASSUME IInv, IInv', HoldersWork, Book, CallsFit, Tidy, Accounts, NEW w \in Workers, RecordRestored(w)
    PROVE  Accounts'
<1>. USE Constants
<1>1. PICK o \in Ops : o = proc[w].op
  BY DEF RecordRestored, IInv, ExecutorsPlaced, PlacedAs
<1>2. PICK s : s = proc[w].slot
  OBVIOUS
<1>3. PICK temp : temp = IF objs[o][s].dstGone THEN 0 ELSE Bytes[objs[o][s].ver]
  OBVIOUS
<1>4. /\ proc[w].at = "restored" /\ Holds(w) /\ Open(o) /\ Working(w) /\ UNCHANGED <<versions, ops>>
      /\ objs' = [objs EXCEPT ![o][s].restored = TRUE, ![o][s].temp = temp]
      /\ usage' = [usage EXCEPT !.transient = @ + temp - objs[o][s].temp]
  BY <1>1, <1>2, <1>3 DEF RecordRestored, Working
<1>5. Unsettled(o) /\ CallFits(w)
  BY <1>1, <1>4, HoldsAlone DEF CallsFit
<1>6. s \in Slots /\ objs[o][s].started
  BY <1>1, <1>2, <1>4, <1>5 DEF CallFits, RestoreFits, IInv, ExecutorsPlaced, PlacedAs
<1>7. /\ Present(o, s) /\ objs[o][s].src # None /\ objs[o][s].dst # None
      /\ ops[o].kind # "upload"
  BY <1>5, <1>6, StartedShape, AddressesApart
<1>8. PICK x \in ObjectStates : x = objs[o][s]
  BY <1>6, Rows
<1>9. /\ \A q \in Ops \ {o} : objs'[q] = objs[q]
      /\ objs'[o][s] = [x EXCEPT !.restored = TRUE, !.temp = temp]
      /\ \A t \in Slots \ {s} : objs'[o][t] = objs[o][t]
  <2>1. objs' = [objs EXCEPT ![o] = [objs[o] EXCEPT ![s] =
                    [objs[o][s] EXCEPT !.restored = TRUE, !.temp = temp]]]
    <3>1. /\ objs \in [Ops -> [Slots -> ObjectStates]] /\ objs[o] \in [Slots -> ObjectStates]
          /\ objs[o][s] \in ObjectStates
      BY <1>6, Rows
    <3>2. objs' = [objs EXCEPT ![o][s].restored = TRUE, ![o][s].temp = temp]
      BY <1>4
    <3>. QED
      BY <1>6, <3>1, <3>2
  <2>2. /\ \A q \in Ops \ {o} : objs'[q] = objs[q]
        /\ objs'[o][s] = [objs[o][s] EXCEPT !.restored = TRUE, !.temp = temp]
        /\ \A t \in Slots \ {s} : objs'[o][t] = objs[o][t]
    BY <1>6, <2>1, ObjectEdit
  <2>. QED
    BY <1>8, <2>2
<1>10. LET y == objs'[o][s]
       IN  /\ y.ver = x.ver /\ y.src = x.src /\ y.dst = x.dst /\ y.restored /\ y.temp = temp
           /\ y.started <=> x.started
           /\ y.dstGone <=> x.dstGone
  BY <1>9 DEF ObjectStates
<1>11. CopyStands(o, s)'
  <2>1. temp # 0 => ~x.dstGone
    BY <1>3, <1>8
  <2>. QED
    BY <1>4, <1>6, <1>7, <1>8, <1>10, <2>1 DEF CopyStands, Present
<1>12. \A t \in Slots : CopyStands(o, t)'
  BY <1>4, <1>5, <1>9, <1>11, CopyKept
<1>13. temp \in Nat /\ x.temp \in Nat
  BY <1>6, <1>8, <1>10, Rows, RowsNext
<1>14. usage'.transient = CopiedSum(ops', objs')
  <2>0. /\ CopiedSum(ops, objs) \in Nat
        /\ objs[o][s].temp \in Nat /\ objs'[o][s].temp \in Nat
        /\ CopiedSum(ops', objs') = CopiedSum(ops, objs) - objs[o][s].temp + objs'[o][s].temp
    BY <1>4, <1>5, <1>6, <1>9, CopyMoves
  <2>1. /\ CopiedSum(ops, objs) \in Nat
        /\ CopiedSum(ops', objs') = CopiedSum(ops, objs) - x.temp + temp
    BY <1>8, <1>10, <2>0
  <2>2. /\ usage.transient = CopiedSum(ops, objs)
        /\ usage'.transient = usage.transient + temp - x.temp
    BY <1>4, <1>8, CountedIs DEF Accounts
  <2>. QED
    BY <1>13, <2>1, <2>2
<1>15. Planned(o)' <=> Planned(o)
  <2>1. \A t \in Slots : objs'[o][t].ver = objs[o][t].ver
    BY <1>8, <1>9, <1>10
  <2>. QED
    BY <2>1 DEF Planned, Present
<1>16. /\ usage' \in [used : Int, reserved : Int, transient : Int]
       /\ usage'.used = usage.used /\ usage'.reserved = usage.reserved
  BY <1>4, <1>8, <1>13, CountedIs DEF Accounts
<1>. QED
  BY <1>4, <1>5, <1>9, <1>12, <1>14, <1>15, <1>16, FlagsCount

LEMMA RecordDropCounts ==
    ASSUME IInv, IInv', HoldersWork, Accounts, NEW p \in Processes, RecordDrop(p)
    PROVE  Accounts'
<1>. USE Constants
<1>1. PICK o \in Ops : o = proc[p].op
  BY DEF RecordDrop, IInv, ExecutorsPlaced, PlacedAs
<1>2. PICK D \in SUBSET Confirmed(p) : RecordDeleted(o, D)
  BY <1>1 DEF RecordDrop
<1>3. PICK K : K = {d[1] : d \in D}
  OBVIOUS
<1>4. PICK h : h = [s \in Slots |-> objs[o][s].temp]
  OBVIOUS
<1>5. /\ objs' = [objs EXCEPT ![o] = [s \in Slots |-> Deleted(objs[o][s], s, D)]]
      /\ usage' = [usage EXCEPT !.transient = @ - Total(h, K)]
  BY <1>2, <1>3, <1>4 DEF RecordDeleted, Total
<1>6. Unsettled(o) /\ UNCHANGED <<versions, ops>>
  BY <1>1, HoldsAlone DEF RecordDrop, Working
<1>7. K \in SUBSET Slots /\ IsFiniteSet(K)
  <2>1. ASSUME NEW d \in Confirmed(p) PROVE d[1] \in Slots
    BY <1>1, SMTT(30) DEF Confirmed, PendingSource, PendingTarget
  <2>2. K \subseteq Slots
    BY <1>3, <2>1
  <2>. QED
    BY <2>2, Finiteness, FS_Subset
<1>8. \A q \in Ops \ {o} : objs'[q] = objs[q]
  BY <1>5
<1>9. ASSUME NEW s \in Slots
      PROVE  LET x == objs[o][s]
                 y == objs'[o][s]
             IN  /\ y.ver = x.ver /\ y.src = x.src /\ y.dst = x.dst
                 /\ y.prepared = x.prepared /\ y.started = x.started /\ y.restored = x.restored
                 /\ s \notin K => y.temp = x.temp /\ (y.srcGone <=> x.srcGone) /\ (y.dstGone <=> x.dstGone)
                 /\ s \in K => y.temp = 0
  <2>1. PICK x \in ObjectStates : x = objs[o][s]
    BY Rows
  <2>2. objs'[o][s] = Deleted(x, s, D)
    BY <1>5, <2>1, Rows
  <2>3. s \notin K => <<s, "source">> \notin D /\ <<s, "target">> \notin D
    BY <1>3
  <2>4. Deleted(x, s, D) = [x EXCEPT !.srcGone = @ \/ <<s, "source">> \in D,
                                     !.dstGone = @ \/ <<s, "target">> \in D,
                                     !.temp = IF s \in K THEN 0 ELSE @]
    BY <1>3 DEF Deleted
  <2>. QED
    BY <2>1, <2>2, <2>3, <2>4 DEF ObjectStates
<1>10. ASSUME NEW s \in Slots PROVE CopyStands(o, s)'
  <2>1. CASE s \in K
    BY <1>9, <2>1 DEF CopyStands
  <2>2. CASE s \notin K
    <3>1. CopyStands(o, s)
      BY <1>6 DEF Accounts, Ledgers, Ledger
    <3>. QED
      BY <1>6, <1>9, <2>2, <3>1 DEF CopyStands, Present, Staged
  <2>. QED
    BY <2>1, <2>2
<1>11. Planned(o)' <=> Planned(o)
  <2>1. \A s \in Slots : objs'[o][s].ver = objs[o][s].ver
    BY <1>9
  <2>. QED
    BY <2>1 DEF Planned, Present
<1>12. usage'.transient = CopiedSum(ops', objs') /\ Total(h, K) \in Nat
  <2>1. PICK C \in SUBSET Pairs : C = Column(o, K) /\ IsFiniteSet(C)
    <3>1. Column(o, K) \in SUBSET Pairs
      BY <1>7 DEF Pairs, Column
    <3>. QED
      BY <3>1, Finiteness, FS_Subset
  <2>2. PICK g, k : g = CopiedBy(ops, objs) /\ k = CopiedBy(ops', objs')
    OBVIOUS
  <2>3. ASSUME NEW s \in Slots
        PROVE  /\ g[<<o, s>>] = objs[o][s].temp /\ k[<<o, s>>] = objs'[o][s].temp
               /\ h[s] = objs[o][s].temp /\ h[s] \in Nat
    BY <1>4, <1>6, <2>2, Rows, RowsNext DEF CopiedBy, Pairs
  <2>4. Total(g, C) = Total(h, K)
    <3>1. \A s \in K : g[<<o, s>>] = h[s]
      BY <1>7, <2>3
    <3>2. \A s \in K : h[s] \in Nat
      BY <1>7, <2>3
    <3>. QED
      <4>1. Total(g, Column(o, K)) = Total(h, K)
        BY <1>7, <3>1, <3>2, TotalColumn
      <4>. QED
        BY <2>1, <4>1
  <2>5. Total(k, C) = 0
    <3>1. \A x \in C : k[x] = 0
      BY <1>7, <1>9, <2>1, <2>3 DEF Column
    <3>. QED
      BY <2>1, <3>1, TotalZero
  <2>6. \A x \in Pairs \ C : g[x] = k[x]
    <3>1. ASSUME NEW q \in Ops, NEW s \in Slots, <<q, s>> \notin C PROVE g[<<q, s>>] = k[<<q, s>>]
      <4>1. CASE q = o
        BY <1>9, <2>1, <2>3, <3>1, <4>1 DEF Column
      <4>2. CASE q # o
        BY <1>6, <1>8, <2>2, <4>2 DEF CopiedBy, Pairs
      <4>. QED
        BY <4>1, <4>2
    <3>. QED
      BY <3>1 DEF Pairs
  <2>7. /\ Total(g, Pairs) = Total(g, C) + Total(g, Pairs \ C)
        /\ Total(g, Pairs) \in Nat /\ Total(g, C) \in Nat /\ Total(g, Pairs \ C) \in Nat
    <3>1. \A x \in Pairs : g[x] \in Nat
      BY <2>2, Rows, Weighed
    <3>. QED
      BY <3>1, Finiteness, TotalSplit, Zenon
  <2>9. /\ Total(k, Pairs) = Total(k, C) + Total(k, Pairs \ C)
        /\ Total(k, Pairs) \in Nat /\ Total(k, C) \in Nat /\ Total(k, Pairs \ C) \in Nat
    <3>1. \A x \in Pairs : k[x] \in Nat
      BY <2>2, RowsNext, Weighed
    <3>. QED
      BY <3>1, Finiteness, TotalSplit, Zenon
  <2>10. Total(g, Pairs \ C) = Total(k, Pairs \ C)
    BY <2>6, Finiteness, FS_Subset, TotalSame
  <2>8. usage.transient = CopiedSum(ops, objs) /\ usage'.transient = usage.transient - Total(h, K)
    BY <1>5, CountedIs DEF Accounts
  <2>. QED
    BY <2>2, <2>4, <2>5, <2>7, <2>8, <2>9, <2>10 DEF CopiedSum
<1>13. /\ usage' \in [used : Int, reserved : Int, transient : Int]
       /\ usage'.used = usage.used /\ usage'.reserved = usage.reserved
  BY <1>5, <1>12, CountedIs DEF Accounts
<1>. QED
  BY <1>6, <1>8, <1>10, <1>11, <1>12, <1>13, FlagsCount

LEMMA IntendCounts ==
    ASSUME IInv, IInv', HoldersWork, Book, Accounts, NEW o \in Ops, Intend(o)
    PROVE  Accounts'
<1>. USE Constants
<1>1. /\ Open(o) /\ Unsettled(o) /\ ops[o].kind = "overwrite"
      /\ UNCHANGED <<versions, ops, usage>>
  BY DEF Intend, Unsettled
<1>2. PICK f \in Ids, old \in Ids : f = ops[o].file /\ old = entries[f].current
  BY <1>1 DEF IInv, EntriesFilled, PlansFollow, Unsettled, Open, Committed, Intend
<1>3. PICK x \in ObjectStates : x = objs[o][old] /\ x.prepared /\ ~x.started
  BY <1>2, Rows DEF Intend
<1>4. objs' = [objs EXCEPT ![o][old].started = TRUE, ![o]["replacement"] = Object(o, InStaging(o), x.src)]
  BY <1>2, <1>3 DEF Intend
<1>5. /\ \A q \in Ops \ {o} : objs'[q] = objs[q]
      /\ objs'[o]["replacement"] = Object(o, InStaging(o), x.src)
      /\ objs'[o][old] = [x EXCEPT !.started = TRUE]
      /\ \A t \in Slots \ {old, "replacement"} : objs'[o][t] = objs[o][t]
  <2>. DEFINE row == [[objs[o] EXCEPT ![old] = [x EXCEPT !.started = TRUE]] EXCEPT
                         !["replacement"] = Object(o, InStaging(o), x.src)]
  <2>1. objs' = [objs EXCEPT ![o] = row]
    BY <1>3, <1>4, Rows
  <2>2. /\ row["replacement"] = Object(o, InStaging(o), x.src) /\ row[old] = [x EXCEPT !.started = TRUE]
        /\ \A t \in Slots \ {old, "replacement"} : row[t] = objs[o][t]
    BY Rows
  <2>. HIDE DEF row
  <2>. QED
    BY <2>1, <2>2, Rows
<1>6. Present(o, old) /\ ~Present(o, "replacement") /\ old # "replacement"
  <2>1. Present(o, old)
    BY <1>3 DEF IInv, PlansFollow, Blank
  <2>. QED
    BY <1>1, <1>3, <2>1, ShapeOf DEF OverwriteShaped, ReplacementShaped
<1>7. LET y == objs'[o][old]
      IN  /\ y.ver = x.ver /\ y.src = x.src /\ y.dst = x.dst /\ y.temp = x.temp
          /\ y.srcGone = x.srcGone /\ y.dstGone = x.dstGone /\ y.prepared /\ y.started
  BY <1>3, <1>5 DEF ObjectStates
<1>8. \A s \in Slots : CopyStands(o, s)
  BY <1>1 DEF Accounts, Ledgers, Ledger
<1>9. objs[o]["replacement"].temp = 0 /\ objs'[o]["replacement"].temp = 0
  BY <1>5, <1>6, <1>8 DEF CopyStands, Object, NoObject
<1>10. CopyStands(o, old)'
  BY <1>1, <1>3, <1>7, <1>8 DEF CopyStands, Present, Staged
<1>11. ASSUME NEW s \in Slots PROVE CopyStands(o, s)'
  <2>1. CASE s = "replacement"
    BY <1>9, <2>1 DEF CopyStands
  <2>2. CASE s \notin {old, "replacement"}
    BY <1>1, <1>5, <2>2, CopyKept
  <2>. QED
    BY <1>10, <2>1, <2>2
<1>12. CopiedSum(ops', objs') = CopiedSum(ops, objs)
  <2>1. \A s \in Slots : objs'[o][s].temp = objs[o][s].temp
    BY <1>3, <1>5, <1>7, <1>9
  <2>2. Unsettled(o)' <=> Unsettled(o)
    BY <1>1 DEF Unsettled, Open, Committed
  <2>. QED
    BY <1>1, <1>5, <2>1, <2>2, CopiesSame
<1>13. Planned(o) /\ Planned(o)'
  BY <1>3, <1>6, <1>7 DEF Planned, Present
<1>14. /\ usage' \in [used : Int, reserved : Int, transient : Int]
       /\ usage'.transient = CopiedSum(ops', objs')
  BY <1>1, <1>12, CountedIs DEF Accounts
<1>. QED
  BY <1>1, <1>5, <1>11, <1>13, <1>14, FlagsCount

-----------------------------------------------------------------------------
(* Operations are published and settled *)

\* An operation is published or settled: its reservation is used or given
\* back, and a settled one has no transient copy left.
LEMMA EndsCount ==
    ASSUME IInv, IInv', Accounts, NEW o \in Ops, UNCHANGED objs, Unsettled(o),
           \A q \in Ops \ {o} : ops'[q] = ops[q],
           ~Open(o)', ops'[o].phase # "none", ops'[o].kind = ops[o].kind, ops'[o].reserved = 0,
           Unsettled(o)' \/ \A s \in Slots : objs[o][s].temp = 0,
           usage' \in [used : Int, reserved : Int, transient : Int],
           usage'.used = UsedSum(versions'), usage'.transient = usage.transient,
           usage'.reserved = usage.reserved - ops[o].reserved,
           usage'.used + usage'.reserved =< Quota
    PROVE  Accounts'
<1>. USE DEF Accounts
<1>1. \A s \in Slots : CopyStands(o, s)' <=> CopyStands(o, s)
  BY DEF CopyStands, Present, Staged
<1>2. \A s \in Slots : CopyStands(o, s)
  BY DEF Ledgers, Ledger
<1>3. Ledger(o)'
  BY <1>1, <1>2 DEF Ledger
<1>4. CopiedSum(ops', objs') = CopiedSum(ops, objs)
  BY CopiesSame
<1>5. /\ ReservedSum(ops) \in Nat /\ ops[o].reserved \in Nat
      /\ ReservedSum(ops') = ReservedSum(ops) - ops[o].reserved + 0
  <2>1. /\ ReservedSum(ops) \in Nat /\ ops[o].reserved \in Nat /\ ops'[o].reserved \in Nat
        /\ ReservedSum(ops') = ReservedSum(ops) - ops[o].reserved + ops'[o].reserved
    BY ReservedMoves
  <2>. QED
    BY <2>1
<1>6. Counted'
  BY <1>4, <1>5, CountedIs DEF Counted
<1>. QED
  BY <1>3, <1>6, LedgerStep

\* How the end of an operation is written.
LEMMA CompletedRow ==
    ASSUME IInv, NEW o \in Ops, ops' = [ops EXCEPT ![o] = Completed(o)]
    PROVE  /\ \A q \in Ops \ {o} : ops'[q] = ops[q]
           /\ ~Open(o)' /\ ~Unsettled(o)' /\ ops'[o].phase # "none"
           /\ ops'[o].kind = ops[o].kind /\ ops'[o].reserved = 0
<1>1. PICK r \in OpStates : r = ops[o]
  BY Rows
<1>2. ops'[o] = [r EXCEPT !.phase = "completed", !.live = FALSE, !.error = FALSE,
                          !.reserved = 0, !.token = None]
  BY <1>1, Rows DEF Completed
<1>3. ops'[o].phase = "completed" /\ ops'[o].kind = r.kind /\ ops'[o].reserved = 0
  <2>1. PICK q \in OpStates : q = [r EXCEPT !.phase = "completed", !.live = FALSE, !.error = FALSE,
                                            !.reserved = 0]
    BY DEF OpStates
  <2>2. q.phase = "completed" /\ q.kind = r.kind /\ q.reserved = 0
    BY <2>1 DEF OpStates
  <2>3. ops'[o] = [q EXCEPT !.token = None]
    BY <1>2, <2>1
  <2>. QED
    BY <2>2, <2>3 DEF OpStates
<1>. QED
  BY <1>1, <1>3, Rows DEF Open, Unsettled, Committed

LEMMA PublishedRow ==
    ASSUME IInv, NEW o \in Ops, Publish(o)
    PROVE  /\ \A q \in Ops \ {o} : ops'[q] = ops[q]
           /\ ~Open(o)' /\ Unsettled(o)' /\ ops'[o].phase # "none"
           /\ ops'[o].kind = ops[o].kind /\ ops'[o].reserved = 0
<1>1. PICK r \in OpStates : r = ops[o]
  BY Rows
<1>2. ops'[o] = [r EXCEPT !.phase = "committed", !.reserved = 0]
  BY <1>1, Rows DEF Publish
<1>3. ops'[o].phase = "committed" /\ ops'[o].kind = r.kind /\ ops'[o].reserved = 0
  BY <1>2 DEF OpStates
<1>. QED
  BY <1>1, <1>3, Rows DEF Publish, Open, Unsettled, Committed

\* What was reserved is charged for the version that begins to live.
LEMMA ChargeCounts ==
    ASSUME Accounts, NEW o \in Ops, Charge(o), ops[o].reserved = Bytes[o],
           versions[o].state # "live", versions'[o].state = "live",
           \A v \in Ids \ {o} : versions[v].state = "live" <=> versions'[v].state = "live"
    PROVE  /\ usage' \in [used : Int, reserved : Int, transient : Int]
           /\ usage'.used = UsedSum(versions') /\ usage'.transient = usage.transient
           /\ usage'.reserved = usage.reserved - ops[o].reserved
           /\ usage'.used + usage'.reserved =< Quota
<1>. USE Constants
<1>1. /\ usage \in [used : Int, reserved : Int, transient : Int]
      /\ usage.used = UsedSum(versions) /\ usage.used + usage.reserved =< Quota
  BY CountedIs DEF Accounts
<1>2. PICK b \in Nat : b = Bytes[o] /\ b = ops[o].reserved
  OBVIOUS
<1>3. usage' = [usage EXCEPT !.used = @ + b, !.reserved = @ - b]
  BY <1>2 DEF Charge
<1>4. /\ usage' \in [used : Int, reserved : Int, transient : Int]
      /\ usage'.used = usage.used + b /\ usage'.transient = usage.transient
      /\ usage'.reserved = usage.reserved - b
  <2>1. usage.used + b \in Int /\ usage.reserved - b \in Int
    BY <1>1, <1>2
  <2>. QED
    BY <1>1, <1>3, <2>1
<1>5. UsedSum(versions') = UsedSum(versions) + b
  BY <1>2, UsedBorn
<1>6. Quota \in Nat
  BY FilesAssumption
<1>. QED
  BY <1>1, <1>2, <1>4, <1>5, <1>6

LEMMA CommitUploadCounts ==
    ASSUME IInv, IInv', HoldersWork, Book, CallsFit, Accounts, NEW o \in Ops, proc[o].at = "plan",
           Holds(o), Open(o), CommitUpload(o), UNCHANGED objs
    PROVE  Accounts'
<1>. USE Constants
<1>1. Unsettled(o) /\ CallFits(o) /\ versions[o].state = "unborn" /\ ops[o].kind = "upload"
  BY HoldsAlone DEF Working, CallsFit, CommitUpload, Open, IInv, IdsFresh
<1>2. Planned(o)
  BY <1>1 DEF CallFits, RequestFits, Purging, SystemKinds
<1>3. ops[o].reserved = Bytes[o] /\ \A s \in Slots : objs[o][s].temp = 0
  BY <1>1, <1>2 DEF Accounts, Ledgers, Ledger, CopyStands
<1>4. PICK r : r.state = "live" /\ versions' = [versions EXCEPT ![o] = r]
  <2>1. PICK r : r = [state |-> "live", file |-> o, loc |-> InFiles(ops[o].path)]
    OBVIOUS
  <2>. QED
    BY <2>1 DEF CommitUpload
<1>5. versions'[o].state = "live" /\ \A v \in Ids \ {o} : versions'[v] = versions[v]
  BY <1>4 DEF IInv, RowsOK
<1>6. Charge(o) /\ ops' = [ops EXCEPT ![o] = Completed(o)]
  BY DEF CommitUpload
<1>7. /\ usage' \in [used : Int, reserved : Int, transient : Int]
      /\ usage'.used = UsedSum(versions') /\ usage'.transient = usage.transient
      /\ usage'.reserved = usage.reserved - ops[o].reserved
      /\ usage'.used + usage'.reserved =< Quota
  BY <1>1, <1>3, <1>5, <1>6, ChargeCounts
<1>8. /\ \A q \in Ops \ {o} : ops'[q] = ops[q]
      /\ ~Open(o)' /\ ~Unsettled(o)' /\ ops'[o].phase # "none"
      /\ ops'[o].kind = ops[o].kind /\ ops'[o].reserved = 0
  BY <1>6, CompletedRow
<1>. QED
  BY <1>1, <1>3, <1>7, <1>8, EndsCount

LEMMA CommitOverwriteCounts ==
    ASSUME IInv, IInv', HoldersWork, Book, Accounts, NEW o \in Ops, Open(o), CommitOverwrite(o),
           UNCHANGED objs
    PROVE  Accounts'
<1>. USE Constants
<1>1. /\ Unsettled(o) /\ versions[o].state = "unborn" /\ ops[o].kind = "overwrite"
      /\ OverwriteShaped(o) /\ Present(o, "replacement")
  BY ShapeOf DEF CommitOverwrite, Unsettled, Open, IInv, IdsFresh
<1>2. PICK f \in Ids, old \in Ids : f = ops[o].file /\ old = entries[f].current
  <2>1. ops[o].file \in Ids /\ entries[ops[o].file].busy = o
    BY <1>1, ShapeOf DEF CommitOverwrite
  <2>. QED
    BY <2>1, HeldFile
<1>3. old # o
  <2>1. objs[o][old].dst = InHistory(old) /\ InHistory(old) # None
    BY <1>2, AddressesApart DEF CommitOverwrite
  <2>2. Present(o, old)
    BY <1>2, <2>1 DEF IInv, PlansFollow, Blank
  <2>. QED
    BY <1>1, <2>2 DEF OverwriteShaped, ArchiveShaped
<1>4. Planned(o)
  BY <1>1 DEF Planned
<1>5. ops[o].reserved = Bytes[o]
  BY <1>1, <1>4 DEF Accounts, Ledgers, Ledger
<1>6. PICK r, to : r.state = "live" /\ versions' = [versions EXCEPT ![old].loc = to, ![o] = r]
  <2>1. PICK r, to : /\ r = [state |-> "live", file |-> f, loc |-> InFiles(entries[f].path)]
                     /\ to = InHistory(old)
    OBVIOUS
  <2>. QED
    BY <1>2, <2>1 DEF CommitOverwrite
<1>7. /\ versions'[o].state = "live"
      /\ \A v \in Ids \ {o} : versions[v].state = "live" <=> versions'[v].state = "live"
  <2>1. versions \in [Ids -> VersionStates]
    BY DEF IInv, RowsOK
  <2>2. PICK row \in VersionStates : row = versions[old]
    BY <2>1
  <2>3. versions' = [versions EXCEPT ![old] = [row EXCEPT !.loc = to], ![o] = r]
    BY <1>6, <2>1, <2>2
  <2>4. versions'[o] = r /\ versions'[old] = [row EXCEPT !.loc = to]
        /\ \A v \in Ids \ {o, old} : versions'[v] = versions[v]
    BY <1>3, <2>1, <2>3
  <2>5. versions'[old].state = row.state
    BY <2>2, <2>4 DEF VersionStates
  <2>. QED
    BY <1>6, <2>2, <2>4, <2>5
<1>8. Charge(o) /\ Publish(o)
  BY DEF CommitOverwrite
<1>9. /\ usage' \in [used : Int, reserved : Int, transient : Int]
      /\ usage'.used = UsedSum(versions') /\ usage'.transient = usage.transient
      /\ usage'.reserved = usage.reserved - ops[o].reserved
      /\ usage'.used + usage'.reserved =< Quota
  BY <1>1, <1>5, <1>7, <1>8, ChargeCounts
<1>10. /\ \A q \in Ops \ {o} : ops'[q] = ops[q]
       /\ ~Open(o)' /\ Unsettled(o)' /\ ops'[o].phase # "none"
       /\ ops'[o].kind = ops[o].kind /\ ops'[o].reserved = 0
  BY <1>8, PublishedRow
<1>. QED
  BY <1>1, <1>9, <1>10, EndsCount

LEMMA CommitRelocationCounts ==
    ASSUME IInv, IInv', Accounts, NEW o \in Ops, Open(o), CommitRelocation(o), UNCHANGED objs
    PROVE  Accounts'
<1>. USE Constants
<1>1. Unsettled(o) /\ ops[o].kind \notin {"upload", "overwrite"} /\ UNCHANGED usage /\ Publish(o)
  BY DEF CommitRelocation, Unsettled
<1>2. ops[o].reserved = 0
  BY <1>1 DEF Accounts, Ledgers, Ledger
<1>3. PICK v, to : versions' = [versions EXCEPT ![v].loc = to]
  BY DEF CommitRelocation
<1>4. \A u \in Ids : versions[u].state = "live" <=> versions'[u].state = "live"
  BY <1>3 DEF IInv, RowsOK, VersionStates
<1>5. UsedSum(versions') = UsedSum(versions)
  BY <1>4, UsedSame
<1>6. /\ usage' \in [used : Int, reserved : Int, transient : Int]
      /\ usage'.used = UsedSum(versions') /\ usage'.transient = usage.transient
      /\ usage'.reserved = usage.reserved - ops[o].reserved
      /\ usage'.used + usage'.reserved =< Quota
  BY <1>1, <1>2, <1>5, CountedIs DEF Accounts
<1>7. /\ \A q \in Ops \ {o} : ops'[q] = ops[q]
      /\ ~Open(o)' /\ Unsettled(o)' /\ ops'[o].phase # "none"
      /\ ops'[o].kind = ops[o].kind /\ ops'[o].reserved = 0
  BY <1>1, PublishedRow
<1>. QED
  BY <1>1, <1>6, <1>7, EndsCount

\* Versions stop living.
LEMMA UsedGone ==
    ASSUME NEW gone \in SUBSET Ids,
           \A v \in gone : versions[v].state = "live" /\ versions'[v].state # "live",
           \A v \in Ids \ gone : versions[v].state = "live" <=> versions'[v].state = "live"
    PROVE  /\ Total(Bytes, gone) \in Nat /\ UsedSum(versions) \in Nat
           /\ UsedSum(versions') = UsedSum(versions) - Total(Bytes, gone)
<1>. USE Constants
<1>1. PICK g, h : g = UsedBy(versions) /\ h = UsedBy(versions')
  OBVIOUS
<1>2. \A v \in Ids : g[v] \in Nat
  BY <1>1 DEF UsedBy
<1>3. \A v \in Ids : h[v] \in Nat
  BY <1>1 DEF UsedBy
<1>4. IsFiniteSet(gone) /\ IsFiniteSet(Ids \ gone)
  BY Finiteness, FS_Subset
<1>5. /\ Total(g, Ids) = Total(g, gone) + Total(g, Ids \ gone)
      /\ Total(g, Ids) \in Nat /\ Total(g, gone) \in Nat /\ Total(g, Ids \ gone) \in Nat
  BY <1>2, Finiteness, TotalSplit, Zenon
<1>6. /\ Total(h, Ids) = Total(h, gone) + Total(h, Ids \ gone)
      /\ Total(h, Ids) \in Nat /\ Total(h, gone) \in Nat /\ Total(h, Ids \ gone) \in Nat
  BY <1>3, Finiteness, TotalSplit, Zenon
<1>7. Total(g, gone) = Total(Bytes, gone)
  <2>1. PICK k : k = Bytes
    OBVIOUS
  <2>2. \A v \in gone : g[v] = k[v]
    BY <1>1, <2>1 DEF UsedBy
  <2>3. Total(g, gone) = Total(k, gone)
    BY <1>4, <2>2, TotalSame
  <2>. QED
    BY <2>1, <2>3
<1>8. Total(h, gone) = 0
  <2>1. \A v \in gone : h[v] = 0
    BY <1>1 DEF UsedBy
  <2>. QED
    BY <1>4, <2>1, TotalZero
<1>9. Total(g, Ids \ gone) = Total(h, Ids \ gone)
  <2>1. \A v \in Ids \ gone : g[v] = h[v]
    BY <1>1 DEF UsedBy
  <2>. QED
    BY <1>4, <2>1, TotalSame, Zenon
<1>. QED
  BY <1>1, <1>5, <1>6, <1>7, <1>8, <1>9 DEF UsedSum

LEMMA PurgeCounts ==
    ASSUME IInv, IInv', Book, Accounts, NEW o \in Ops, Open(o), Purge(o), UNCHANGED objs
    PROVE  Accounts'
<1>. USE Constants
<1>1. Unsettled(o) /\ PurgeShaped(o) /\ ops[o].kind \notin {"upload", "overwrite"}
  BY ShapeOf DEF Purge, Unsettled, Purging, SystemKinds
<1>2. ops[o].reserved = 0
  BY <1>1 DEF Accounts, Ledgers, Ledger
<1>3. \A s \in Slots : objs[o][s].temp = 0
  BY <1>1 DEF Accounts, Ledgers, Ledger, CopyStands, PurgeShaped
<1>4. PICK gone \in SUBSET Ids : gone = {v \in Ids : Present(o, v) /\ versions[v].state = "live"}
  OBVIOUS
<1>5. /\ versions' = [v \in Ids |->
            IF v \in gone THEN [versions[v] EXCEPT !.state = "purged"] ELSE versions[v]]
      /\ ops' = [ops EXCEPT ![o] = Completed(o)]
      /\ usage' = [usage EXCEPT !.used = @ - Total(Bytes, gone)]
  BY <1>4 DEF Purge, Total
<1>6. \A v \in gone : versions[v].state = "live" /\ versions'[v].state # "live"
  BY <1>4, <1>5 DEF IInv, RowsOK, VersionStates
<1>7. \A v \in Ids \ gone : versions[v].state = "live" <=> versions'[v].state = "live"
  BY <1>5
<1>8. /\ Total(Bytes, gone) \in Nat /\ UsedSum(versions) \in Nat
      /\ UsedSum(versions') = UsedSum(versions) - Total(Bytes, gone)
  BY <1>6, <1>7, UsedGone
<1>9. /\ usage' \in [used : Int, reserved : Int, transient : Int]
      /\ usage'.used = UsedSum(versions') /\ usage'.transient = usage.transient
      /\ usage'.reserved = usage.reserved - ops[o].reserved
      /\ usage'.used + usage'.reserved =< Quota
  <2>1. /\ usage \in [used : Int, reserved : Int, transient : Int]
        /\ usage.used = UsedSum(versions) /\ usage.used + usage.reserved =< Quota
    BY CountedIs DEF Accounts
  <2>2. Quota \in Nat
    BY FilesAssumption
  <2>. QED
    BY <1>2, <1>5, <1>8, <2>1, <2>2
<1>10. /\ \A q \in Ops \ {o} : ops'[q] = ops[q]
       /\ ~Open(o)' /\ ~Unsettled(o)' /\ ops'[o].phase # "none"
       /\ ops'[o].kind = ops[o].kind /\ ops'[o].reserved = 0
  BY <1>5, CompletedRow
<1>. QED
  BY <1>1, <1>3, <1>9, <1>10, EndsCount

LEMMA CommitCounts ==
    ASSUME IInv, IInv', HoldersWork, Book, CallsFit, Accounts, NEW o \in Ops, Commit(o)
    PROVE  Accounts'
<1>1. proc[o].at = "plan" /\ Holds(o) /\ Open(o) /\ UNCHANGED objs
  BY DEF Commit
<1>. QED
  BY <1>1, CommitUploadCounts, PurgeCounts, CommitOverwriteCounts, CommitRelocationCounts DEF Commit

LEMMA PurgeByJobCounts ==
    ASSUME IInv, IInv', Book, Accounts, NEW w \in Workers, PurgeByJob(w)
    PROVE  Accounts'
<1>1. proc[w].op \in Ops
  BY Constants DEF PurgeByJob, IInv, ExecutorsPlaced, PlacedAs
<1>. QED
  BY <1>1, PurgeCounts DEF PurgeByJob

\* An operation is over once what it had to delete is deleted: no copy counts.
LEMMA FinishCounts ==
    ASSUME IInv, IInv', Book, Accounts, NEW p \in Processes, Finish(p)
    PROVE  Accounts'
<1>. USE Constants
<1>1. PICK o \in Ops : o = proc[p].op
  BY DEF Finish, IInv, ExecutorsPlaced, PlacedAs
<1>2. /\ Committed(o) /\ Finished(o) /\ UNCHANGED <<versions, objs, usage>>
      /\ ops' = [ops EXCEPT ![o] = Completed(o)]
  BY <1>1 DEF Finish
<1>3. Unsettled(o) /\ ~Open(o)
  BY <1>2 DEF Unsettled, Open, Committed
<1>4. ops[o].reserved = 0
  BY <1>3 DEF Accounts, Ledgers, Ledger
<1>5. ASSUME NEW s \in Slots PROVE objs[o][s].temp = 0
  <2>1. CopyStands(o, s) /\ Clear(o)
    BY <1>3 DEF Accounts, Ledgers, Ledger, Book, RestoredClear
  <2>2. ~(objs[o][s].started /\ objs[o][s].restored)
    BY <1>3, <2>1 DEF Clear
  <2>. QED
    BY <1>2, <2>1, <2>2 DEF CopyStands, Finished, PendingSource, PendingTarget
<1>6. /\ usage' \in [used : Int, reserved : Int, transient : Int]
      /\ usage'.used = UsedSum(versions') /\ usage'.transient = usage.transient
      /\ usage'.reserved = usage.reserved - ops[o].reserved
      /\ usage'.used + usage'.reserved =< Quota
  BY <1>2, <1>4, CountedIs DEF Accounts
<1>7. /\ \A q \in Ops \ {o} : ops'[q] = ops[q]
      /\ ~Open(o)' /\ ~Unsettled(o)' /\ ops'[o].phase # "none"
      /\ ops'[o].kind = ops[o].kind /\ ops'[o].reserved = 0
  BY <1>2, CompletedRow
<1>. QED
  BY <1>2, <1>3, <1>5, <1>6, <1>7, EndsCount

LEMMA AbortCounts ==
    ASSUME IInv, IInv', Accounts, NEW w \in Workers, Abort(w)
    PROVE  Accounts'
<1>. USE Constants
<1>1. PICK o \in Ops : o = proc[w].op
  BY DEF Abort, IInv, ExecutorsPlaced, PlacedAs
<1>2. /\ Undoing(o) /\ PendingTarget(o) = {} /\ UNCHANGED <<versions, objs>>
      /\ usage' = [usage EXCEPT !.reserved = @ - ops[o].reserved]
      /\ ops' = [ops EXCEPT ![o].phase = "failed", ![o].reserved = 0, ![o].live = FALSE]
  BY <1>1 DEF Abort
<1>3. Unsettled(o)
  BY <1>2 DEF Undoing, Unsettled
<1>4. \A s \in Slots : objs[o][s].temp = 0
  BY <1>2, <1>3 DEF Accounts, Ledgers, Ledger, CopyStands, PendingTarget
<1>5. /\ \A q \in Ops \ {o} : ops'[q] = ops[q]
      /\ ops'[o].phase = "failed" /\ ops'[o].kind = ops[o].kind /\ ops'[o].reserved = 0
  <2>1. PICK r \in OpStates : r = ops[o]
    BY Rows
  <2>2. ops' = [ops EXCEPT ![o] = [r EXCEPT !.phase = "failed", !.reserved = 0, !.live = FALSE]]
    BY <1>2, <2>1, Rows
  <2>. QED
    BY <2>1, <2>2, Rows DEF OpStates
<1>6. ~Open(o)' /\ ops'[o].phase # "none"
  BY <1>5 DEF Open
<1>7. UsedSum(versions') = UsedSum(versions)
  BY <1>2
<1>8. /\ usage' \in [used : Int, reserved : Int, transient : Int]
      /\ usage'.used = UsedSum(versions') /\ usage'.transient = usage.transient
      /\ usage'.reserved = usage.reserved - ops[o].reserved
      /\ usage'.used + usage'.reserved =< Quota
  <2>1. /\ usage \in [used : Int, reserved : Int, transient : Int]
        /\ usage.used = UsedSum(versions) /\ usage.used + usage.reserved =< Quota
    BY CountedIs DEF Accounts
  <2>2. ops[o].reserved \in Nat /\ Quota \in Nat
    BY Rows, FilesAssumption
  <2>. QED
    BY <1>2, <1>7, <2>1, <2>2
<1>. QED
  BY <1>2, <1>3, <1>4, <1>5, <1>6, <1>8, EndsCount

-----------------------------------------------------------------------------
(* The counters of the usage *)

LEMMA AccountsBegin == Init => Accounts
<1>. SUFFICES ASSUME Init PROVE Accounts
  OBVIOUS
<1>. USE Constants
<1>1. \A o \in Ops : ops[o] = NoOp /\ \A s \in Slots : objs[o][s] = NoObject
  BY DEF Init
<1>2. Ledgers
  BY <1>1 DEF Ledgers, Ledger, CopyStands, Open, NoOp, NoObject
<1>3. UsedSum(versions) = Bytes[First]
  <2>1. PICK g : g = UsedBy(versions)
    OBVIOUS
  <2>2. g[First] = Bytes[First] /\ \A v \in Ids \ {First} : g[v] = 0
    BY <2>1 DEF Init, UsedBy, NoVersion
  <2>3. \A v \in Ids : g[v] \in Nat
    BY <2>2
  <2>4. IsFiniteSet(Ids) /\ IsFiniteSet(Ids \ {First})
    BY Finiteness, FS_Subset
  <2>5. Total(g, Ids) = g[First] + Total(g, Ids \ {First})
    BY <2>3, <2>4, TotalRemove
  <2>6. Total(g, Ids \ {First}) = 0
    BY <2>2, <2>4, TotalZero
  <2>. QED
    BY <2>1, <2>2, <2>3, <2>5, <2>6 DEF UsedSum
<1>4. ReservedSum(ops) = 0
  <2>1. PICK g : g = ReservedBy(ops)
    OBVIOUS
  <2>2. \A o \in Ops : g[o] = 0
    BY <1>1, <2>1 DEF ReservedBy, Pending, NoOp
  <2>. QED
    BY <2>1, <2>2, Finiteness, TotalZero DEF ReservedSum
<1>5. CopiedSum(ops, objs) = 0
  <2>1. PICK g : g = CopiedBy(ops, objs)
    OBVIOUS
  <2>2. \A o \in Ops, s \in Slots : g[<<o, s>>] = 0
    BY <1>1, <2>1 DEF CopiedBy, Pairs, Pending, NoOp
  <2>3. \A x \in Pairs : g[x] = 0
    BY <2>2 DEF Pairs
  <2>. QED
    BY <2>1, <2>3, Finiteness, TotalZero DEF CopiedSum
<1>6. usage = [used |-> Bytes[First], reserved |-> 0, transient |-> 0]
  BY DEF Init
<1>7. Counted
  BY <1>3, <1>4, <1>5, <1>6, UsageAssumption DEF Counted
<1>. QED
  BY <1>2, <1>7 DEF Accounts

LEMMA StepCounts ==
    IInv /\ HoldersWork /\ Book /\ CallsFit /\ Tidy /\ Accounts /\ [Next]_vars => Accounts'
<1>. SUFFICES ASSUME IInv, HoldersWork, Book, CallsFit, Tidy, Accounts, [Next]_vars PROVE Accounts'
  OBVIOUS
<1>. USE Constants
<1>1. IInv'
  BY StepHolds
<1>2. CASE UNCHANGED vars
  BY <1>1, <1>2, QuietSteps
<1>3. ASSUME NEW p \in Processes, Advance(p) PROVE Accounts'
  <2>1. CASE RecordDrop(p) \/ Finish(p)
    BY <1>1, <2>1, RecordDropCounts, FinishCounts
  <2>2. CASE (\E l \in Locations : IssueDrop(p, l)) \/ Drop(p) \/ GiveUp(p) \/ Handoff(p)
    BY <1>1, <2>2, QuietSteps
  <2>. QED
    BY <1>3, <2>1, <2>2 DEF Advance
<1>4. ASSUME NEW o \in Ops, Request(o) \/ Refuse(o) \/ ServeRequest(o) \/ Lapse(o) \/ Deadline(o)
      PROVE  Accounts'
  <2>1. CASE ServeRequest(o)
    <3>1. CASE (\E s \in Slots : IssueMake(o, s)) \/ Make(o)
      BY <1>1, <3>1, QuietSteps
    <3>2. CASE Prepare(o) \/ RecordMade(o) \/ Intend(o) \/ Commit(o)
      BY <1>1, <3>2, PrepareCounts, RecordMadeCounts, IntendCounts, CommitCounts
    <3>. QED
      BY <1>3, <2>1, <3>1, <3>2 DEF ServeRequest
  <2>2. CASE Request(o)
    <3>1. \E kind, f, path, rev : Admit(o, kind, f, path, rev)
      BY <2>2 DEF Request
    <3>. QED
      BY <1>1, <3>1, BeginsCount
  <2>3. CASE Refuse(o) \/ Lapse(o) \/ Deadline(o)
    BY <1>1, <2>3, QuietSteps
  <2>. QED
    BY <1>4, <2>1, <2>2, <2>3
<1>5. ASSUME NEW w \in Workers, ServeJob(w) PROVE Accounts'
  <2>1. CASE (\E s \in Slots : IssueRestore(w, s)) \/ Restore(w)
    BY <1>1, <2>1, QuietSteps
  <2>2. CASE RecordRestored(w) \/ Abort(w) \/ PurgeByJob(w)
    BY <1>1, <2>2, RecordRestoredCounts, AbortCounts, PurgeByJobCounts
  <2>. QED
    BY <1>3, <1>5, <2>1, <2>2 DEF ServeJob
<1>6. ASSUME NEW w \in Workers, NEW o \in Ops,
             \/ Claim(w, o)
             \/ \E v \in Ids : EnlistHistory(w, o, v)
             \/ \E f \in Ids : EnlistTrash(w, o, f)
      PROVE  Accounts'
  <2>0. "history_purge" \in SystemKinds /\ "trash_purge" \in SystemKinds
    BY DEF SystemKinds
  <2>1. CASE Claim(w, o)
    BY <1>1, <2>1, QuietSteps
  <2>2. ASSUME NEW v \in Ids, EnlistHistory(w, o, v) PROVE Accounts'
    <3>1. \E f : \E doomed \in SUBSET Ids : Enlist(w, o, "history_purge", f, doomed)
      BY <2>2 DEF EnlistHistory
    <3>. QED
      BY <1>1, <2>0, <3>1, BeginsCount
  <2>3. ASSUME NEW f \in Ids, EnlistTrash(w, o, f) PROVE Accounts'
    <3>1. \E g : \E doomed \in SUBSET Ids : Enlist(w, o, "trash_purge", g, doomed)
      BY <2>3 DEF EnlistTrash, VersionsOf
    <3>. QED
      BY <1>1, <2>0, <3>1, BeginsCount
  <2>. QED
    BY <1>6, <2>1, <2>2, <2>3
<1>7. ASSUME NEW v \in Ids, Refer(v) \/ Unrefer(v) PROVE Accounts'
  BY <1>1, <1>7, QuietSteps
<1>8. CASE Mishap
  <2>1. CASE \E o \in Ops : MakeFails(o) \/ Stall(o)
    BY <1>1, <2>1, QuietSteps
  <2>2. CASE \E w \in Workers : RestoreFails(w)
    BY <1>1, <2>2, QuietSteps
  <2>3. CASE \E p \in Processes : DropFails(p) \/ Break(p) \/ Crash(p) \/ LoseLock(p)
    BY <1>1, <2>3, QuietSteps
  <2>. QED
    BY <1>8, <2>1, <2>2, <2>3 DEF Mishap
<1>. QED
  BY <1>2, <1>4, <1>5, <1>6, <1>7, <1>8 DEF Next

LEMMA AccountsHold == Spec => [](IInv /\ Accounts)
<1>1. Init => IInv /\ HoldersWork /\ Book /\ CallsFit /\ Tidy /\ Accounts
  BY InitHolds, LocksBegin, CallsBegin, TidyBegins, AccountsBegin
<1>2. /\ IInv /\ HoldersWork /\ Book /\ CallsFit /\ Tidy /\ Accounts /\ [Next]_vars
      => (IInv /\ HoldersWork /\ Book /\ CallsFit /\ Tidy /\ Accounts)'
  BY StepHolds, LocksHold, StepFits, StepStaysTidy, StepCounts
<1>. QED
  BY <1>1, <1>2, PTL DEF Spec

LEMMA UsedIsSum ==
    UsedSum(versions) = SumFunctionOnSet(Bytes, {v \in Ids : versions[v].state = "live"})
<1>. USE Constants
<1>1. PICK g, h, T : g = Bytes /\ h = UsedBy(versions) /\ T = {v \in Ids : versions[v].state = "live"}
  OBVIOUS
<1>2. \A v \in T : g[v] \in Nat /\ h[v] = g[v]
  BY <1>1 DEF UsedBy
<1>3. \A v \in Ids \ T : h[v] = 0
  BY <1>1 DEF UsedBy
<1>4. T \in SUBSET Ids
  BY <1>1
<1>5. Total(h, Ids) = Total(g, T)
  BY <1>2, <1>3, <1>4, Finiteness, TotalMasked
<1>. QED
  BY <1>1, <1>5 DEF UsedSum, Total

LEMMA ReservedIsSum ==
    ASSUME IInv
    PROVE  ReservedSum(ops) =
              SumFunctionOnSet([o \in Ops |-> ops[o].reserved], {o \in Ops : Unsettled(o)})
<1>1. PICK g, h, T : /\ g = [o \in Ops |-> ops[o].reserved] /\ h = ReservedBy(ops)
                     /\ T = {o \in Ops : Unsettled(o)}
  OBVIOUS
<1>2. \A o \in T : g[o] \in Nat /\ h[o] = g[o]
  BY <1>1, Rows DEF ReservedBy
<1>3. \A o \in Ops \ T : h[o] = 0
  BY <1>1, Rows DEF ReservedBy
<1>4. T \in SUBSET Ops
  BY <1>1
<1>5. Total(h, Ops) = Total(g, T)
  BY <1>2, <1>3, <1>4, Finiteness, TotalMasked
<1>. QED
  BY <1>1, <1>5 DEF ReservedSum, Total

LEMMA CopiedIsSum ==
    ASSUME IInv
    PROVE  CopiedSum(ops, objs) =
              SumFunctionOnSet([x \in Ops \X Slots |-> objs[x[1]][x[2]].temp],
                               {o \in Ops : Unsettled(o)} \X Slots)
<1>1. PICK g, h, T : /\ g = [x \in Ops \X Slots |-> objs[x[1]][x[2]].temp]
                     /\ h = CopiedBy(ops, objs) /\ T = {o \in Ops : Unsettled(o)} \X Slots
  OBVIOUS
<1>2. ASSUME NEW o \in Ops, NEW s \in Slots
      PROVE  /\ g[<<o, s>>] = objs[o][s].temp /\ g[<<o, s>>] \in Nat
             /\ <<o, s>> \in T <=> Unsettled(o)
             /\ Unsettled(o) => h[<<o, s>>] = g[<<o, s>>]
             /\ ~Unsettled(o) => h[<<o, s>>] = 0
  BY <1>1, Rows DEF CopiedBy, Pairs
<1>3. \A x \in Pairs : x \in T => g[x] \in Nat /\ h[x] = g[x]
  BY <1>2 DEF Pairs
<1>4. \A x \in Pairs \ T : h[x] = 0
  BY <1>2 DEF Pairs
<1>5. T \in SUBSET Pairs
  BY <1>1 DEF Pairs
<1>6. Total(h, Pairs) = Total(g, T)
  BY <1>3, <1>4, <1>5, Finiteness, TotalMasked
<1>. QED
  BY <1>1, <1>6 DEF CopiedSum, Total

\* The counters of an organization are the sums they stand for after any mix
\* of admissions, commits, recorded calls, aborts and purges, by requests and
\* by maintenance, and what is used and reserved fits the quota (files.ts,
\* file-maintenance.ts).
THEOREM UsageExact == Spec => []QuotaExact
<1>1. IInv /\ Accounts => QuotaExact
  BY CountedIs, UsedIsSum, ReservedIsSum, CopiedIsSum DEF Accounts, QuotaExact
<1>. QED
  BY <1>1, AccountsHold, PTL

\* Every row, object and executor keeps its type, and no counter of the usage
\* is driven below zero, whatever is given back, and in whichever order.
THEOREM TypesHold == Spec => []TypeOK
<1>1. ASSUME IInv, Accounts PROVE TypeOK
  <2>1. /\ UsedSum(versions) \in Nat /\ ReservedSum(ops) \in Nat /\ CopiedSum(ops, objs) \in Nat
    <3>1. PICK vs : vs = versions
      OBVIOUS
    <3>2. UsedSum(vs) \in Nat /\ ReservedSum(ops) \in Nat /\ CopiedSum(ops, objs) \in Nat
      BY <1>1, Rows, Weighed
    <3>. QED
      BY <3>1, <3>2
  <2>2. usage \in [used : Nat, reserved : Nat, transient : Nat]
    BY <1>1, <2>1, CountedIs DEF Accounts
  <2>. QED
    BY <1>1, <2>2 DEF TypeOK, IInv
<1>. QED
  BY <1>1, AccountsHold, PTL

================================================================================
