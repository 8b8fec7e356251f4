----------------------------- MODULE FileWrites ------------------------------
(***************************************************************************)
(* The files of one organization: the writes that members request, the     *)
(* versions they leave behind and the maintenance that finishes or undoes  *)
(* what a request did not bring to its end.  A write is an operation of    *)
(* several transactions with calls to the object storage between them; the *)
(* plan of those calls is stored in the operation's objects.               *)
(*                                                                         *)
(* Two things keep executors apart: the physical lock, a session advisory  *)
(* lock of the organization held during the whole physical stage, and the  *)
(* operation's lease, a token with a time that every recorded fact is      *)
(* checked against.  Either may be lost while the other is still held.     *)
(*                                                                         *)
(* One folder, no sub-folders: an operation concerns one file.             *)
(***************************************************************************)
EXTENDS Integers, FiniteSets, Functions

CONSTANTS
    Ops,            \* operations; the id also names the file or version it makes
    First,          \* the file, and its version, that exists at the start
    Home,           \* the name First has at the start
    Paths,          \* names in the folder
    Workers,        \* maintenance passes, scheduled or run after a failed request
    Bytes,          \* content size per version
    Quota,          \* file_storage_usage.quota_bytes
    Asks,           \* what each request of an instance may ask for
    PartialWrites,  \* the storage writes in place (local), not atomically (S3)
    MaxFaults,      \* bound: storage failures, crashes, lost locks and leases,
                    \* by the number of operations begun
    None

Ids == Ops \cup {First}
Processes == Ops \cup Workers
Slots == {"staging", "replacement"} \cup Ids
UserKinds == {"upload", "overwrite", "move", "trash", "restore", "purge"}
SystemKinds == {"history_purge", "trash_purge"}

\* Storage addresses.
InFiles(p) == <<"files", p>>
InHistory(v) == <<"history", v>>
InTrash(v) == <<"trash", v>>
InStaging(v) == <<"staging", v>>
Internal == {"history", "trash", "staging"} \X Ids
Locations == ({"files"} \X Paths) \cup Internal

ASSUME FilesAssumption ==
    /\ First \notin Ops /\ Ops \cap Workers = {} /\ Home \in Paths
    /\ None \notin Ids \cup Workers \cup Paths \cup Locations
    /\ {"staging", "replacement"} \cap Ids = {} /\ {"empty", "partial"} \cap Ids = {}
    /\ Bytes \in [Ids -> Nat] /\ Quota \in Nat
    /\ MaxFaults \in [1 .. Cardinality(Ops) -> Nat]
    /\ Asks \in [Ops -> SUBSET UserKinds] /\ PartialWrites \in BOOLEAN

\* The table of operations is finite, and what is stored at the start was
\* admitted under the quota.
ASSUME UsageAssumption == IsFiniteSet(Ops) /\ Bytes[First] =< Quota

VARIABLES
    entries,   \* file_entries
    versions,  \* file_versions
    refs,      \* versions some project refers to (file_references)
    ops,       \* file_operations
    objs,      \* file_operation_objects, by operation and slot
    names,     \* file_namespace_reservations
    usage,     \* file_storage_usage
    disk,      \* the object storage
    lock,      \* holder of the organization's physical lock
    proc,      \* progress of each executor: a request's, a maintenance pass's
    faults

vars == <<entries, versions, refs, ops, objs, names, usage, disk, lock, proc, faults>>

NoEntry == [state |-> "absent", path |-> None, current |-> None, busy |-> None, rev |-> 0]
NoVersion == [state |-> "unborn", file |-> None, loc |-> None]
NoOp == [phase |-> "none", kind |-> "none", file |-> None, path |-> None, rev |-> 0,
         token |-> None, live |-> FALSE, error |-> FALSE, due |-> FALSE, reserved |-> 0]
NoObject == [ver |-> None, src |-> None, dst |-> None, prepared |-> FALSE, started |-> FALSE,
             srcGone |-> FALSE, restored |-> FALSE, dstGone |-> FALSE, temp |-> 0]
Object(v, from, to) == [NoObject EXCEPT !.ver = v, !.src = from, !.dst = to]
Idle == [at |-> "idle", op |-> None, slot |-> None, loc |-> None, lost |-> FALSE]

-----------------------------------------------------------------------------
(* Facts *)

Open(o) == ops[o].phase = "open"
Committed(o) == ops[o].phase = "committed"
Unsettled(o) == Open(o) \/ Committed(o)
Settled(o) == ops[o].phase \in {"completed", "failed"}
Purging(o) == ops[o].kind \in {"purge"} \cup SystemKinds
Present(o, s) == objs[o][s].ver # None
Planned(o) == \E s \in Slots : Present(o, s)
VersionsOf(f) == {v \in Ids : versions[v].state = "live" /\ versions[v].file = f}
Referenced(f) == \E v \in refs : versions[v].file = f

PendingSource(o) == {s \in Slots : objs[o][s].src # None /\ ~objs[o][s].srcGone}
\* Mutant: a target counts only once its writing was recorded.
PendingTargetRecorded(o) == {s \in Slots : objs[o][s].prepared /\ ~objs[o][s].dstGone}
PendingTarget(o) == {s \in Slots : objs[o][s].dst # None /\ ~objs[o][s].dstGone}
Staged(o, s) == objs[o][s].dst = InStaging(o)
\* Sources whose deletion may have happened and is not yet made good.
ToRestore(o) == {s \in Slots : (objs[o][s].started \/ objs[o][s].srcGone) /\ ~objs[o][s].restored}

\* Mutant: what is already published is undone like the rest.
UndoingPublished(o) == Unsettled(o) /\ ops[o].kind \notin SystemKinds
                       /\ ~(ops[o].kind = "purge" /\ Planned(o))
\* The mode of a maintenance job: undo, or delete what is left to delete.
Undoing(o) == Open(o) /\ ops[o].kind \notin SystemKinds
              /\ ~(ops[o].kind = "purge" /\ Planned(o))

Working(p) == proc[p].at \notin {"idle", "handoff"}
Engaged(p, o) == Working(p) /\ proc[p].op = o
Calling(p) == proc[p].at \in {"make", "drop", "restore"}

\* scope.write and require_file_maintenance_lease: on the lease.  A request's
\* transactions run on the connection that holds the lock, maintenance's do not.
Holds(p) ==
    LET o == proc[p].op
    IN  /\ Unsettled(o) /\ ops[o].token = p /\ ops[o].live /\ ~proc[p].lost
        /\ p \in Ops => lock = p
CutOff(p) == proc[p].lost \/ lock # p

Begun == Cardinality({o \in Ops : ops[o].phase # "none"})
Fault == faults < MaxFaults[Begun] /\ faults' = faults + 1

-----------------------------------------------------------------------------
(* Steps shared by the executors *)

Go(p, at) == proc' = [proc EXCEPT ![p].at = at]
Unlocked(p) == IF lock = p THEN None ELSE lock

\* The work throws: the physical scope is left, the failure still to report.
Leave(p) == Go(p, "handoff") /\ lock' = Unlocked(p)
Die(p) == proc' = [proc EXCEPT ![p] = Idle] /\ lock' = Unlocked(p)

\* finishOperation and the end of finish_file_maintenance.
Freed(o) == [f \in Ids |->
    [entries[f] EXCEPT !.busy = IF @ = o THEN None ELSE @]]
Released(o) == [p \in Paths |-> IF names[p] = o THEN None ELSE names[p]]
Finished(o) ==
    /\ PendingSource(o) = {}
    /\ \A s \in PendingTarget(o) : ~Staged(o, s)

-----------------------------------------------------------------------------
(* A request: admission and the reservation of what it needs *)

\* FileWriteExecutor.perform: the physical lock, then beginOperation and
\* claimOperation in one transaction.  A repeated id only reads the operation.
Admit(o, kind, f, path, rev) ==
    /\ lock = None /\ ops[o].phase = "none" /\ faults =< MaxFaults[Begun + 1]
    /\ lock' = o
    /\ ops' = [ops EXCEPT ![o] = [NoOp EXCEPT !.phase = "open", !.kind = kind, !.file = f,
                  !.path = path, !.rev = rev, !.token = o, !.live = TRUE]]
    /\ proc' = [proc EXCEPT ![o] = [Idle EXCEPT !.at = "prepare", !.op = o]]
    /\ UNCHANGED <<entries, versions, refs, objs, names, usage, disk, faults>>

Request(o) ==
    \/ \E path \in Paths : "upload" \in Asks[o] /\ Admit(o, "upload", o, path, 0)
    \/ \E kind \in Asks[o] \ {"upload"}, f \in Ids :
          \E rev \in 1 .. entries[f].rev, path \in Paths :
              /\ kind \in {"move", "restore"} \/ path = entries[f].path
              /\ Admit(o, kind, f, path, rev)

\* assertAvailable and reserveNamespace.
NameFree(o, path, f) ==
    /\ names[path] \in {None, o}
    /\ \A g \in Ids \ {f} : ~(entries[g].state = "active" /\ entries[g].path = path)
\* Mutant: bytes reserved by other operations do not count.
FitsBeside(o) == usage.used + Bytes[o] =< Quota
Fits(o) == usage.used + usage.reserved + Bytes[o] =< Quota

Reserve(o) ==
    /\ usage' = [usage EXCEPT !.reserved = @ + Bytes[o]]
    /\ ops' = [ops EXCEPT ![o].reserved = Bytes[o]]

CanUpload(o) ==
    ops[o].kind = "upload" /\ NameFree(o, ops[o].path, o) /\ Fits(o)

PrepareUpload(o) ==
    /\ CanUpload(o)
    /\ Reserve(o)
    /\ names' = [names EXCEPT ![ops[o].path] = o]
    /\ objs' = [objs EXCEPT ![o][o] = Object(o, None, InFiles(ops[o].path))]
    /\ UNCHANGED entries

CanOverwrite(o) ==
    LET f == ops[o].file
        entry == entries[f]
    IN  /\ ops[o].kind = "overwrite" /\ entry.state = "active"
        /\ entry.rev = ops[o].rev /\ entry.busy \in {None, o}
        /\ NameFree(o, entry.path, f) /\ Fits(o)

PrepareOverwrite(o) ==
    LET f == ops[o].file
        old == entries[f].current
    IN  /\ CanOverwrite(o)
        /\ Reserve(o)
        /\ entries' = [entries EXCEPT ![f].busy = o]
        /\ names' = [names EXCEPT ![entries[f].path] = o]
        /\ objs' = [objs EXCEPT ![o]["staging"] = Object(o, None, InStaging(o)),
                                ![o][old] = Object(old, versions[old].loc, InHistory(old))]

\* preparePathOperation.
CanRelocate(o) ==
    LET f == ops[o].file
        entry == entries[f]
        kind == ops[o].kind
    IN  /\ kind \in {"move", "trash", "restore", "purge"}
        /\ entry.rev = ops[o].rev /\ entry.busy \in {None, o}
        /\ entry.state = IF kind \in {"restore", "purge"} THEN "trashed" ELSE "active"
        /\ kind = "move" => ops[o].path # entry.path
        /\ kind \in {"trash", "purge"} => ~Referenced(f)
        /\ kind \in {"move", "restore"} => NameFree(o, ops[o].path, f)
        /\ names[entry.path] \in {None, o}

Destination(o) ==
    CASE ops[o].kind = "purge" -> None
      [] ops[o].kind = "trash" -> InTrash(entries[ops[o].file].current)
      [] OTHER -> InFiles(ops[o].path)

PrepareRelocation(o) ==
    LET f == ops[o].file
        moved == IF ops[o].kind = "purge" THEN VersionsOf(f) ELSE {entries[f].current}
        target == IF ops[o].kind \in {"move", "restore"} THEN {ops[o].path} ELSE {}
    IN  /\ CanRelocate(o)
        /\ entries' = [entries EXCEPT ![f].busy = o]
        /\ names' = [p \in Paths |-> IF p \in {entries[f].path} \cup target THEN o ELSE names[p]]
        /\ objs' = [objs EXCEPT ![o] = [s \in Slots |->
                      IF s \in moved THEN Object(s, versions[s].loc, Destination(o)) ELSE @[s]]]
        /\ UNCHANGED <<usage, ops>>

Prepare(o) ==
    /\ proc[o].at = "prepare" /\ Holds(o)
    /\ PrepareUpload(o) \/ PrepareOverwrite(o) \/ PrepareRelocation(o)
    /\ Go(o, "plan")
    /\ UNCHANGED <<versions, refs, disk, lock, faults>>

\* A business refusal; a restore may also come after the end of its term.
Refuse(o) ==
    /\ proc[o].at \in {"prepare", "plan"} /\ Holds(o)
    /\ \/ proc[o].at = "prepare" /\ ~CanUpload(o) /\ ~CanOverwrite(o) /\ ~CanRelocate(o)
       \/ ops[o].kind = "restore" /\ Open(o)
    /\ Leave(o)
    /\ UNCHANGED <<entries, versions, refs, ops, objs, names, usage, disk, faults>>

-----------------------------------------------------------------------------
(* Calls to the storage.  A call once issued lands whatever becomes of its   *)
(* executor meanwhile; what it did is recorded by a later transaction.       *)

\* staging, archive, then the replacement once the old source is gone.
NextTarget(o, s) ==
    /\ Present(o, s) /\ objs[o][s].dst # None /\ ~objs[o][s].prepared
    /\ Present(o, "staging") /\ s # "staging" => objs[o]["staging"].prepared
    /\ s = "replacement" => \A t \in Slots : objs[o][t].started => objs[o][t].srcGone

IssueMake(o, s) ==
    /\ proc[o].at = "plan" /\ ~proc[o].lost
    /\ Open(o) /\ NextTarget(o, s)
    /\ proc' = [proc EXCEPT ![o].at = "make", ![o].slot = s]
    /\ UNCHANGED <<entries, versions, refs, ops, objs, names, usage, disk, lock, faults>>

\* Both adapters refuse an occupied target; a copy checks what it copied.
Writable(x) == disk[x.dst] = "empty" /\ (x.src # None => disk[x.src] = x.ver)

Residue == IF PartialWrites THEN {"partial"} ELSE {}

Make(o) ==
    LET x == objs[o][proc[o].slot]
    IN  /\ proc[o].at = "make"
        /\ \/ /\ Writable(x)
              /\ disk' = [disk EXCEPT ![x.dst] = x.ver]
              /\ Go(o, "made")
              /\ UNCHANGED lock
           \/ /\ ~Writable(x)
              /\ Leave(o)
              /\ UNCHANGED disk
        /\ UNCHANGED <<entries, versions, refs, ops, objs, names, usage, faults>>

\* The call fails or its answer is lost.  What was written in place stays when
\* the call was aborted (the lock or the lease lost, the client gone, a
\* shutdown) or its process died, and is unlinked otherwise.
MakeFails(o) ==
    LET x == objs[o][proc[o].slot]
    IN  /\ proc[o].at = "make" /\ Writable(x) /\ Fault
        /\ Leave(o) \/ Die(o)
        /\ \E c \in {"empty", x.ver} \cup Residue : disk' = [disk EXCEPT ![x.dst] = c]
        /\ UNCHANGED <<entries, versions, refs, ops, objs, names, usage>>

\* recordPreparedObject with the transient bytes of the caller.
Transient(o, s) ==
    IF s = "replacement" \/ ops[o].kind = "upload" THEN 0 ELSE Bytes[objs[o][s].ver]

RecordMade(o) ==
    LET s == proc[o].slot
    IN  /\ proc[o].at = "made" /\ Holds(o) /\ Open(o)
        /\ objs' = [objs EXCEPT ![o][s].prepared = TRUE, ![o][s].temp = Transient(o, s)]
        /\ usage' = [usage EXCEPT !.transient = @ + Transient(o, s)]
        /\ proc' = [proc EXCEPT ![o].at = "plan", ![o].slot = None]
        /\ UNCHANGED <<entries, versions, refs, ops, names, disk, lock, faults>>

\* recordSourceDeletionIntent and the replacement object, in one transaction.
Intend(o) ==
    LET f == ops[o].file
        old == entries[f].current
    IN  /\ proc[o].at = "plan" /\ Holds(o) /\ Open(o) /\ ops[o].kind = "overwrite"
        /\ objs[o]["staging"].prepared /\ objs[o][old].prepared
        /\ ~objs[o][old].started /\ entries[f].state = "active" /\ entries[f].busy = o
        /\ versions[old].loc = objs[o][old].src
        /\ objs' = [objs EXCEPT ![o][old].started = TRUE,
                      ![o]["replacement"] = Object(o, InStaging(o), objs[o][old].src)]
        /\ UNCHANGED <<entries, versions, refs, ops, names, usage, disk, lock, proc, faults>>

\* The deletions a request or a job has before it, by the address they empty.
Sources(o, S) == {objs[o][s].src : s \in S}
Targets(o, S) == {objs[o][s].dst : s \in S}
CleanUp(o) ==
    Sources(o, PendingSource(o)) \cup Targets(o, {s \in PendingTarget(o) : Staged(o, s)})

RequestDrops(o) ==
    CASE Committed(o) \/ Purging(o) -> CleanUp(o)
      [] OTHER -> Sources(o, {s \in PendingSource(o) : objs[o][s].started})

\* Mutant: the targets go before the source is restored.
JobDropsTargets(o) == IF Undoing(o) THEN Targets(o, PendingTarget(o)) ELSE CleanUp(o)
\* What stands in the way of a source to restore goes first.
JobDrops(o) ==
    CASE ~Undoing(o) -> CleanUp(o)
      [] Undoing(o) /\ ToRestore(o) # {} -> Targets(o, PendingTarget(o)) \cap Sources(o, ToRestore(o))
      [] OTHER -> Targets(o, PendingTarget(o))

Drops(p) == IF p \in Ops THEN RequestDrops(p) ELSE JobDrops(proc[p].op)

IssueDrop(p, l) ==
    /\ proc[p].at = "plan" /\ ~proc[p].lost /\ Unsettled(proc[p].op)
    /\ l \in Drops(p)
    /\ proc' = [proc EXCEPT ![p].at = "drop", ![p].loc = l]
    /\ UNCHANGED <<entries, versions, refs, ops, objs, names, usage, disk, lock, faults>>

Drop(p) ==
    /\ proc[p].at = "drop"
    /\ disk' = [disk EXCEPT ![proc[p].loc] = "empty"]
    /\ Go(p, "dropped")
    /\ UNCHANGED <<entries, versions, refs, ops, objs, names, usage, lock, faults>>

DropFails(p) ==
    /\ proc[p].at = "drop" /\ Fault
    /\ Leave(p) \/ Die(p)
    /\ \E c \in {"empty", disk[proc[p].loc]} : disk' = [disk EXCEPT ![proc[p].loc] = c]
    /\ UNCHANGED <<entries, versions, refs, ops, objs, names, usage>>

\* Deletions that one call confirmed and no transaction recorded yet: the
\* staging copy is the target of one object and the source of another.
Confirmed(p) ==
    LET o == proc[p].op
        l == proc[p].loc
        undo == p \in Workers /\ Undoing(o)
    IN  {<<s, "source">> : s \in {t \in PendingSource(o) : ~undo /\ objs[o][t].src = l}}
        \cup {<<s, "target">> : s \in {t \in PendingTarget(o) :
                 objs[o][t].dst = l /\ (undo \/ Staged(o, t))}}

\* A target may not be recorded as deleted while it is the only copy of a
\* source that its operation may have deleted.
Recordable(o, d) ==
    LET x == objs[o][d[1]]
    IN  d[2] = "target" /\ Open(o) => (x.started => x.restored)

\* Mutant: the transient bytes stay recorded with the object.
DeletedCounted(x, s, D) ==
    [x EXCEPT !.srcGone = @ \/ <<s, "source">> \in D, !.dstGone = @ \/ <<s, "target">> \in D]
\* recordObjectDeleted for each of D, and the transient bytes given back.
Deleted(x, s, D) ==
    [x EXCEPT !.srcGone = @ \/ <<s, "source">> \in D, !.dstGone = @ \/ <<s, "target">> \in D,
              !.temp = IF s \in {d[1] : d \in D} THEN 0 ELSE @]
RecordDeleted(o, D) ==
    /\ \A d \in D : Recordable(o, d)
    /\ objs' = [objs EXCEPT ![o] = [s \in Slots |-> Deleted(objs[o][s], s, D)]]
    /\ usage' = [usage EXCEPT !.transient =
                    @ - SumFunctionOnSet([s \in Slots |-> objs[o][s].temp], {d[1] : d \in D})]

\* A request records them in one transaction, maintenance one by one.
RecordDrop(p) ==
    /\ proc[p].at = "dropped" /\ Holds(p)
    /\ \E D \in (SUBSET Confirmed(p)) \ {{}} :
          /\ IF p \in Ops THEN D = Confirmed(p) ELSE Cardinality(D) = 1
          /\ RecordDeleted(proc[p].op, D)
          /\ proc' = IF D = Confirmed(p)
                       THEN [proc EXCEPT ![p].at = "plan", ![p].loc = None] ELSE proc
    /\ UNCHANGED <<entries, versions, refs, ops, names, disk, lock, faults>>

-----------------------------------------------------------------------------
(* Publication and completion *)

Prepared(o) == \A s \in Slots : objs[o][s].dst # None => objs[o][s].prepared
Publish(o) == ops' = [ops EXCEPT ![o].phase = "committed", ![o].reserved = 0]
Completed(o) == [ops[o] EXCEPT !.phase = "completed", !.live = FALSE, !.error = FALSE,
                               !.reserved = 0, !.token = None]
Charge(o) == usage' = [usage EXCEPT !.used = @ + Bytes[o], !.reserved = @ - ops[o].reserved]

\* commitUpload and finishOperation in the transaction of scope.complete.
CommitUpload(o) ==
    /\ ops[o].kind = "upload" /\ NameFree(o, ops[o].path, o)
    /\ entries' = [entries EXCEPT ![o] = [state |-> "active", path |-> ops[o].path,
                      current |-> o, busy |-> None, rev |-> 1]]
    /\ versions' = [versions EXCEPT ![o] =
                      [state |-> "live", file |-> o, loc |-> InFiles(ops[o].path)]]
    /\ Charge(o)
    /\ ops' = [ops EXCEPT ![o] = Completed(o)]
    /\ names' = Released(o)

\* commitUpload of an overwrite, published before its clean-up.
CommitOverwrite(o) ==
    LET f == ops[o].file
        old == entries[f].current
    IN  /\ ops[o].kind = "overwrite" /\ Present(o, "replacement")
        /\ entries[f].rev = ops[o].rev /\ entries[f].busy = o
        /\ objs[o][old].dst = InHistory(old)
        /\ versions' = [versions EXCEPT ![old].loc = InHistory(old),
              ![o] = [state |-> "live", file |-> f, loc |-> InFiles(entries[f].path)]]
        /\ entries' = [entries EXCEPT ![f].current = o, ![f].rev = @ + 1]
        /\ Charge(o)
        /\ Publish(o)
        /\ UNCHANGED names

\* commitPathOperation of a move, trash or restore.
CommitRelocation(o) ==
    LET f == ops[o].file
        v == entries[f].current
        kind == ops[o].kind
    IN  /\ kind \in {"move", "trash", "restore"}
        /\ entries[f].rev = ops[o].rev /\ entries[f].busy = o
        /\ kind = "trash" => ~Referenced(f)
        /\ entries' = [entries EXCEPT ![f].rev = @ + 1,
              ![f].state = IF kind = "trash" THEN "trashed" ELSE "active",
              ![f].path = IF kind = "trash" THEN @ ELSE ops[o].path]
        /\ versions' = [versions EXCEPT ![v].loc = objs[o][v].dst]
        /\ Publish(o)
        /\ UNCHANGED <<names, usage>>

\* The end of a purge: by commitPathOperation with finishOperation, or by
\* finish_file_maintenance.  A member's purge is still held to the revision
\* it read; a purge of history leaves the entry as it is.
Purge(o) ==
    LET f == ops[o].file
        gone == {v \in Ids : Present(o, v) /\ versions[v].state = "live"}
    IN  /\ Purging(o) /\ Planned(o) /\ PendingSource(o) = {}
        /\ IF ops[o].kind = "history_purge"
             THEN /\ gone \cap refs = {} /\ entries[f].current \notin gone
                  /\ entries' = Freed(o)
             ELSE /\ ~Referenced(f)
                  /\ ops[o].kind = "purge" => entries[f].rev = ops[o].rev
                  /\ entries' = [Freed(o) EXCEPT ![f].state = "purged", ![f].rev = @ + 1]
        /\ entries[f].busy = o
        /\ versions' = [v \in Ids |->
              IF v \in gone THEN [versions[v] EXCEPT !.state = "purged"] ELSE versions[v]]
        /\ usage' = [usage EXCEPT !.used = @ - SumFunctionOnSet(Bytes, gone)]
        /\ ops' = [ops EXCEPT ![o] = Completed(o)]
        /\ names' = Released(o)

Commit(o) ==
    /\ proc[o].at = "plan" /\ Holds(o) /\ Open(o) /\ Prepared(o)
    /\ \/ CommitUpload(o) /\ Die(o)
       \/ Purge(o) /\ Die(o)
       \/ (CommitOverwrite(o) \/ CommitRelocation(o)) /\ UNCHANGED <<lock, proc>>
    /\ UNCHANGED <<refs, objs, disk, faults>>

\* finishOperation, or the end of the job of a committed operation.
Finish(p) ==
    LET o == proc[p].op
    IN  /\ proc[p].at = "plan" /\ Holds(p) /\ Committed(o) /\ Finished(o)
        /\ entries' = Freed(o)
        /\ names' = Released(o)
        /\ ops' = [ops EXCEPT ![o] = Completed(o)]
        /\ Die(p)
        /\ UNCHANGED <<versions, refs, objs, usage, disk, faults>>

-----------------------------------------------------------------------------
(* Maintenance: claim_file_maintenance under the physical lock *)

\* Mutant: an operation whose executor died unseen is not looked for.
CandidateReported(o) == Unsettled(o) /\ ~ops[o].live /\ (Committed(o) \/ ops[o].error)
Candidate(o) ==
    /\ Unsettled(o) /\ ~ops[o].live
    /\ Committed(o) \/ ops[o].error \/ ops[o].due \/ (ops[o].kind = "purge" /\ Planned(o))

Started(w, o) == proc' = [proc EXCEPT ![w] = [Idle EXCEPT !.at = "plan", !.op = o]]

\* Mutant: the lease alone decides, the physical lock is not awaited.
ClaimBeside(w, o) ==
    /\ proc[w].at = "idle" /\ Candidate(o)
    /\ lock' = w
    /\ ops' = [ops EXCEPT ![o].token = w, ![o].live = TRUE]
    /\ Started(w, o)
    /\ UNCHANGED <<entries, versions, refs, objs, names, usage, disk, faults>>

Claim(w, o) ==
    /\ proc[w].at = "idle" /\ lock = None /\ Candidate(o)
    /\ lock' = w
    /\ ops' = [ops EXCEPT ![o].token = w, ![o].live = TRUE]
    /\ Started(w, o)
    /\ UNCHANGED <<entries, versions, refs, objs, names, usage, disk, faults>>

\* An expired version or file gets an operation of the system.
Enlist(w, o, kind, f, doomed) ==
    /\ proc[w].at = "idle" /\ lock = None /\ ops[o].phase = "none"
    /\ entries[f].busy = None /\ faults =< MaxFaults[Begun + 1]
    /\ lock' = w
    /\ ops' = [ops EXCEPT ![o] = [NoOp EXCEPT !.phase = "open", !.kind = kind, !.file = f,
                  !.token = w, !.live = TRUE, !.due = TRUE]]
    /\ objs' = [objs EXCEPT ![o] = [s \in Slots |->
                  IF s \in doomed THEN Object(s, versions[s].loc, None) ELSE @[s]]]
    /\ entries' = [entries EXCEPT ![f].busy = o]
    /\ Started(w, o)
    /\ UNCHANGED <<versions, refs, names, usage, disk, faults>>

EnlistHistory(w, o, v) ==
    /\ versions[v].state = "live" /\ versions[v].loc = InHistory(v) /\ v \notin refs
    /\ LET f == versions[v].file
       IN  /\ entries[f].state # "purged" /\ entries[f].current # v
           /\ Enlist(w, o, "history_purge", f, {v})

EnlistTrash(w, o, f) ==
    /\ entries[f].state = "trashed" /\ ~Referenced(f)
    /\ Enlist(w, o, "trash_purge", f, VersionsOf(f))

\* FileObjectPlan.reconcile: once nothing stands in the way the old source is
\* verified, or copied back from its archive when it is missing.
IssueRestore(w, s) ==
    LET o == proc[w].op
    IN  /\ proc[w].at = "plan" /\ ~proc[w].lost
        /\ Undoing(o) /\ s \in ToRestore(o) /\ JobDrops(o) = {}
        /\ proc' = [proc EXCEPT ![w].at = "restore", ![w].slot = s]
        /\ UNCHANGED <<entries, versions, refs, ops, objs, names, usage, disk, lock, faults>>

Restorable(x) == disk[x.src] = x.ver \/ (disk[x.src] = "empty" /\ disk[x.dst] = x.ver)

Restore(w) ==
    LET x == objs[proc[w].op][proc[w].slot]
    IN  /\ proc[w].at = "restore"
        /\ \/ /\ Restorable(x)
              /\ disk' = [disk EXCEPT ![x.src] = x.ver]
              /\ Go(w, "restored")
              /\ UNCHANGED lock
           \/ /\ ~Restorable(x)
              /\ Leave(w)
              /\ UNCHANGED disk
        /\ UNCHANGED <<entries, versions, refs, ops, objs, names, usage, faults>>

RestoreFails(w) ==
    LET x == objs[proc[w].op][proc[w].slot]
    IN  /\ proc[w].at = "restore" /\ Fault
        /\ Leave(w) \/ Die(w)
        /\ \/ UNCHANGED disk
           \/ /\ disk[x.src] = "empty" /\ Restorable(x)
              /\ \E c \in {x.ver} \cup Residue : disk' = [disk EXCEPT ![x.src] = c]
        /\ UNCHANGED <<entries, versions, refs, ops, objs, names, usage>>

\* record_file_maintenance_object(source_restored): the archive is a
\* transient copy again.
RecordRestored(w) ==
    LET o == proc[w].op
        s == proc[w].slot
        x == objs[o][s]
        temp == IF x.dstGone THEN 0 ELSE Bytes[x.ver]
    IN  /\ proc[w].at = "restored" /\ Holds(w) /\ Open(o)
        /\ objs' = [objs EXCEPT ![o][s].restored = TRUE, ![o][s].temp = temp]
        /\ usage' = [usage EXCEPT !.transient = @ + temp - x.temp]
        /\ proc' = [proc EXCEPT ![w].at = "plan", ![w].slot = None]
        /\ UNCHANGED <<entries, versions, refs, ops, names, disk, lock, faults>>

\* finish_file_maintenance of an operation that was never published.
Abort(w) ==
    LET o == proc[w].op
    IN  /\ proc[w].at = "plan" /\ Holds(w) /\ Undoing(o)
        /\ PendingTarget(o) = {} /\ ToRestore(o) = {}
        /\ usage' = [usage EXCEPT !.reserved = @ - ops[o].reserved]
        /\ ops' = [ops EXCEPT ![o].phase = "failed", ![o].reserved = 0, ![o].live = FALSE]
        /\ entries' = Freed(o)
        /\ names' = Released(o)
        /\ Die(w)
        /\ UNCHANGED <<versions, refs, objs, disk, faults>>

\* Only this end of a purge also looks whether the file is in the trash.
PurgeByJob(w) ==
    LET o == proc[w].op
    IN  /\ proc[w].at = "plan" /\ Holds(w) /\ Open(o) /\ ~Undoing(o)
        /\ ops[o].kind # "history_purge" => entries[ops[o].file].state = "trashed"
        /\ Purge(o)
        /\ Die(w)
        /\ UNCHANGED <<refs, objs, disk, faults>>

-----------------------------------------------------------------------------
(* Failures, time, and the projects that refer to files *)

\* The executor finds its connection or its lease gone.
GiveUp(p) ==
    /\ Working(p) /\ ~Calling(p)
    /\ ~Holds(p) \/ CutOff(p)
    /\ Leave(p)
    /\ UNCHANGED <<entries, versions, refs, ops, objs, names, usage, disk, faults>>

\* A transaction fails: the actor lost the permission, the client left, the
\* database did not answer.
Break(p) ==
    /\ Working(p) /\ ~Calling(p) /\ Holds(p) /\ Fault
    /\ Leave(p)
    /\ UNCHANGED <<entries, versions, refs, ops, objs, names, usage, disk>>

\* handoff_file_operation_failure of a request also takes a lease that has
\* run out, record_file_maintenance_error does not.
Handoff(p) ==
    LET o == proc[p].op
    IN  /\ proc[p].at = "handoff"
        /\ IF Unsettled(o) /\ ops[o].token = p /\ (p \in Ops \/ ops[o].live)
             THEN ops' = [ops EXCEPT ![o].error = TRUE, ![o].live = FALSE]
             ELSE UNCHANGED ops
        /\ Die(p)
        /\ UNCHANGED <<entries, versions, refs, objs, names, usage, disk, faults>>

Crash(p) ==
    /\ proc[p].at # "idle" /\ ~Calling(p) /\ Fault
    /\ Die(p)
    /\ UNCHANGED <<entries, versions, refs, ops, objs, names, usage, disk>>

\* The connection that holds the session lock breaks; the executor goes on
\* until it notices.  One call never sees both the lock and the lease go: cut
\* off from the one it ends under the other.
LoseLock(p) ==
    /\ lock = p /\ Fault
    /\ Calling(p) => ops[proc[p].op].live
    /\ lock' = None
    /\ UNCHANGED <<entries, versions, refs, ops, objs, names, usage, disk, proc>>

\* The lease runs out on an executor that still works, within a call only
\* while the lock is held.
Stall(o) ==
    /\ Unsettled(o) /\ ops[o].live /\ Engaged(ops[o].token, o) /\ Fault
    /\ Calling(ops[o].token) => lock = ops[o].token
    /\ ops' = [ops EXCEPT ![o].live = FALSE]
    /\ proc' = [proc EXCEPT ![ops[o].token].lost = TRUE]
    /\ UNCHANGED <<entries, versions, refs, objs, names, usage, disk, lock>>

\* The lease runs out on an executor that is gone.
Lapse(o) ==
    /\ Unsettled(o) /\ ops[o].live /\ ~Engaged(ops[o].token, o)
    /\ ops' = [ops EXCEPT ![o].live = FALSE]
    /\ UNCHANGED <<entries, versions, refs, objs, names, usage, disk, lock, proc, faults>>

\* expires_at, a day after the request.
Deadline(o) ==
    /\ Open(o) /\ ~ops[o].live /\ ~ops[o].due /\ \A p \in Processes : proc[p].op # o
    /\ ops' = [ops EXCEPT ![o].due = TRUE]
    /\ UNCHANGED <<entries, versions, refs, objs, names, usage, disk, lock, proc, faults>>

\* Mutant: a file in the middle of an operation may be referred to.
ReferBusy(v) ==
    /\ v \notin refs /\ versions[v].state = "live"
    /\ entries[versions[v].file].state = "active"
    /\ refs' = refs \cup {v}
    /\ UNCHANGED <<entries, versions, ops, objs, names, usage, disk, lock, proc, faults>>

\* replaceReferences: a version of an active file that is not busy.
Refer(v) ==
    /\ v \notin refs /\ versions[v].state = "live"
    /\ entries[versions[v].file].state = "active" /\ entries[versions[v].file].busy = None
    /\ refs' = refs \cup {v}
    /\ UNCHANGED <<entries, versions, ops, objs, names, usage, disk, lock, proc, faults>>

Unrefer(v) ==
    /\ v \in refs
    /\ refs' = refs \ {v}
    /\ UNCHANGED <<entries, versions, ops, objs, names, usage, disk, lock, proc, faults>>

-----------------------------------------------------------------------------
(* The specification *)

Init ==
    /\ entries = [f \in Ids |-> IF f = First
          THEN [state |-> "active", path |-> Home, current |-> First, busy |-> None, rev |-> 1]
          ELSE NoEntry]
    /\ versions = [v \in Ids |-> IF v = First
          THEN [state |-> "live", file |-> First, loc |-> InFiles(Home)] ELSE NoVersion]
    /\ refs = {}
    /\ ops = [o \in Ops |-> NoOp]
    /\ objs = [o \in Ops |-> [s \in Slots |-> NoObject]]
    /\ names = [p \in Paths |-> None]
    /\ usage = [used |-> Bytes[First], reserved |-> 0, transient |-> 0]
    /\ disk = [l \in Locations |-> IF l = InFiles(Home) THEN First ELSE "empty"]
    /\ lock = None
    /\ proc = [p \in Processes |-> Idle]
    /\ faults = 0

\* What an executor does by itself once it has begun.
Advance(p) ==
    \/ (\E l \in Locations : IssueDrop(p, l)) \/ Drop(p) \/ RecordDrop(p)
    \/ Finish(p) \/ GiveUp(p) \/ Handoff(p)

ServeRequest(o) ==
    \/ Prepare(o) \/ (\E s \in Slots : IssueMake(o, s)) \/ Make(o) \/ RecordMade(o)
    \/ Intend(o) \/ Commit(o) \/ Advance(o)

ServeJob(w) ==
    \/ (\E s \in Slots : IssueRestore(w, s)) \/ Restore(w) \/ RecordRestored(w)
    \/ Abort(w) \/ PurgeByJob(w) \/ Advance(w)

Mishap ==
    \/ \E o \in Ops : MakeFails(o) \/ Stall(o)
    \/ \E w \in Workers : RestoreFails(w)
    \/ \E p \in Processes : DropFails(p) \/ Break(p) \/ Crash(p) \/ LoseLock(p)

Next ==
    \/ \E o \in Ops : Request(o) \/ Refuse(o) \/ ServeRequest(o) \/ Lapse(o) \/ Deadline(o)
    \/ \E w \in Workers : ServeJob(w)
    \/ \E w \in Workers, o \in Ops :
          \/ Claim(w, o)
          \/ \E v \in Ids : EnlistHistory(w, o, v)
          \/ \E f \in Ids : EnlistTrash(w, o, f)
    \/ \E v \in Ids : Refer(v) \/ Unrefer(v)
    \/ Mishap

Spec == Init /\ [][Next]_vars

\* Executors that live go on, leases and terms run out, and every pass of
\* maintenance takes its candidates in turn under the physical lock.
Fairness ==
    /\ \A o \in Ops : /\ WF_vars(ServeRequest(o) \/ Refuse(o))
                      /\ WF_vars(Lapse(o) \/ Deadline(o))
                      /\ SF_vars(\E w \in Workers : Claim(w, o))
    /\ \A w \in Workers : WF_vars(ServeJob(w))

FairSpec == Spec /\ Fairness

-----------------------------------------------------------------------------
(* Properties *)

\* Every row, object and executor has its type, and no counter of the
\* organization's usage is ever driven below zero.
EntryStates == [state : {"absent", "active", "trashed", "purged"}, path : Paths \cup {None},
                current : Ids \cup {None}, busy : Ops \cup {None}, rev : Nat]
VersionStates == [state : {"unborn", "live", "purged"}, file : Ids \cup {None},
                  loc : Locations \cup {None}]
OpStates == [phase : {"none", "open", "committed", "completed", "failed"},
             kind : UserKinds \cup SystemKinds \cup {"none"}, file : Ids \cup {None},
             path : Paths \cup {None}, rev : Nat, token : Processes \cup {None},
             live : BOOLEAN, error : BOOLEAN, due : BOOLEAN, reserved : Nat]
ObjectStates == [ver : Ids \cup {None}, src : Locations \cup {None},
                 dst : Locations \cup {None}, prepared : BOOLEAN, started : BOOLEAN,
                 srcGone : BOOLEAN, restored : BOOLEAN, dstGone : BOOLEAN, temp : Nat]
ProcStates == [at : {"idle", "prepare", "plan", "make", "made", "drop", "dropped", "restore",
                     "restored", "handoff"}, op : Ops \cup {None}, slot : Slots \cup {None},
               loc : Locations \cup {None}, lost : BOOLEAN]
Contents == Ids \cup {"empty", "partial"}

RowsOK ==
    /\ entries \in [Ids -> EntryStates]
    /\ versions \in [Ids -> VersionStates]
    /\ refs \subseteq Ids
    /\ ops \in [Ops -> OpStates]
    /\ objs \in [Ops -> [Slots -> ObjectStates]]
    /\ names \in [Paths -> Ops \cup {None}]
    /\ disk \in [Locations -> Contents]
    /\ lock \in Processes \cup {None}
    /\ proc \in [Processes -> ProcStates]
    /\ faults \in Nat

TypeOK == RowsOK /\ usage \in [used : Nat, reserved : Nat, transient : Nat]

\* No version loses its content, whatever fails between two steps: it lies at
\* the address its row names, or its file is busy with an overwrite whose
\* archive holds it, or with a purge of it.  A file that is not busy is intact.
ContentKept ==
    \A v \in Ids : versions[v].state = "live" =>
        \/ disk[versions[v].loc] = v
        \/ \E o \in Ops :
              /\ Unsettled(o) /\ entries[versions[v].file].busy = o /\ Present(o, v)
              /\ \/ Purging(o)
                 \/ objs[o][v].started /\ disk[InHistory(v)] = v

\* Nothing is left behind in the storage: what lies at an address belongs to
\* a version that lives or to the plan of an operation still to be settled.
NothingLeaks ==
    \A l \in Locations : disk[l] # "empty" =>
        \/ \E v \in Ids : versions[v].state = "live" /\ versions[v].loc = l
        \/ \E o \in Ops, s \in Slots : Unsettled(o) /\ l \in {objs[o][s].src, objs[o][s].dst}

\* The organization's counters are the sums they stand for, after any mix of
\* request and maintenance transactions, and never exceed the quota.
QuotaExact ==
    /\ usage.used = SumFunctionOnSet(Bytes, {v \in Ids : versions[v].state = "live"})
    /\ usage.reserved =
          SumFunctionOnSet([o \in Ops |-> ops[o].reserved], {o \in Ops : Unsettled(o)})
    /\ usage.transient =
          SumFunctionOnSet([x \in Ops \X Slots |-> objs[x[1]][x[2]].temp],
                           {o \in Ops : Unsettled(o)} \X Slots)
    /\ usage.used + usage.reserved =< Quota

\* Two executors are never inside storage calls that meet at an address one
\* of them writes, also when a lock or a lease was lost on the way.
Writes(p) ==
    IF ~Calling(p) THEN {}
    ELSE LET x == objs[proc[p].op][proc[p].slot]
         IN  CASE proc[p].at = "drop" -> {proc[p].loc}
               [] proc[p].at = "make" -> {x.dst}
               [] OTHER -> {x.src}
Reads(p) ==
    CASE proc[p].at = "make" -> {objs[proc[p].op][proc[p].slot].src} \ {None}
      [] proc[p].at = "restore" -> {objs[proc[p].op][proc[p].slot].dst}
      [] OTHER -> {}
CallsApart ==
    \A p, q \in Processes : p # q => Writes(p) \cap (Writes(q) \cup Reads(q)) = {}

\* A version some project refers to is live in an active file, and no
\* purge, of a member or of maintenance, has begun on it.
ReferencedStays ==
    \A v \in refs :
        /\ versions[v].state = "live" /\ entries[versions[v].file].state = "active"
        /\ \A o \in Ops : Unsettled(o) /\ Purging(o) => ~Present(o, v)

\* Every operation admitted is settled, and what a settled operation held,
\* the file and the names, is free again.
IsSettled(o) ==
    /\ Settled(o)
    /\ \A f \in Ids : entries[f].busy # o
    /\ \A p \in Paths : names[p] # o
EveryOperationSettles == \A o \in Ops : Unsettled(o) ~> IsSettled(o)

\* ... unless a restoration was cut off while it wrote in place: its residue
\* stands at the address of the source and no deletion left in the plan
\* removes it, as one does that of a replacement.
ResidueAtSource(o) ==
    \E s \in ToRestore(o) :
        disk[objs[o][s].src] = "partial" /\ objs[o][s].src \notin Targets(o, PendingTarget(o))
SettlesUnlessResidue ==
    \A o \in Ops : Unsettled(o) ~> (IsSettled(o) \/ ResidueAtSource(o))

\* The operations implement FileLibrary: however their transactions, calls
\* and failures interleave with each other and with maintenance, each takes
\* effect at its commit, once, as a whole and against the revision its member
\* had read, or has no effect.
Outcome(o) ==
    CASE Open(o) -> "pending"
      [] Committed(o) \/ ops[o].phase = "completed" -> "done"
      [] ops[o].phase = "failed" -> "refused"
      [] OTHER -> "none"
Files == [f \in Ids |-> [state |-> entries[f].state, path |-> entries[f].path,
                         current |-> entries[f].current, rev |-> entries[f].rev]]
Copies == [v \in Ids |-> [state |-> versions[v].state, file |-> versions[v].file]]
Asked == [o \in Ops |-> [kind |-> ops[o].kind, file |-> ops[o].file,
                         path |-> ops[o].path, rev |-> ops[o].rev]]
Outcomes == [o \in Ops |-> Outcome(o)]
Library == INSTANCE FileLibrary
    WITH files <- Files, copies <- Copies, asked <- Asked, outcome <- Outcomes
ImplementsLibrary == Library!Spec
=============================================================================
