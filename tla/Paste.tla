------------------------------- MODULE Paste -------------------------------
(***************************************************************************)
(* File paste on one stream: the browser's upload loop (sendPasteFiles in  *)
(* hub/static/app.js) and the agent's handle_paste_begin, _chunk and _end  *)
(* with inject_paste_paths (agent/src/main.rs).                            *)
(*                                                                         *)
(* The inbound half of run_session_stream handles one frame at a time.     *)
(* What a handler does to the tables under one lock is one step; its file  *)
(* operations, its reject frame, the table updates after them and its PTY  *)
(* write come after awaits at which the select! may drop the handler, and  *)
(* are the steps of `work'.                                                *)
(***************************************************************************)
EXTENDS Naturals, Sequences, FiniteSets

CONSTANTS
  Groups,      \* paste actions of the tab
  GroupSize,   \* files in each of them
  SizeOf,      \* size of each file, in chunks
  None,        \* no paste
  MaxPastes,   \* limits.max_pending_pastes_per_stream
  MaxGroups,   \* limits.max_pending_groups_per_stream
  MaxBytes,    \* MAX_PASTE_TOTAL_BYTES
  WireCap,     \* bound: frames under way to the agent
  MaxFrames    \* bound: frames app.js (TRUE) or another client (FALSE) sends

Pastes == Groups \X (1..GroupSize)

ASSUME PasteAssumption ==
  /\ None \notin Pastes
  /\ GroupSize \in Nat \ {0} /\ SizeOf \in [Pastes -> Nat]
  /\ MaxPastes \in Nat /\ MaxGroups \in Nat /\ MaxBytes \in Nat
  /\ WireCap \in Nat /\ MaxFrames \in [BOOLEAN -> Nat]

VARIABLES
  app,       \* the client is app.js, and not just any client of the wire protocol
  cl,        \* client: each file is "todo", "sending" or "over"
  offset,    \* client: chunks of the file sent
  aborted,   \* client: _abortedGroups and, by group, _abortedPastes
  frames,    \* client: frames sent (bound)
  wire,      \* frames on their way, in order (the lo halves)
  rejects,   \* PasteReject frames on their way back
  pend,      \* agent: keys of pending_pastes
  written,   \* agent: PendingPaste.written
  groups,    \* agent: keys of pending_groups
  finished,  \* agent: PendingGroup.finished
  declared,  \* agent: PendingGroup.total_declared
  file,      \* each temp file: "none", "disk", "gone", "typed", "kept"
  work,      \* what the handler in progress has left to do
  control,   \* this stream holds the control lease
  stream     \* "up" or "done"

client == <<app, cl, offset, aborted, frames>>
tables == <<pend, written, groups, finished, declared>>
env    == <<control, stream>>
vars   == <<client, wire, rejects, tables, file, work, env>>

GroupOf(p)  == p[1]
FilesOf(g)  == {p \in Pastes : GroupOf(p) = g}
Frame(t, p) == [type |-> t, paste |-> p]

Work(op, files, reject, group) ==
  [op |-> op, files |-> files, reject |-> reject, group |-> group]
Idle == Work("idle", {}, None, {})

\* Remove files, send a reject if there is one, then turn to a group if there
\* is one.
Unlink(files, reject, group) == Work("unlink", files, reject, group)

Init ==
  /\ app \in BOOLEAN
  /\ cl = [p \in Pastes |-> "todo"]
  /\ offset = [p \in Pastes |-> 0]
  /\ aborted = {} /\ frames = 0
  /\ wire = <<>> /\ rejects = {}
  /\ pend = {} /\ written = [p \in Pastes |-> 0]
  /\ groups = {}
  /\ finished = [g \in Groups |-> {}]
  /\ declared = [g \in Groups |-> 0]
  /\ file = [p \in Pastes |-> "none"]
  /\ work = Idle
  /\ control = TRUE /\ stream = "up"

-----------------------------------------------------------------------------
(* The client.                                                             *)

Send(t, p) ==
  /\ stream = "up" /\ Len(wire) < WireCap /\ frames < MaxFrames[app]
  /\ wire' = Append(wire, Frame(t, p))
  /\ frames' = frames + 1

\* Mutant of InTurn: app.js as its comment has it, all files at once.
InTurnParallel(p) == GroupOf(p) \notin aborted

\* sendPasteFiles sends the files of an action one after the other and stops
\* at the first whose group it knows to be rejected; sendPasteFile's result
\* does not stop it.
InTurn(p) ==
  /\ GroupOf(p) \notin aborted
  /\ \A q \in FilesOf(GroupOf(p)) : q[2] < p[2] => cl[q] = "over"

SendBegin(p) ==
  /\ IF app THEN cl[p] = "todo" /\ InTurn(p) ELSE cl[p] # "over"
  /\ Send("begin", p)
  /\ cl' = [cl EXCEPT ![p] = "sending"]
  /\ UNCHANGED <<app, offset, aborted, rejects, tables, file, work, env>>

SendChunk(p) ==
  /\ cl[p] = "sending"
  /\ app => offset[p] < SizeOf[p] /\ GroupOf(p) \notin aborted
  /\ Send("chunk", p)
  /\ offset' = [offset EXCEPT ![p] = @ + 1]
  /\ UNCHANGED <<app, cl, aborted, rejects, tables, file, work, env>>

\* All chunks sent: PasteEnd(OK).
SendEnd(p) ==
  /\ cl[p] = "sending"
  /\ app => offset[p] = SizeOf[p]
  /\ Send("end", p)
  /\ cl' = [cl EXCEPT ![p] = "over"]
  /\ UNCHANGED <<app, offset, aborted, rejects, tables, file, work, env>>

\* Reading the blob threw: PasteEnd(CANCEL).
SendCancel(p) ==
  /\ cl[p] = "sending"
  /\ Send("cancel", p)
  /\ cl' = [cl EXCEPT ![p] = "over"]
  /\ UNCHANGED <<app, offset, aborted, rejects, tables, file, work, env>>

\* The chunk loop finds its paste aborted and returns.
StopSending(p) ==
  /\ cl[p] = "sending" /\ GroupOf(p) \in aborted /\ offset[p] < SizeOf[p]
  /\ cl' = [cl EXCEPT ![p] = "over"]
  /\ UNCHANGED <<app, offset, aborted, frames, wire, rejects, tables, file, work, env>>

\* A reject for a paste that is no longer in _pasteToGroup aborts nothing.
RecvReject(p) ==
  /\ p \in rejects
  /\ rejects' = rejects \ {p}
  /\ aborted' = IF cl[p] = "sending" THEN aborted \cup {GroupOf(p)} ELSE aborted
  /\ UNCHANGED <<app, cl, offset, frames, wire, tables, file, work, env>>

-----------------------------------------------------------------------------
(* The agent: table updates.                                               *)

Take(t, p) ==
  /\ stream = "up" /\ work = Idle
  /\ wire # <<>> /\ Head(wire) = Frame(t, p)
  /\ wire' = Tail(wire)

\* Mutant of Refused: the group limit is off by one.
RefusedLate(p) ==
  \/ ~control
  \/ Cardinality(pend) >= MaxPastes
  \/ p \in pend
  \/ GroupOf(p) \notin groups /\ (Cardinality(groups) > MaxGroups \/ SizeOf[p] > MaxBytes)

\* Viewer, registry full, duplicate id, too many groups, single file too big.
Refused(p) ==
  \/ ~control
  \/ Cardinality(pend) >= MaxPastes
  \/ p \in pend
  \/ GroupOf(p) \notin groups /\ (Cardinality(groups) >= MaxGroups \/ SizeOf[p] > MaxBytes)

Oversize(p) == GroupOf(p) \in groups /\ declared[GroupOf(p)] + SizeOf[p] > MaxBytes

DropGroup(g) ==
  /\ groups' = groups \ {g}
  /\ finished' = [finished EXCEPT ![g] = {}]
  /\ declared' = [declared EXCEPT ![g] = 0]

BeginRefused(p) ==
  /\ Take("begin", p) /\ Refused(p)
  /\ work' = Unlink({}, p, {})
  /\ UNCHANGED <<client, rejects, tables, file, env>>

BeginOversize(p) ==
  /\ Take("begin", p) /\ ~Refused(p) /\ Oversize(p)
  /\ work' = Unlink(finished[GroupOf(p)], p, {})
  /\ DropGroup(GroupOf(p))
  /\ UNCHANGED <<client, rejects, pend, written, file, env>>

BeginAccepted(p) ==
  /\ Take("begin", p) /\ ~Refused(p) /\ ~Oversize(p)
  /\ groups' = groups \cup {GroupOf(p)}
  /\ declared' = [declared EXCEPT ![GroupOf(p)] = @ + SizeOf[p]]
  /\ work' = Work("open", {p}, None, {})
  /\ UNCHANGED <<client, rejects, pend, written, finished, file, env>>

OpenOk(p) ==
  /\ stream = "up" /\ work = Work("open", {p}, None, {})
  /\ file' = [file EXCEPT ![p] = "disk"]
  /\ pend' = pend \cup {p}
  /\ written' = [written EXCEPT ![p] = 0]
  /\ work' = Idle
  /\ UNCHANGED <<client, wire, rejects, groups, finished, declared, env>>

\* The declared size is rolled back; the group entry stays.
OpenFails(p) ==
  /\ stream = "up" /\ work = Work("open", {p}, None, {})
  /\ declared' = [declared EXCEPT ![GroupOf(p)] = @ - SizeOf[p]]
  /\ work' = Unlink({}, p, {})
  /\ UNCHANGED <<client, wire, rejects, pend, written, groups, finished, file, env>>

\* A chunk or an end of a paste the agent does not know is ignored.
Unknown(p) ==
  /\ p \notin pend
  /\ Take("chunk", p) \/ Take("end", p) \/ Take("cancel", p)
  /\ UNCHANGED <<client, rejects, tables, file, work, env>>

ChunkOk(p) ==
  /\ Take("chunk", p) /\ p \in pend /\ written[p] < SizeOf[p]
  /\ written' = [written EXCEPT ![p] = @ + 1]
  /\ UNCHANGED <<client, rejects, pend, groups, finished, declared, file, work, env>>

\* Mutant of ChunkFails: the temp file is forgotten on disk.
ChunkFailsLeak(p) ==
  /\ Take("chunk", p) /\ p \in pend
  /\ pend' = pend \ {p}
  /\ work' = Unlink({}, p, {})
  /\ UNCHANGED <<client, rejects, written, groups, finished, declared, file, env>>

\* More bytes than declared (certain), or a failed write (possible any time).
\* The group entry and its finished siblings stay.
ChunkFails(p) ==
  /\ Take("chunk", p) /\ p \in pend
  /\ pend' = pend \ {p}
  /\ work' = Unlink({p}, p, {})
  /\ UNCHANGED <<client, rejects, written, groups, finished, declared, file, env>>

\* Cancel drops the paste, and its whole group once its file is gone.
EndCancel(p) ==
  /\ Take("cancel", p) /\ p \in pend
  /\ pend' = pend \ {p}
  /\ work' = Unlink({p}, None, {GroupOf(p)})
  /\ UNCHANGED <<client, rejects, written, groups, finished, declared, file, env>>

EndMismatch(p) ==
  /\ Take("end", p) /\ p \in pend /\ written[p] # SizeOf[p]
  /\ pend' = pend \ {p}
  /\ work' = Unlink({p}, p, {GroupOf(p)})
  /\ UNCHANGED <<client, rejects, written, groups, finished, declared, file, env>>

\* The paste leaves the pending table and its file is flushed.
EndOk(p) ==
  /\ Take("end", p) /\ p \in pend /\ written[p] = SizeOf[p]
  /\ pend' = pend \ {p}
  /\ work' = Work("flush", {p}, None, {GroupOf(p)})
  /\ UNCHANGED <<client, rejects, written, groups, finished, declared, file, env>>

-----------------------------------------------------------------------------
(* The agent: what a handler does after its table updates.                 *)

Complete(paths) == Cardinality(paths) >= GroupSize

\* Flushed, or not: stage the path.  A full group is injected, and so is a path
\* on its own if its group is gone.
Stage(p) ==
  LET g     == GroupOf(p)
      paths == finished[g] \cup {p}
  IN  /\ stream = "up" /\ work = Work("flush", {p}, None, {g})
      /\ \/ /\ g \in groups /\ ~Complete(paths)
            /\ finished' = [finished EXCEPT ![g] = paths]
            /\ work' = Idle
            /\ UNCHANGED <<groups, declared>>
         \/ /\ g \in groups /\ Complete(paths)
            /\ DropGroup(g)
            /\ work' = Work("inject", paths, None, {})
         \/ /\ g \notin groups
            /\ work' = Work("inject", {p}, None, {})
            /\ UNCHANGED <<groups, finished, declared>>
      /\ UNCHANGED <<client, wire, rejects, pend, written, file, env>>

UnlinkOne(p) ==
  /\ stream = "up" /\ work.op = "unlink" /\ p \in work.files
  /\ file' = [file EXCEPT ![p] = "gone"]
  /\ work' = [work EXCEPT !.files = @ \ {p}]
  /\ UNCHANGED <<client, wire, rejects, tables, env>>

UnlinkDone ==
  /\ stream = "up" /\ work.op = "unlink" /\ work.files = {}
  /\ rejects' = IF work.reject = None THEN rejects ELSE rejects \cup {work.reject}
  /\ work' = IF work.group = {} THEN Idle ELSE Work("ungroup", {}, None, work.group)
  /\ UNCHANGED <<client, wire, tables, file, env>>

\* The group of a paste that was cancelled or of the wrong size leaves the
\* table, and its finished files follow.
Ungroup(g) ==
  /\ stream = "up" /\ work = Work("ungroup", {}, None, {g})
  /\ DropGroup(g)
  /\ work' = Unlink(finished[g], None, {})
  /\ UNCHANGED <<client, wire, rejects, pend, written, file, env>>

\* inject_paste_paths looks at the lease once more.
InjectCheck ==
  /\ stream = "up" /\ work.op = "inject"
  /\ work' = IF control THEN [work EXCEPT !.op = "type"]
             ELSE Unlink(work.files, None, {})
  /\ UNCHANGED <<client, wire, rejects, tables, file, env>>

\* write_internal: one bracketed-paste block, or an error if the shell is gone.
TypePaths ==
  /\ stream = "up" /\ work.op = "type"
  /\ \E outcome \in {"typed", "kept"} :
       file' = [p \in Pastes |-> IF p \in work.files THEN outcome ELSE file[p]]
  /\ work' = Idle
  /\ UNCHANGED <<client, wire, rejects, tables, env>>

\* The lease is taken from the stream, or given back.
LeaseMoves ==
  /\ stream = "up"
  /\ control' = ~control
  /\ UNCHANGED <<client, wire, rejects, tables, file, work, stream>>

\* Mutant of StreamEnd: only the pending pastes are cleaned up, and not the
\* files staged in a group.
StreamEndKeepsStaged ==
  /\ stream = "up" /\ stream' = "done"
  /\ file' = [p \in Pastes |->
       IF p \in pend THEN "gone"
       ELSE IF work.op = "open" /\ p \in work.files THEN "disk" ELSE file[p]]
  /\ pend' = {} /\ groups' = {}
  /\ finished' = [g \in Groups |-> {}]
  /\ declared' = [g \in Groups |-> 0]
  /\ UNCHANGED <<client, wire, rejects, written, work, control>>

\* The select! ends, at any await of the handler, and the tables are drained.
\* What the dropped handler held in its own variables is left as it is; an
\* open under way on the blocking pool still creates its file.
StreamEnd ==
  /\ stream = "up" /\ stream' = "done"
  /\ file' = [p \in Pastes |->
       IF p \in pend \/ p \in finished[GroupOf(p)] THEN "gone"
       ELSE IF work.op = "open" /\ p \in work.files THEN "disk" ELSE file[p]]
  /\ pend' = {} /\ groups' = {}
  /\ finished' = [g \in Groups |-> {}]
  /\ declared' = [g \in Groups |-> 0]
  /\ UNCHANGED <<client, wire, rejects, written, work, control>>

-----------------------------------------------------------------------------
Client(p) ==
  \/ SendBegin(p) \/ SendChunk(p) \/ SendEnd(p) \/ SendCancel(p)
  \/ StopSending(p) \/ RecvReject(p)

Agent(p) ==
  \/ BeginRefused(p) \/ BeginOversize(p) \/ BeginAccepted(p)
  \/ OpenOk(p) \/ OpenFails(p)
  \/ Unknown(p) \/ ChunkOk(p) \/ ChunkFails(p)
  \/ EndCancel(p) \/ EndMismatch(p) \/ EndOk(p)
  \/ Stage(p) \/ UnlinkOne(p)

Next ==
  \/ \E p \in Pastes : Client(p) \/ Agent(p)
  \/ \E g \in Groups : Ungroup(g)
  \/ UnlinkDone \/ InjectCheck \/ TypePaths
  \/ LeaseMoves \/ StreamEnd

Spec == Init /\ [][Next]_vars

-----------------------------------------------------------------------------
(* Properties.                                                             *)

\* Every variable keeps its type.  At every point of every handler the two
\* registries stay within their limits, a group within the total it may
\* declare, and a paste within the size it declared.
TypeOK ==
  /\ app \in BOOLEAN
  /\ cl \in [Pastes -> {"todo", "sending", "over"}]
  /\ offset \in [Pastes -> Nat]
  /\ aborted \subseteq Groups
  /\ wire \in Seq([type : {"begin", "chunk", "end", "cancel"}, paste : Pastes])
  /\ rejects \subseteq Pastes
  /\ pend \subseteq Pastes /\ Cardinality(pend) <= MaxPastes
  /\ written \in [Pastes -> Nat] /\ \A p \in Pastes : written[p] <= SizeOf[p]
  /\ groups \subseteq Groups /\ Cardinality(groups) <= MaxGroups
  /\ finished \in [Groups -> SUBSET Pastes]
  /\ declared \in [Groups -> 0..MaxBytes]
  /\ file \in [Pastes -> {"none", "disk", "gone", "typed", "kept"}]
  /\ work.op \in {"idle", "open", "flush", "unlink", "ungroup", "inject", "type"}
  /\ work.files \subseteq Pastes /\ work.group \subseteq Groups
  /\ control \in BOOLEAN /\ stream \in {"up", "done"}

\* The paths of a paste action of app.js are typed all together or not at
\* all, whatever is cancelled, rejected or fails on the way (handle_paste_end:
\* "we'd rather inject nothing than a partial batch").
WholeGroups ==
  app => \A g \in Groups :
    LET typed == {p \in FilesOf(g) : file[p] = "typed"}
    IN  typed = {} \/ typed = FilesOf(g)

\* While the stream is up, every temp file on disk is owned by exactly one of
\* the pending table, its group's finished list and the handler in progress:
\* no error path forgets a file, none is left to be deleted twice or typed
\* after it was deleted.
DiskAccounted ==
  stream = "up" => \A p \in Pastes :
    LET owners == {o \in 1..3 : \/ o = 1 /\ p \in pend
                                \/ o = 2 /\ p \in finished[GroupOf(p)]
                                \/ o = 3 /\ p \in work.files /\ work.op # "open"}
    IN  Cardinality(owners) = IF file[p] = "disk" THEN 1 ELSE 0

\* Whatever await a stream dies at, run_session_stream's cleanup leaves at most
\* the files the one handler that the select! dropped had in its variables,
\* because it took them out of a table or was about to put them into one: every
\* file the pending and the group table still name is unlinked.
CleanupMissesOnlyDropped ==
  stream = "done" =>
    \A p \in Pastes : file[p] = "disk" => p \in work.files
=============================================================================
