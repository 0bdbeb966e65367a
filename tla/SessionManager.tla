--------------------------- MODULE SessionManager ---------------------------
(***************************************************************************)
(* The agent's registry of sessions (SessionManager in                     *)
(* agent/src/session.rs), the idle/exit sweeper that agent/src/main.rs     *)
(* runs every minute, and the KillSession handler of run_session.          *)
(*                                                                         *)
(* A session object is a number: the n-th one spawned.  The map lock is    *)
(* held over a whole lookup_or_spawn and over the sweeper's choice of      *)
(* victims, but released before each victim is removed and again before    *)
(* it is killed, so those are separate steps.  What a stream does inside   *)
(* its session is module Session; here it is attached or not, and it is    *)
(* attached exactly while its task runs (Session!NoStaleAttachment).       *)
(***************************************************************************)
EXTENDS Naturals, FiniteSets

CONSTANTS
  Ids,          \* session ids browsers ask for
  Tasks,        \* per-stream tasks, one per Open frame
  MaxSessions,  \* limits.max_sessions
  MaxSpawns,    \* bound: sessions ever spawned
  MaxKills      \* bound: KillSession requests

ASSUME ManagerAssumption ==
  /\ IsFiniteSet(Ids)
  /\ MaxSessions \in Nat /\ MaxSpawns \in Nat /\ MaxKills \in Nat

VARIABLES
  map,        \* SessionManager.map: the session under each id, 0 if none
  spawned,    \* number of sessions spawned so far
  idOf,       \* Session.id of each session spawned
  running,    \* sessions whose shell process is alive
  exited,     \* sessions whose reader task has set SessionInner.exited
  idle,       \* sessions with last_attached_at older than idle_ttl
  pc,         \* where each stream task is
  sess,       \* session the task looked up, 0 if none
  gc,         \* gc_pass: "wait" for the tick, "sweep" its list, "kill" one
  drops,      \* gc_pass: to_drop
  victim,     \* gc_pass: session removed and about to be killed
  killing,    \* sessions KillSession removed and is about to kill
  kills       \* KillSession requests so far (bound)

sessions == <<spawned, idOf, running, exited>>
tasks    == <<pc, sess>>
sweeper  == <<gc, drops, victim>>
killer   == <<killing, kills>>
managerVars == <<map, sessions, idle, tasks, sweeper, killer>>

Sessions == 1..MaxSpawns
Mapped   == {id \in Ids : map[id] # 0}

\* SessionInner.attached, by the tasks that are in it.
AttachedTo(i) == {t \in Tasks : pc[t] = "attached" /\ sess[t] = i}

-----------------------------------------------------------------------------
ManagerInit ==
  /\ map = [id \in Ids |-> 0]
  /\ spawned = 0
  /\ idOf = [i \in Sessions |-> 0]
  /\ running = {}
  /\ exited = {}
  /\ idle = {}
  /\ pc = [t \in Tasks |-> "new"]
  /\ sess = [t \in Tasks |-> 0]
  /\ gc = "wait"
  /\ drops = {}
  /\ victim = 0
  /\ killing = {}
  /\ kills = 0

-----------------------------------------------------------------------------
(* lookup_or_spawn, under the map lock, and the attachment that follows it *)
(* after the lock is gone.                                                 *)

\* The id has a session that has not exited: attach to it.
LookupLive(t, id) ==
  /\ pc[t] = "new"
  /\ map[id] # 0 /\ map[id] \notin exited
  /\ pc' = [pc EXCEPT ![t] = "found"]
  /\ sess' = [sess EXCEPT ![t] = map[id]]
  /\ UNCHANGED <<map, sessions, idle, sweeper, killer>>

\* The id has no session, or a stale one that is dropped before the cap is
\* checked and stays dropped if the cap refuses the new one.
Vacant(t, id) == pc[t] = "new" /\ (map[id] = 0 \/ map[id] \in exited)

\* Mutant of BelowCap: the check lets one session too many in.
BelowCapOffByOne(id) == Cardinality(Mapped \ {id}) <= MaxSessions

BelowCap(id) == Cardinality(Mapped \ {id}) < MaxSessions

LookupSpawn(t, id) ==
  /\ Vacant(t, id) /\ BelowCap(id)
  /\ spawned < MaxSpawns
  /\ spawned' = spawned + 1
  /\ idOf' = [idOf EXCEPT ![spawned + 1] = id]
  /\ running' = running \cup {spawned + 1}
  /\ map' = [map EXCEPT ![id] = spawned + 1]
  /\ pc' = [pc EXCEPT ![t] = "found"]
  /\ sess' = [sess EXCEPT ![t] = spawned + 1]
  /\ UNCHANGED <<exited, idle, sweeper, killer>>

\* At the cap, or Session::spawn failed: the stream is refused and closed.
LookupRefused(t, id) ==
  /\ Vacant(t, id)
  /\ map' = [map EXCEPT ![id] = 0]
  /\ pc' = [pc EXCEPT ![t] = "done"]
  /\ UNCHANGED <<sessions, idle, sess, sweeper, killer>>

\* Session::attach; the lookup's map lock was released before it.
Attach(t) ==
  /\ pc[t] = "found"
  /\ pc' = [pc EXCEPT ![t] = "attached"]
  /\ idle' = idle \ {sess[t]}
  /\ UNCHANGED <<map, sessions, sess, sweeper, killer>>

Detach(t) ==
  /\ pc[t] = "attached"
  /\ pc' = [pc EXCEPT ![t] = "done"]
  /\ idle' = idle \ {sess[t]}
  /\ UNCHANGED <<map, sessions, sess, sweeper, killer>>

-----------------------------------------------------------------------------
(* The shells and the clock.                                               *)

\* The shell exits by itself.
ShellExits(i) ==
  /\ i \in running
  /\ running' = running \ {i}
  /\ UNCHANGED <<map, spawned, idOf, exited, idle, tasks, sweeper, killer>>

\* Its reader task notices the end of the PTY's output.
MarkExited(i) ==
  /\ i <= spawned /\ i \notin running /\ i \notin exited
  /\ exited' = exited \cup {i}
  /\ UNCHANGED <<map, spawned, idOf, running, idle, tasks, sweeper, killer>>

\* idle_ttl passes since the last attach or detach.  It is hours, the gap
\* between a task's lookup and its attach is not, so it never ends in that gap.
TtlElapses(i) ==
  /\ i <= spawned /\ i \notin idle
  /\ \A t \in Tasks : ~(pc[t] = "found" /\ sess[t] = i)
  /\ idle' = idle \cup {i}
  /\ UNCHANGED <<map, sessions, tasks, sweeper, killer>>

-----------------------------------------------------------------------------
(* gc_pass.                                                                *)

\* Mutant of Collectable: only idle sessions are swept.
CollectableIdleOnly(i) == AttachedTo(i) = {} /\ i \in idle

Collectable(i) == i \in exited \/ (AttachedTo(i) = {} /\ i \in idle)

\* Under the map lock: list the victims.
GcCollect ==
  /\ gc = "wait"
  /\ drops' = {i \in {map[id] : id \in Mapped} : Collectable(i)}
  /\ gc' = IF drops' = {} THEN "wait" ELSE "sweep"
  /\ UNCHANGED <<map, sessions, idle, tasks, victim, killer>>

\* Mutant of GcRemove: the entry stays until the shell is dead.
GcRemoveLate(i) ==
  /\ gc = "sweep" /\ i \in drops
  /\ drops' = drops \ {i}
  /\ victim' = i
  /\ gc' = "kill"
  /\ UNCHANGED <<map, sessions, idle, tasks, killer>>

\* Under the map lock again: remove the victim's id, whatever is there now.
GcRemove(i) ==
  /\ gc = "sweep" /\ i \in drops
  /\ map' = [map EXCEPT ![idOf[i]] = 0]
  /\ drops' = drops \ {i}
  /\ victim' = i
  /\ gc' = "kill"
  /\ UNCHANGED <<sessions, idle, tasks, killer>>

\* Without the lock: kill it.
GcKill ==
  /\ gc = "kill"
  /\ running' = running \ {victim}
  /\ victim' = 0
  /\ gc' = IF drops = {} THEN "wait" ELSE "sweep"
  /\ UNCHANGED <<map, spawned, idOf, exited, idle, tasks, drops, killer>>

-----------------------------------------------------------------------------
(* KillSession, in a task of its own.                                      *)

KillRemove(id) ==
  /\ kills < MaxKills
  /\ kills' = kills + 1
  /\ map[id] # 0
  /\ killing' = killing \cup {map[id]}
  /\ map' = [map EXCEPT ![id] = 0]
  /\ UNCHANGED <<sessions, idle, tasks, sweeper>>

KillShell(i) ==
  /\ i \in killing
  /\ killing' = killing \ {i}
  /\ running' = running \ {i}
  /\ UNCHANGED <<map, spawned, idOf, exited, idle, tasks, sweeper, kills>>

-----------------------------------------------------------------------------
SweeperStep == GcCollect \/ (\E i \in Sessions : GcRemove(i)) \/ GcKill

ManagerNext ==
  \/ \E t \in Tasks :
       \/ \E id \in Ids : LookupLive(t, id) \/ LookupSpawn(t, id) \/ LookupRefused(t, id)
       \/ Attach(t) \/ Detach(t)
  \/ \E i \in Sessions : ShellExits(i) \/ MarkExited(i) \/ TtlElapses(i) \/ KillShell(i)
  \/ \E id \in Ids : KillRemove(id)
  \/ SweeperStep

\* The sweeper ticks for ever; the reader task of a dead shell gets to run.
ManagerFairness ==
  /\ WF_managerVars(SweeperStep)
  /\ \A i \in Sessions : WF_managerVars(MarkExited(i)) /\ WF_managerVars(KillShell(i))

ManagerSpec     == ManagerInit /\ [][ManagerNext]_managerVars
ManagerFairSpec == ManagerSpec /\ ManagerFairness

-----------------------------------------------------------------------------
(* Properties.                                                             *)

\* Every session named anywhere has been spawned, and the sweeper holds a
\* victim exactly while it is about to kill it (gc_pass).
TypeOK ==
  /\ map \in [Ids -> 0..spawned]
  /\ spawned \in 0..MaxSpawns
  /\ idOf \in [Sessions -> Ids \cup {0}]
  /\ \A i \in 1..spawned : idOf[i] \in Ids
  /\ running \subseteq 1..spawned
  /\ exited \subseteq 1..spawned
  /\ idle \subseteq 1..spawned
  /\ pc \in [Tasks -> {"new", "found", "attached", "done"}]
  /\ sess \in [Tasks -> 0..spawned]
  /\ gc \in {"wait", "sweep", "kill"}
  /\ drops \subseteq 1..spawned
  /\ victim \in 0..spawned
  /\ (victim # 0) <=> (gc = "kill")
  /\ killing \subseteq 1..spawned
  /\ kills \in 0..MaxKills

\* Every session is registered under its own id.
MapById == \A id \in Ids : map[id] # 0 => idOf[map[id]] = id

\* The registry never holds more than max_sessions sessions, across lookups
\* that replace an exited session, sweeps and kills in any order.
MapCapped == Cardinality(Mapped) <= MaxSessions

\* A session that the sweeper or KillSession is about to kill is no longer in
\* the registry: no new stream can be handed a shell that is about to die.
DoomedUnmapped ==
  \A id \in Ids : map[id] # 0 => map[id] # victim /\ map[id] \notin killing

\* An exited session leaves the registry, and so stops counting against
\* max_sessions, even if nobody asks for its id again.
ExitedCollected ==
  \A id \in Ids, i \in Sessions :
    (i \in exited /\ map[id] = i) ~> map[id] # i

Settled == gc = "wait" /\ killing = {}

\* What main.rs says the persistent manager is for: no live shell is left
\* "unreachable and un-GC'd".  Once sweeps and kills are through, every
\* running shell is the session registered under its id.
NoOrphanShell ==
  Settled => \A i \in running : map[idOf[i]] = i
=============================================================================
