------------------------------- MODULE Lease -------------------------------
(***************************************************************************)
(* What a session promises about its control lease, without the locks, the *)
(* tasks and the PTY that module Session implements it with: browsers join *)
(* and leave, each reports the size of its terminal, at most one member    *)
(* holds the lease, and the terminal has the size the holder reported      *)
(* last.  A member that leaves takes its lease with it, but the geometry   *)
(* stays; a free lease goes to whoever joins next.                         *)
(***************************************************************************)
CONSTANTS Streams, Sizes, None, NoSize

VARIABLES
  holder,     \* the member in control, or None
  reported,   \* the size each member reported last; NoSize: not a member
  geometry    \* the size the session runs its terminal at

leaseVars == <<holder, reported, geometry>>

Member(s) == reported[s] # NoSize

Init ==
  /\ holder = None
  /\ reported = [s \in Streams |-> NoSize]
  /\ geometry \in Sizes

\* A newcomer takes a free lease; it never takes one that is held.
Join(s, size) ==
  /\ ~Member(s)
  /\ reported' = [reported EXCEPT ![s] = size]
  /\ \/ holder = None /\ holder' = s /\ geometry' = size
     \/ holder # None /\ UNCHANGED <<holder, geometry>>

Leave(s) ==
  /\ Member(s)
  /\ reported' = [reported EXCEPT ![s] = NoSize]
  /\ holder' = IF holder = s THEN None ELSE holder
  /\ UNCHANGED geometry

\* Acquire and take: the geometry changes hands with the lease.
Grant(s) ==
  /\ Member(s)
  /\ holder' = s
  /\ geometry' = reported[s]
  /\ UNCHANGED reported

\* Only the holder can give the lease up.
Release(s) ==
  /\ holder = s
  /\ holder' = None
  /\ UNCHANGED <<reported, geometry>>

\* A spectator's report is remembered, the holder's is applied.
Report(s, size) ==
  /\ Member(s)
  /\ reported' = [reported EXCEPT ![s] = size]
  /\ geometry' = IF holder = s THEN size ELSE geometry
  /\ UNCHANGED holder

Next ==
  \E s \in Streams :
    \/ Leave(s) \/ Grant(s) \/ Release(s)
    \/ \E size \in Sizes : Join(s, size) \/ Report(s, size)

Spec == Init /\ [][Next]_leaseVars
=============================================================================
