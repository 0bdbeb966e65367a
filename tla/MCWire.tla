------------------------------- MODULE MCWire -------------------------------
(* Wire at the boundaries of every field, for TLC. *)
EXTENDS Wire

TextTypes == {"Open", "PasteBegin", "DownloadBegin", "KillSession"}

\* The longest text a frame of each type may carry.
MaxText == [t \in Types |-> MaxLen[t] - FixedLen[t]]

\* Every type with a text of no length, of one, of the longest and of one
\* more (two, for names, so that a two-byte character straddles the limit);
\* with a value at, and one over, its maximum.
Values(t) == IF t \in {"PasteBegin", "DownloadBegin"} THEN {0, MaxTotal, MaxTotal + 1}
             ELSE {0, MaxValue[t], MaxValue[t] + 1}
BoundaryBodies ==
  {Body("Unknown", 0, 0, Empty)} \cup
  UNION {{Body(t, v, g, Text(n, k)) :
            v \in Values(t),
            g \in IF t = "PasteBegin" THEN {0, 1} ELSE {0},
            n \in {0, 1, MaxText[t], MaxText[t] + 1, MaxText[t] + 2},
            k \in IF t \in TextTypes THEN Kinds ELSE {"raw"}} : t \in Types}

BoundarySids == {Text(n, k) : n \in {1, 64, 65}, k \in {"id", "ascii", "wide"}}

BoundaryReads == {0, 1, MAX_DATA_LEN, MAX_DATA_LEN + 1}
=============================================================================
