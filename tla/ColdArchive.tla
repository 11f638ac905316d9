---------------------------- MODULE ColdArchive ----------------------------
(***************************************************************************)
(* What cold backup promises of every piece of telemetry, whatever fails   *)
(* and however many loops run: data enters ClickHouse, is copied to the    *)
(* bucket, and leaves ClickHouse only when it is in the bucket and only    *)
(* from the tables that may be dropped.  Nothing but ingested data reaches *)
(* the bucket and the bucket forgets nothing.                              *)
(***************************************************************************)
CONSTANTS
    Droppable,  \* data that may leave ClickHouse
    Permanent   \* data that may not

VARIABLES
    live,      \* data ClickHouse serves
    archived   \* data that can be restored from the bucket

vars == <<live, archived>>

Data == Droppable \cup Permanent

Init == live = {} /\ archived = {}

Arrive(c) ==
    /\ c \notin live \cup archived
    /\ live' = live \cup {c}
    /\ UNCHANGED archived

Archive(S) ==
    /\ S \subseteq live \cup archived
    /\ archived' = archived \cup S
    /\ UNCHANGED live

Expire(c) ==
    /\ c \in live \cap archived
    /\ live' = live \ {c}
    /\ UNCHANGED archived

Next ==
    \/ \E c \in Data : Arrive(c)
    \/ \E S \in SUBSET Data : Archive(S)
    \/ \E c \in Droppable : Expire(c)

Spec == Init /\ [][Next]_vars
=============================================================================
