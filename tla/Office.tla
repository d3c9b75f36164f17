-------------------------------- MODULE Office --------------------------------
(***************************************************************************)
(* The calls of the web process (and the uploads its worker imports, where *)
(* ItemIdentity lets them meet) on the database.  Each call has a session  *)
(* (core/database.py): it reads committed rows, keeps what it read, and    *)
(* writes the columns it changed when it commits.  What a call does between *)
(* two reads that others may change, or before its commit, is a step; a    *)
(* call that changes its mind rolls back and ends.                          *)
(***************************************************************************)
EXTENDS Naturals

CONSTANTS
    Sessions,
    MaxCalls,  \* bound on the calls
    None

VARIABLES
    call,      \* of a session: the call it runs
    calls      \* calls begun

office == <<call, calls>>

Idle == [op |-> "none"]
Unused(table) == {x \in DOMAIN table : table[x] = None}

OfficeInit ==
    /\ call = [s \in Sessions |-> Idle]
    /\ calls = 0

At(s, op, at) == call[s].op = op /\ call[s].at = at

(* A call that is answered in one step, and the first step of a longer one. *)
Answers(s) ==
    /\ call[s] = Idle /\ calls < MaxCalls
    /\ calls' = calls + 1
    /\ UNCHANGED call

Begins(s, c) ==
    /\ call[s] = Idle /\ calls < MaxCalls
    /\ calls' = calls + 1
    /\ call' = [call EXCEPT ![s] = c]

Ends(s) == call' = [call EXCEPT ![s] = Idle] /\ UNCHANGED calls
===============================================================================
