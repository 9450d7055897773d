----------------------------- MODULE AtomicWrite -----------------------------
(***************************************************************************)
(* What a multi-file write promises: "A failure before the commit point,   *)
(* including the process being killed, leaves the previous state".  A      *)
(* requested batch of files is installed as a whole, in one step, or not   *)
(* at all.                                                                 *)
(***************************************************************************)
CONSTANTS
    File,    \* the files a batch may replace
    Val,     \* their contents
    NoReq    \* no batch is being written

VARIABLES
    view,    \* the contents in effect
    req      \* the batch being written: a function from some files, or NoReq

vars == <<view, req>>

Batch == UNION {[S -> Val] : S \in (SUBSET File) \ {{}}}

\* The contents after batch b is installed over v.
Overlay(v, b) == [f \in File |-> IF f \in DOMAIN b THEN b[f] ELSE v[f]]

Init ==
    /\ view \in [File -> Val]
    /\ req = NoReq

Request ==
    /\ req = NoReq
    /\ req' \in Batch
    /\ UNCHANGED view

Commit ==
    /\ req # NoReq
    /\ view' = Overlay(view, req)
    /\ req' = NoReq

Abort ==
    /\ req # NoReq
    /\ req' = NoReq
    /\ UNCHANGED view

Next == Request \/ Commit \/ Abort

Spec == Init /\ [][Next]_vars
=============================================================================
