----------------------------- MODULE LispService -----------------------------
(***************************************************************************)
(* What the caller of the library sees: a call of mlisj_eval takes memory  *)
(* and gives all of it back before it returns a reply.  The buffer dest is *)
(* written exactly in the calls that succeed.  No call leaves anything to  *)
(* the next one.                                                           *)
(***************************************************************************)
CONSTANTS Blocks, Codes, OK, Pending

VARIABLES busy, heap, reply

vars == <<busy, heap, reply>>

Replies == {r \in [code : Codes, written : BOOLEAN] : r.written <=> r.code = OK}

Init == busy = FALSE /\ heap = {} /\ reply \in Replies

Call == ~ busy /\ busy' = TRUE /\ reply' = Pending /\ UNCHANGED heap

Allocate == busy /\ heap' \in SUBSET Blocks /\ UNCHANGED <<busy, reply>>

Return == busy /\ busy' = FALSE /\ heap' = {} /\ reply' \in Replies

Next == Call \/ Allocate \/ Return

Spec == Init /\ [][Next]_vars
=============================================================================
