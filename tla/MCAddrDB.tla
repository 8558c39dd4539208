------------------------------ MODULE MCAddrDB ------------------------------
(***************************************************************************)
(* The address manager and its file with hosts a1, a2, a3, two sources,    *)
(* each with a new bucket of its own, and one tried bucket.                *)
(***************************************************************************)
EXTENDS AddrDB, TLC

MCAddrOf == "s1" :> "a1" @@ "s2" :> "a2" @@ "s3" :> "a3"

MCNewBucket == [p \in NetAddr \X Source |-> IF p[2] = "x" THEN 1 ELSE 2]

MCTriedBucket == [s \in Service |-> 1]
=============================================================================
