------------------------------ MODULE MCLedger ------------------------------
(* A subject created by node a.  Its certified events end in a transfer to *)
(* this node, in its end of life, in an end of life after a transfer, or   *)
(* are two transfers.                                                      *)
(* Node b may invoke facts.                                                *)
EXTENDS Ledger, Sequences

Event(id, req, sn, prev, kind, signer, key) ==
  [id |-> id, req |-> req, sn |-> sn, prev |-> prev, kind |-> kind,
   signer |-> signer, key |-> key, on |-> "-", new |-> "-",
   byOwner |-> TRUE, approved |-> TRUE]
Fact(id, req, sn, prev, signer, owner, on, new, approved) ==
  [Event(id, req, sn, prev, "fact", signer, "-")
     EXCEPT !.on = on, !.new = new, !.byOwner = (signer = owner),
            !.approved = approved]

Create == Event("g", "qg", 0, "none", "create", "a", "ka")
Chain(es) == [n \in 0 .. Len(es) |-> IF n = 0 THEN Create ELSE es[n]]

MCChains ==
  {Chain(<<Fact("f1", "q1", 1, "g", "b", "a", "s0", "s1", TRUE),
           Fact("f2", "q2", 2, "f1", "a", "a", "s1", "s2", FALSE),
           Event("t3", "q3", 3, "f2", "transfer", "b", "kb"),
           Event("t4", "q4", 4, "t3", "transfer", "us", "ku")>>),
   Chain(<<Fact("r1", "q1", 1, "g", "b", "a", "s0", "s1", FALSE),
           Fact("r2", "q2", 2, "r1", "a", "a", "s0", "s2", TRUE),
           Event("c3", "q5", 3, "r2", "eol", "a", "-")>>),
   Chain(<<Event("t1", "q6", 1, "g", "transfer", "b", "kb"),
           Fact("f3", "q2", 2, "t1", "b", "b", "s0", "s1", TRUE),
           Event("c4", "q7", 3, "f3", "eol", "b", "-")>>),
   Chain(<<Event("t1", "q6", 1, "g", "transfer", "b", "kb"),
           Event("t2", "q11", 2, "t1", "transfer", "us", "ku")>>)}

MCOthers ==
  {Event("h", "qh", 0, "none", "create", "c", "ka"),
   Fact("x1", "q1", 1, "g", "b", "a", "s0", "s2", TRUE),
   Event("y1", "q8", 1, "g", "transfer", "us", "kz"),
   Fact("x2", "q9", 2, "x1", "b", "a", "s2", "s1", TRUE),
   Fact("y2", "q2", 2, "f1", "a", "a", "s1", "s2", TRUE)}
=============================================================================
