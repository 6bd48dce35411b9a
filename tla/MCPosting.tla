----------------------------- MODULE MCPosting ------------------------------
(* Posting for TLC: two messages of subscribers, an owner's answer to the     *)
(* request to edit the first of them, and a message that is a loop.           *)
EXTENDS Posting, TLC

CONSTANTS a, b, c, d, i1, i2, i3, s1, s2, s3

Found(id, sum, roles, faults, inner) ==
  [id |-> id, sum |-> sum, roles |-> roles, faults |-> faults, inner |-> inner]

MCAttr ==
  (a :> Found(i1, s1, {"subscriber"}, {}, None)) @@
  (b :> Found(i2, s2, {"subscriber"}, {}, None)) @@
  (c :> Found(i3, s3, {"owner"}, {}, a)) @@
  (d :> Found(None, s2, {}, {"looped"}, None))

MCSettings == {{"moderated"}, {"moderated", "edit"}, {"owners", "confirm"}}

\* A list that only owners may send to rejects what arrives, which leaves room for
\* more of it than where messages are held.
MCMail == [o \in MCSettings |-> IF "moderated" \in o THEN 2 ELSE 4]

MCSymmetry == Permutations(Listprocs)
=============================================================================
