----------------------------- MODULE MCDelivery -----------------------------
(* Delivery for TLC.  Four subscribers of whom three read the mail, batches of *)
(* two: one full batch, one that is not, and a subscriber who is passed over.  *)
EXTENDS Delivery

CONSTANTS f1, f2, s1, s2, s3, s4, s5, p1, p2, g1, g2

MCFiles       == {f1, f2}
MCSubscribers == <<s1, s2, s3, s4>>
MCReaders     == {s1, s3, s4, s5}

Setting(threads, files, deaths, failures, comeAndGo, filtered, peersFile, newsFile, posts) ==
  [nthreads |-> threads, posts |-> files, maxCrashes |-> deaths, maxFaults |-> failures,
   churn |-> comeAndGo, filter |-> filtered, peers |-> peersFile, news |-> newsFile,
   post |-> posts]

(* One message and two deaths, so that the recovery dies too, with newsgroups  *)
(* and a bad line among them; two messages and one death, with and without a   *)
(* peers file; a death while people come and go; and children that send then.  *)
MCSettings ==
  {Setting(1, {f1}, 2, 1, FALSE, FALSE, <<p1>>, <<NotAGroup, g1, g2>>, TRUE),
   Setting(1, {f1}, 1, 2, FALSE, TRUE, Absent, <<g1, g2>>, TRUE),
   Setting(1, MCFiles, 1, 0, FALSE, TRUE, Absent, Absent, FALSE),
   Setting(1, {f1}, 1, 0, TRUE, FALSE, Absent, Absent, FALSE),
   Setting(2, {f1}, 0, 2, TRUE, FALSE, Absent, <<g1>>, FALSE)}

=============================================================================
