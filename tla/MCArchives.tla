----------------------------- MODULE MCArchives -----------------------------
(* Archive, FileUpdates and ListConfig for TLC: what owners and the manager    *)
(* set up.  A behaviour is of one of them, and what belongs to the others      *)
(* stays as it was: Archive and FileUpdates share the lock of the archives,    *)
(* but no two of them share a file that both write.                            *)
(*                                                                             *)
(* Archive: two processes file, delete and post names of which one is a part   *)
(* of another; then the archive is made, configured and removed under them, or *)
(* made by a post at the same time; then with a death at any step.             *)
(* FileUpdates: two processes subscribe and unsubscribe addresses of which two *)
(* differ in their case, with a death or without; then two deliveries meet two *)
(* requests and two changes, with a GET that fails or a death.                 *)
(* ListConfig: two processes answer three requests of a few kinds that have to *)
(* do with each other, with a file that is written in parts or a death, and    *)
(* two requests of all kinds.                                                  *)
EXTENDS Archive, FileUpdates, ListConfig, TLC

CONSTANTS
  p1, p2, a, b, doc, a1, b1, b2, doc1, doc2, m, memo, g, u1, u2

VARIABLE part   \* which module the behaviour is of

MCPart == (a :> <<a1, b>>) @@ (b :> <<b1, b2>>) @@ (doc :> <<doc1, doc2>>)

A(requests, ops, options, names, there, dead) ==
  [requests |-> requests, ops |-> ops, options |-> options, files |-> names,
   there |-> there, deaths |-> dead]
MCSettings ==
  {A(3, {"add", "update", "delete"}, {"none"}, {a, b}, TRUE, 0),
   A(4, {"add", "update", "delete", "post"}, {"none"}, {doc}, TRUE, 0),
   A(3, {"add", "create", "modify", "remove"}, {"afd", "no-afd", "unsplit", "private"}, {doc}, FALSE, 0),
   A(2, {"create", "post"}, {"afd", "private"}, {doc}, FALSE, 0),
   A(2, Ops, {"afd", "private"}, {doc}, TRUE, 1),
   A(3, {"add", "update", "delete"}, {"none"}, {doc}, TRUE, 1)}

U(requests, who, files, changes, runs, dead, faults) ==
  [requests |-> requests, who |-> who, files |-> files, changes |-> changes,
   runs |-> runs, deaths |-> dead, faults |-> faults]
Three == {<<u1, 1>>, <<u1, 2>>, <<u2, 1>>}
Two   == {<<u1, 1>>, <<u2, 1>>}
MCScenes ==
  {U(3, Three, {memo, g, All}, 0, 0, 0, 0), U(3, Three, {memo, All}, 0, 0, 1, 0),
   U(2, Two, {memo, All}, 2, 2, 0, 1), U(2, Two, {memo, g}, 2, 1, 0, 0), U(2, Two, {memo}, 2, 2, 1, 1)}

MCPrefix == {<<memo, g>>}

From(by, passwd, global, op, arg) ==
  [by |-> by, passwd |-> passwd, global |-> global, op |-> op, arg |-> arg]
Use          == From("other", "", FALSE, "use", "")
Own(op, arg) == From("owner", "old", FALSE, op, arg)
By(op, arg)  == From("manager", "server", TRUE, op, arg)

L(start, requests, budget, long, n) ==
  [start |-> start, requests |-> requests, budget |-> budget, long |-> long, deaths |-> n]

Held == [moderated |-> TRUE, moderators |-> {u1}, marks |-> {"use"}]
Open == [moderated |-> FALSE]
AllOptions ==
  {Own("subs", "owners"), Own("wide-open", ""), Own("visibility", "hidden"),
   Own("visibility", "published"), Own("stats", "all"), Own("no-archive", ""),
   Own("archive", "digests"), Own("managers", u1), Own("remove-manager", u1),
   Own("errors", u1), Own("remove-errors", u1), Own("digest", "daily"), Own("set", "limit"),
   Own("unset", "limit"), Own("show", ""), Own("reply", "list"), Own("confirm", "joining"),
   Own("dont-confirm", "joining"), Own("comment", "text"), Own("unmoderated", ""), Own("restrict", "use"), Own("filter", "off"), By("web", "off"), By("threads", "2"), By("host", "h")}
MCPlans ==
  {L(Held, {Use, Own("mark", "use"), Own("unmark", "use"), By("unmark", "use")}, 3, FALSE, 0),
   L(Held, {Own("moderated", u2), Own("remove-moderator", u1)}, 3, FALSE, 0),
   L(Held, {Use, Own("moderated", u2)}, 3, TRUE, 0),
   L(Held, {Own("moderated", u2), Own("remove-moderator", u1)}, 3, FALSE, 1),
   L(Open,
     {Own("password", "new"), From("owner", "new", FALSE, "send", "all"),
      From("manager", "server", FALSE, "control", "manager")}, 3, FALSE, 0),
   L([archive |-> "messages", control |-> TRUE], AllOptions, 2, FALSE, 0)}

all == <<part, avars, uvars, lvars>>

MCInit ==
  /\ part \in {"files", "updates", "config"}
  /\ AInit /\ (part = "files" \/ setting = CHOOSE s \in Settings : TRUE)
  /\ UInit /\ (part = "updates" \/ scene = CHOOSE s \in Scenes : TRUE)
  /\ LInit /\ (part = "config" \/ plan = CHOOSE s \in Plans : TRUE)

MCNext ==
  \/ part = "files" /\ ANext /\ UNCHANGED <<part, uvars, lvars>>
  \/ part = "updates" /\ UNext /\ UNCHANGED <<part, avars, lvars>>
  \/ part = "config" /\ LNext /\ UNCHANGED <<part, avars, uvars>>

MCSpec == MCInit /\ [][MCNext]_all

MCSymmetry == Permutations({p1, p2})
=============================================================================
