-------------------------- MODULE ExplorerEventsMC --------------------------
(***************************************************************************)
(* One database with a container and a message, two users, a batch of one  *)
(* event and a batch of two.                                               *)
(***************************************************************************)
EXTENDS ExplorerEvents

MCSubKeys == {Entry("container", "db", "c"), Entry("messages", "db", "")}

Ev(usr, containers, messages) ==
    [db |-> "db", usr |-> usr, seq |-> 0, containers |-> containers, messages |-> messages]

MCBatches == {<<Ev("u1", {"c"}, {})>>, <<Ev("u1", {}, {"m"}), Ev("u2", {"c"}, {"m"})>>}

MCFilters == {[users |-> {"u1"}, start |-> 0, end |-> 9],
              [users |-> {"u1", "u2"}, start |-> 2, end |-> 9]}
=============================================================================
