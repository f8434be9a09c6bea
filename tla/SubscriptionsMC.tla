-------------------------- MODULE SubscriptionsMC --------------------------
(***************************************************************************)
(* Subscriptions for TLC: two clients of two users, one of them in a       *)
(* group, and the tasks they send.                                         *)
(***************************************************************************)
EXTENDS Subscriptions, TLC

CONSTANTS c1, c2, u1, u2, group, name, other, prefix, container

MCUserOf     == c1 :> u1 @@ c2 :> u2
MCGroupsOf   == u1 :> {group} @@ u2 :> {}
MCStartsWith == prefix :> {name}

Message(n, queue, cs, us, gs) ==
  [type |-> "message", name |-> n, queueEvents |-> queue,
   clients |-> cs, users |-> us, groups |-> gs]

Subscribe(n, remove) == [type |-> "subscribeMessage", name |-> n, remove |-> remove]

\* c1 subscribes, c2 publishes.
MCTasks ==
  c1 :> {Subscribe(prefix, FALSE), Subscribe(prefix, TRUE),
         [type |-> "subscribeChanges", container |-> container, changes |-> {"upsert"}],
         [type |-> "subscribeChanges", container |-> container, changes |-> {}],
         Message(other, "true", Null, Null, Null),
         Message(other, "false", Null, Null, Null)} @@
  c2 :> {Subscribe(name, FALSE), Subscribe(name, TRUE),
         [type |-> "upsert", container |-> container],
         Message(name, "null", {c1}, {u2}, {group})}

MCConns == c1 :> 2 @@ c2 :> 1
=============================================================================
