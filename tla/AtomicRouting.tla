---------------------------- MODULE AtomicRouting ----------------------------
(***************************************************************************)
(* What the routing functions of agentctl.rollback.routing promise to every*)
(* gateway and to every other caller: a live table is replaced as a whole, *)
(* the version grows by exactly one per replacement, and the statuses of   *)
(* the deployments change together with the table.  RoutingTxn implements  *)
(* this with SQL statements; Rollback is built on it.                      *)
(***************************************************************************)
EXTENDS RoutingTables

VARIABLES version,   \* version of the live table, 0 before the first
          table,     \* the live table
          status     \* status of every deployment

vars == <<version, table, status>>

TypeOK == /\ version \in Nat
          /\ table \in Table \cup {NoTable}
          /\ status \in [Deps -> Status]

Init == /\ version = 0
        /\ table = NoTable
        /\ status \in [Deps -> Status]

\* Statuses after a flip to d: d serves, every other active deployment is demoted.
Flipped(d) == [e \in Deps |-> IF e = d THEN "active"
                              ELSE IF status[e] = "active" THEN "rolled_back"
                              ELSE status[e]]

\* flip_routing: all traffic to d, in one step.
Flip(d) == /\ version' = version + 1
           /\ table' = FullTo(d)
           /\ status' = Flipped(d)

\* set_canary below 100%: a weighted table, and d becomes a serving arm.
InstallCanary(d) == /\ version' = version + 1
                    /\ table' \in Table
                    /\ status' = [status EXCEPT ![d] = "active"]

\* handle_push reports the progress of a build; it does not look at routing.
Push(d) == /\ \E s \in PushStatus : status' = [status EXCEPT ![d] = s]
           /\ UNCHANGED <<version, table>>

Next == \E d \in Deps : Flip(d) \/ InstallCanary(d) \/ Push(d)

Spec == Init /\ [][Next]_vars
=============================================================================
