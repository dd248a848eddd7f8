-------------------------- MODULE AtomicBootstrap --------------------------
(***************************************************************************)
(* What a run of scripts/bootstrap_specter_org.py promises, without its    *)
(* statements, its transaction and the keys it waits for: it is over in    *)
(* one step with one outcome.  True leaves everything, False and           *)
(* ValueError leave nothing, and after a failure it is everything or       *)
(* nothing: the run does not know whether its COMMIT took effect.  Users,  *)
(* their grants and an org with the slug "specter" come from these steps   *)
(* only; whoever else is at the database can add other orgs and take rows  *)
(* away.                                                                   *)
(*                                                                         *)
(* The step does not promise that the org is still without an admin: the   *)
(* run looked for one when it began.                                       *)
(***************************************************************************)
CONSTANTS Orgs, Users, Emails, Runs

VARIABLES
    org, email,  \* the configuration of a run
    outcome,     \* of the last run, or "running"
    orgs,        \* [id, slug]
    users,       \* [id, email, org]
    grants       \* [user, org, role], the active ones

vars == <<org, email, outcome, orgs, users, grants>>

Roles == {"admin", "developer"}

Init ==
    /\ org \in [Runs -> Orgs]
    /\ email \in [Runs -> Emails]
    /\ outcome = [b \in Runs |-> "idle"]
    /\ orgs = {} /\ users = {} /\ grants = {}

OrgThere(b) == \E o \in orgs : o.id = org[b]
EmailTaken(b) == \E u \in users : u.email = email[b]

Start(b) ==
    /\ outcome' = [outcome EXCEPT ![b] = "running"]
    /\ UNCHANGED <<org, email, orgs, users, grants>>

\* The bootstrap takes effect, whether or not the run learns of it.  An org
\* that is not there is inserted, unless another has its slug.
Perform(b, u, how) ==
    /\ outcome[b] = "running"
    /\ outcome' = [outcome EXCEPT ![b] = how]
    /\ ~EmailTaken(b)
    /\ \A other \in users : other.id # u
    /\ users' = users \cup {[id |-> u, email |-> email[b], org |-> org[b]]}
    /\ grants' = grants \cup {[user |-> u, org |-> org[b], role |-> role] : role \in Roles}
    /\ \/ OrgThere(b) /\ UNCHANGED orgs
       \/ /\ ~OrgThere(b)
          /\ \A o \in orgs : o.slug # "specter"
          /\ orgs' = orgs \cup {[id |-> org[b], slug |-> "specter"]}
    /\ UNCHANGED <<org, email>>

\* Nothing to do, nothing that can be done, or an error at any time.
Refuse(b, how) ==
    /\ outcome' = [outcome EXCEPT ![b] = how]
    /\ how = "False" => outcome[b] = "running"
                            /\ \E g \in grants : g.org = org[b] /\ g.role = "admin"
    /\ how = "ValueError" => outcome[b] = "running" /\ EmailTaken(b)
    /\ UNCHANGED <<org, email, orgs, users, grants>>

\* Operators and migrations.
Around ==
    /\ UNCHANGED <<org, email, outcome>>
    /\ users' \subseteq users
    /\ grants' \subseteq grants
    /\ \A o \in orgs' \ orgs : o.slug # "specter"

Next ==
    \/ Around
    \/ \E b \in Runs :
          \/ Start(b)
          \/ \E u \in Users, how \in {"True", "failed"} : Perform(b, u, how)
          \/ \E how \in {"False", "ValueError", "failed"} : Refuse(b, how)

Spec == Init /\ [][Next]_vars
=============================================================================
