---------------------------- MODULE SdfUserStore ----------------------------
(***************************************************************************)
(* What the enrolled-user record promises, whoever changes it and however  *)
(* many steps that takes (sdf_services_persist_enrolled_users_locked and   *)
(* its callers): one change at a time of the users in force, on record     *)
(* when it is in force; a change that cannot be recorded never comes into  *)
(* force in this boot; a reboot brings the record into force, which a      *)
(* reset may have caught with the users of one change and the permissions  *)
(* from before it, or finds that it cannot be read: then nobody is in      *)
(* force, and the next change replaces what is on record.                  *)
(***************************************************************************)

CONSTANTS
  Users,        \* user ids
  Granted,      \* permissions a user may be given
  Permission    \* and those a record may hold

VARIABLES
  live,         \* the users in force, with their permissions
  stored        \* the users on record

vars == <<live, stored>>

Account == UNION {[e -> Permission] : e \in SUBSET Users}

\* The outcomes of one change: a user added, given another permission, removed;
\* all users removed.
Grant(u, p) == [v \in DOMAIN live \cup {u} |-> IF v = u THEN p ELSE live[v]]
Revoke(u)   == [v \in DOMAIN live \ {u} |-> live[v]]
Outcomes ==
  {Grant(u, p) : u \in Users, p \in Granted}
    \cup {Revoke(u) : u \in Users} \cup {[v \in {} |-> live[v]]}

\* What a write of m may leave when it stops between its two keys: the users of
\* m, those on record before with the permissions they had there.
Torn(m) ==
  {f \in [DOMAIN m -> Permission] : \A u \in DOMAIN m \cap DOMAIN stored : f[u] = stored[u]}

Init == live \in UNION {[e -> Granted] : e \in SUBSET Users} /\ stored = live

\* A change, recorded as it comes into force.
Change == \E m \in Outcomes : live' = m /\ stored' = m

\* A change that could not be recorded, and is taken back.
Refuse ==
  /\ live' = live
  /\ \E m \in Outcomes : stored' \in {stored, m} \cup Torn(m)

\* What is on record after a stop, possibly in the middle of a write.
Stop == stored' = stored \/ \E m \in Outcomes : stored' \in Torn(m)

\* A reboot.
Reboot == Stop /\ live' = stored'

\* A reboot that cannot read the record.
Unreadable == Stop /\ live' = [v \in {} |-> live[v]]

Next == Change \/ Refuse \/ Reboot \/ Unreadable

Spec == Init /\ [][Next]_vars
=============================================================================
