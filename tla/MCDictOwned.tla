---------------------------- MODULE MCDictOwned ----------------------------
(***************************************************************************)
(* The dict of MCDict owned by the keyspace (FairSpec: the cron rehash    *)
(* and safe iterators) or by a set key (SetDictSpec: the set type's calls *)
(* only).  The owner is fixed for the dict's life.                        *)
(***************************************************************************)
EXTENDS MCDict

VARIABLE owner

ownedVars == <<vars, owner>>

OwnedInit == Init /\ owner \in {"keyspace", "set"}

OwnedNext == /\ \/ owner = "keyspace" /\ DictNext
                \/ owner = "set" /\ SetDictNext
             /\ UNCHANGED owner

\* FairSpec's fairness, for a keyspace dict.
OwnedSpec == /\ OwnedInit /\ [][OwnedNext]_ownedVars
             /\ WF_ownedVars(owner = "keyspace" /\ dictReleaseIterator /\ UNCHANGED owner)
             /\ SF_ownedVars(owner = "keyspace" /\ RehashMilliseconds /\ UNCHANGED owner)

\* Every rehash of a dict completes under the scheduling its owner gives
\* it: the server cron for a keyspace dict (RehashCompletes), client
\* operations for a set's dict (ClientDrivenRehashCompletes).
OwnedRehashCompletes == /\ owner = "keyspace" => RehashCompletes
                        /\ owner = "set" => ClientDrivenRehashCompletes
====
