-------------------------------- MODULE Dict --------------------------------
(***************************************************************************)
(* A Python dict is a function whose domain is the set of keys present.    *)
(* The registries of the server are such dicts; these are the two ways     *)
(* they change.                                                            *)
(***************************************************************************)
EXTENDS Functions

\* The empty dict.
NoEntries == [k \in {} |-> {}]

\* d[k] = v
Put(d, k, v) == [x \in DOMAIN d \cup {k} |-> IF x = k THEN v ELSE d[x]]

\* d.pop(k, None) for every k of S
Without(d, S) == Restrict(d, DOMAIN d \ S)
=============================================================================
