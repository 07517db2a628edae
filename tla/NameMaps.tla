------------------------------ MODULE NameMaps ------------------------------
(***************************************************************************)
(* Name maps (lease_name of parser.y): sequences of different names, in    *)
(* which the place of a name, from 0 on, is its index.                     *)
(*                                                                         *)
(* The code goes through a term and, at each name, extends the map or      *)
(* finds the name in it, and replaces the name by its index.  As a map is  *)
(* only ever extended at its end, the index is the one in the final map,   *)
(* and here all names are leased first and then replaced.                  *)
(***************************************************************************)
EXTENDS Integers, Sequences, Functions

(* Mutant: the search misses the last entry. *)
KnownButLast(map, names, i) == Range(map) \cup {names[j] : j \in 1 .. i - 2}

(* What lease_name looks a name up in, before it leases the i-th: the map and the
   names that have been added to it. *)
KnownBefore(map, names, i) == Range(map) \cup {names[j] : j \in 1 .. i - 1}

(* What lease_name leaves of a map, for one name after the other, ... *)
Leased(map, names) ==
  LET upto[i \in 0 .. Len(names)] ==
        IF i = 0 THEN map
        ELSE upto[i - 1] \o IF names[i] \in KnownBefore(map, names, i)
                              THEN <<>> ELSE <<names[i]>>
  IN  upto[Len(names)]

(* ... and the index it returns: the first at which its search finds the name. *)
lease_name(map, name) ==
  (CHOOSE i \in DOMAIN map :
     map[i] = name /\ \A j \in DOMAIN map : map[j] = name => i <= j) - 1

Indices(map) == [name \in Range(map) |-> lease_name(map, name)]
Unchanged(names) == [name \in Range(names) |-> name]

(* The sequences in a sequence, one after the other. *)
Concatenated(seqs) ==
  LET upto[i \in 0 .. Len(seqs)] == IF i = 0 THEN <<>> ELSE upto[i - 1] \o seqs[i]
  IN  upto[Len(seqs)]
=============================================================================
