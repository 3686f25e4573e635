------------------------------- MODULE Names -------------------------------
(***************************************************************************)
(* What a user of the file system counts on about names: every operation   *)
(* changes what one name of one directory stands for, and nothing else.    *)
(* FatFs.tla implements this with entries packed into directory blocks.    *)
(***************************************************************************)
EXTENDS Naturals

CONSTANTS
  Name,   \* names of entries
  Block,  \* a directory, a link's text: known by its first block
  Kind,   \* "dir" among them
  Perm,
  Root    \* the root directory

Key == Block \X Name
What == [kind : Kind, perm : Perm, start : Block \cup {0}]

VARIABLE names   \* what each <<directory, name>> stands for

Init == names = <<>>

(* What each operation makes of the names old. *)
Starts(old) == {old[k].start : k \in DOMAIN old}
Others(old, new, key) ==
  /\ DOMAIN old \ {key} = DOMAIN new \ {key}
  /\ \A k \in DOMAIN old \ {key} : new[k] = old[k]

(* A new entry is something new, or another name for what is there. *)
Add(old, new, key) ==
  /\ key \in Key \ DOMAIN old /\ key \in DOMAIN new
  /\ new[key] \in What
  /\ key[1] \in {Root} \cup Starts(old)
  /\ \/ new[key].start \notin {Root} \cup (Starts(old) \ {0})
     \/ new[key] \in {old[k] : k \in DOMAIN old}

(* A directory that is about to lose its last name is empty. *)
Remove(old, new, key) ==
  /\ key \in DOMAIN old /\ key \notin DOMAIN new
  /\ old[key].kind = "dir" =>
       \/ \A k \in DOMAIN old : k[1] # old[key].start
       \/ \E k \in DOMAIN old \ {key} : old[k].start = old[key].start

Chmod(old, new, key) ==
  /\ key \in DOMAIN old \cap DOMAIN new
  /\ \E perm \in Perm : new[key] = [old[key] EXCEPT !.perm = perm]

(* The names before and after a step are bound once: where this module is  *)
(* instantiated they are computed from a whole disk.                       *)
Next ==
  \E old \in {names}, new \in {names'} : \E key \in DOMAIN old \cup DOMAIN new :
    /\ Others(old, new, key)
    /\ Add(old, new, key) \/ Remove(old, new, key) \/ Chmod(old, new, key)

Spec == Init /\ [][Next]_names
=============================================================================
