---------------------------- MODULE ProfileStore ----------------------------
(***************************************************************************)
(* What crates/store promises to the rest of the application: one ordered  *)
(* list of saved profiles, each of which owns its link (the credential).   *)
(* Adding, deleting and renaming happen at one instant; a failure or a     *)
(* crash leaves the list as it was.  Module Store, which spreads a profile *)
(* over a JSON document and a platform secret store, implements this one.  *)
(***************************************************************************)
EXTENDS Naturals, Sequences, SequencesExt

CONSTANTS Ids,      \* the identifiers a profile can be given
          Links,    \* the credentials
          Names     \* the display names

VARIABLE profiles   \* the saved profiles, oldest first

Profile == [id : Ids, name : Names, link : Links]

\* The identifiers in use.
Saved == {profiles[i].id : i \in DOMAIN profiles}

Init == profiles = << >>

\* A new profile goes to the end, under an identifier no profile has.
AddProfile(p) ==
    /\ p.id \notin Saved
    /\ profiles' = Append(profiles, p)

\* A profile disappears together with its link.
DeleteProfile(i) == profiles' = RemoveAt(profiles, i)

\* Only the display name changes.
RenameProfile(i, n) == profiles' = [profiles EXCEPT ![i].name = n]

Next ==
    \/ \E p \in Profile : AddProfile(p)
    \/ \E i \in DOMAIN profiles :
          \/ DeleteProfile(i)
          \/ \E n \in Names : RenameProfile(i, n)

Spec == Init /\ [][Next]_profiles
=============================================================================
