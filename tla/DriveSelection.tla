--------------------------- MODULE DriveSelection ----------------------------
(***************************************************************************)
(* Which drives a configuration selects: the preferences of                 *)
(* native/src/config.rs as native/src/sources.rs reads them, for the worker, *)
(* for the drive inventory of the settings and the menu, and for one-shot    *)
(* work and previews, each of which asks in its own words.                   *)
(*                                                                         *)
(* All drives have one mount path, where the preferences saw them last, and  *)
(* the configured folder is on it.  "known" are the drives of the volumes in *)
(* the index: a folder that is configured belongs to the drive it was first  *)
(* found on.                                                                *)
(***************************************************************************)
EXTENDS Integers

CONSTANTS Drives, None

Preferences ==
  [scope: {"all", "configured"}, mode: {"automatic", "selected"},
   in: SUBSET Drives, out: SUBSET Drives,
   manual: SUBSET Drives,    \* reconnect: manual
   policy: 0..1]             \* excludes and the other settings of the signature
\* validate: a drive is not both included and excluded.
Configurations == {c \in Preferences : c.in \cap c.out = {}}

\* Drive preferences are not part of the signature that the index is kept under.
Signature(c) == <<c.scope, c.policy>>

DriveIncluded(c, d) == IF c.mode = "selected" THEN d \in c.in ELSE d \notin c.out
VolumeIncluded(c, d) == IF c.scope = "configured" THEN d \notin c.out ELSE DriveIncluded(c, d)
SelectedUuid(c, d, known) == DriveIncluded(c, d) /\ d \in c.in \cup known

\* What is named, or known, at the folder pins it: only these drives are meant.
Named(c) == c.in \cup c.out \cup c.manual
\* mutant: what the index knows does not pin a folder
NamedPins(c, d, known) == d \notin c.out /\ (d \in c.in \cup c.manual \/ Named(c) = {})
ConfiguredUuid(c, d, known) ==
  d \notin c.out /\ (d \in c.in \cup c.manual \cup known \/ Named(c) \cup known = {})

Selected(c, d, known) ==
  IF c.scope = "configured" THEN ConfiguredUuid(c, d, known) ELSE SelectedUuid(c, d, known)

----------------------------------------------------------------------------
(* The inventory: d, or None, is what is mounted; its identity, or the index, *)
(* may not be readable.                                                      *)

Connected(d, unseen) == IF unseen THEN {} ELSE {d} \ {None}
\* mutant: an index that cannot be read is an empty one
AsIfEmpty(c, d, known, unread) == d \in c.in \/ Selected(c, d, IF unread THEN {} ELSE known)
\* Without the index a configured folder may belong to any drive: nobody but a drive
\* the preferences name is shown as included.
ShownIncluded(c, d, known, unread) ==
  IF c.scope = "all" THEN SelectedUuid(c, d, IF unread THEN {} ELSE known)
  ELSE \/ d \in c.in
       \/ IF unread THEN ~ConfiguredUuid(c, None, {}) /\ ConfiguredUuid(c, d, {})
          ELSE ConfiguredUuid(c, d, known)
Listed(c, d, known, unread, unseen) ==
  LET saved == IF unread THEN {} ELSE known
  IN  {e \in saved \cup c.in \cup Connected(d, unseen) :
         e \in Connected(d, unseen) \cup c.in \/ Selected(c, e, saved)}
Availability(d, e, unread, unseen) ==
  IF e \in Connected(d, unseen) THEN "connected"
  ELSE IF unread \/ unseen THEN "unavailable" ELSE "disconnected"
Inventory(c, d, known, unread, unseen) ==
  [e \in Listed(c, d, known, unread, unseen) |->
     [included |-> ShownIncluded(c, e, known, unread),
      availability |-> Availability(d, e, unread, unseen)]]

----------------------------------------------------------------------------
\* One-shot work and the preview: a folder that nothing pins is taken by its path.
Resolved(c, d, known) ==
  \/ c.scope = "configured" /\ ConfiguredUuid(c, None, known)
  \/ d # None /\ Selected(c, d, known)
=============================================================================
