-------------------------- MODULE MCParcelLifecycle --------------------------
(* Small instances of ParcelLifecycle. *)
EXTENDS ParcelLifecycle, TLC

\* One change of each kind: an archive, a new title, a new owner, the owner's
\* name cleared, the name moved to the contact, a geometry set and cleared.
CONSTANTS ada, bob

MCRefs == {ada, bob}

Archive == [status |-> "ARCHIVED"]
Retitle == [title |-> bob]
Transfer == [name |-> bob]
ClearOwner == [name |-> None, contact |-> None]
MoveToContact == [name |-> None, contact |-> ada]
SetGeometry == [geometry |-> ada]
ClearGeometry == [geometry |-> None]

AllChanges == {Archive, Retitle, Transfer, ClearOwner, MoveToContact,
               SetGeometry, ClearGeometry}

\* Those that write history, for the run with three requests in flight.
HistoryChanges == {Archive, Transfer, ClearOwner, MoveToContact}

Symmetry == Permutations(Requests)
==============================================================================
