---------------------------- MODULE Invitations ----------------------------
(***************************************************************************)
(* The invitations of the server as its clients see them: the list with    *)
(* its claimers (InviteServer) next to the conduit that greeter and        *)
(* claimer talk through (PgConduit).  The two share no state.              *)
(***************************************************************************)
EXTENDS InviteServer, PgConduit

InvitationsSpec == InviteServerSpec /\ PgConduitSpec

\* What the server tells the clients of their invitations (invite.py, memory/invite.py and
\* postgresql/invite.py): the list shows the claimers that wait, the claimers of a deleted
\* invitation leave, a target has one invitation, and the conduits of the two implementations
\* answer alike.
InvitationsAreSound ==
  /\ InviteServerTypeOK /\ ListShowsClaimers /\ DeletedClaimersLeave
  /\ OneInvitationPerTarget /\ ConduitsAgree
=============================================================================
