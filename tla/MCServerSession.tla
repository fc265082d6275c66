-------------------------- MODULE MCServerSession --------------------------
(***************************************************************************)
(* The instance of ServerSession for TLC, whose configuration gives two    *)
(* concurrent calls beside the processing chain.                           *)
(***************************************************************************)
EXTENDS ServerSession

=============================================================================
