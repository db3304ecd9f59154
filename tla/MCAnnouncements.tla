--------------------------- MODULE MCAnnouncements ---------------------------
(***************************************************************************)
(* Instances of Announcements for TLC.                                     *)
(***************************************************************************)
EXTENDS Announcements

MCBoth == {Channels}
MCEither == {Channels, {"ntfy"}}

=============================================================================
