--------------------------- MODULE MCPluginManager ---------------------------
(* Three plugins in a chain of requirements with a shortcut, as weather     *)
(* requires vcard and rooms, and vcard requires rooms.                      *)
EXTENDS PluginManager

CONSTANTS rooms, vcard, weather

Chain == (rooms :> {}) @@ (vcard :> {rooms}) @@ (weather :> {rooms, vcard})
CoreFirst == <<rooms, vcard, weather>>

=============================================================================
