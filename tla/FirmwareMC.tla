----------------------------- MODULE FirmwareMC -----------------------------
(* The firmware on a small set of identities, with three versions, the     *)
(* newest of which has the smallest second component.                      *)
EXTENDS Firmware

ReleasedVersions == {<<1, 9>>, <<1, 10>>, <<2>>}
=============================================================================
