---------------------------- MODULE MCZoneStore ----------------------------
(* Two zones and a few writers of each kind. *)
EXTENDS ZoneStore, TLC

CONSTANTS za, zb, api1, api2, upd1, upd2, xfr1, timer1, hup1

None == {}
ZoneA == {za}
ZoneB == {zb}
BothZones == {za, zb}
OneApi == {api1}
TwoApis == {api1, api2}
OneUpdate == {upd1}
OneTransfer == {xfr1}
OneTimer == {timer1}
OneReloader == {hup1}
PatchOnly == {"patch"}
PatchCreate == {"patch", "create"}
Serials == {3}
FirstSerial == {1}
PatchCreateDelete == {"patch", "create", "delete"}

ApiSymmetry == Permutations(TwoApis)
=============================================================================
