------------------------------- MODULE MCDiscovery -------------------------------
EXTENDS Discovery

\* The names of groups, in their order.
Kitchen == 1
LivingRoom == 2
OneRoom == {LivingRoom}
TwoRooms == {Kitchen, LivingRoom}
==============================================================================
