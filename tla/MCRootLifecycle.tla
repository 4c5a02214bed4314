--------------------------- MODULE MCRootLifecycle ---------------------------
(* Instances of RootLifecycle for TLC: two services, one with a cleanup,   *)
(* and two providers, of which one has a method stop, in either order.     *)
EXTENDS RootLifecycle

CONSTANTS github, plugin, static, openstack

TwoServices == {github, plugin}
TwoProviders == {static, openstack}
BothOrders == {<<static, openstack>>, <<openstack, static>>}

==============================================================================
