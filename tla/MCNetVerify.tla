---------------------------- MODULE MCNetVerify ----------------------------
(***************************************************************************)
(* Collector on an endpoint with one transport, and on the bindings and    *)
(* routers of OpenWrtCases. The fixture vouches for the chain.             *)
(***************************************************************************)
EXTENDS Collector

Cases == INSTANCE OpenWrtCases WITH Chains <- OwChains

JustUdp == <<"udp">>
EveryBinding == Cases!Everything
EditedRouters == Cases!Edited
=============================================================================
