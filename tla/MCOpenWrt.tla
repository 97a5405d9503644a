----------------------------- MODULE MCOpenWrt -----------------------------
(***************************************************************************)
(* OpenWrtReader on the bindings and routers of OpenWrtCases.              *)
(***************************************************************************)
EXTENDS OpenWrtReader, OpenWrtCases
=============================================================================
