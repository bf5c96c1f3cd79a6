------------------------------ MODULE MCPt3Dma ------------------------------
(* Pt3Dma with two pages of two parts and two descriptors to a descriptor  *)
(* page, so that the chain goes over two descriptor pages.                 *)
EXTENDS Pt3Dma

MCSizes == {3}
=============================================================================
