---------------------------- MODULE MCPageLayout ----------------------------
(***************************************************************************)
(* PageLayout with the sizes of the 64 bit build: sizeof(Page::Header) is  *)
(* 224, sizeof(Meas) 56, sizeof(InternalMeas) 48.  TLC's integers are too  *)
(* small for 2^64; any modulus above the page sizes wraps in the same way. *)
(***************************************************************************)
EXTENDS PageLayout

CONSTANT MaxN   \* bound: pages of calc_size(1) to calc_size(MaxN)

CalcSizes == {calc_size(n) : n \in 1..MaxN}
=============================================================================
