-------------------------- MODULE MCRealizedKicks ---------------------------
(* The histories TLC checks RealizedKicks on. *)
EXTENDS RealizedKicks

\* Two pages of fills, and of orders with some submitted at once on both sides
\* of a page's end; once the late one is listed, a page of equal times.
MCStamps == <<1, 1, 2, 2, 3, 3, 3>>
=============================================================================
