------------------------------ MODULE MCLease ------------------------------
(* An instance of Lease for TLC: one process on each of two machines. *)
EXTENDS Lease, TLC

CONSTANTS a, b, m1, m2

MCHome == a :> m1 @@ b :> m2
MCTTL  == m1 :> 1 @@ m2 :> 3
MCSkew == a :> -1 @@ b :> 1   \* a is late to see its lease expire
=============================================================================
