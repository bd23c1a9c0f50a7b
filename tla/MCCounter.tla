----------------------------- MODULE MCCounter ------------------------------
(***************************************************************************)
(* A small instance of Counter. Three prefixes and three limits make nine  *)
(* requests. The budget has room for each prefix with one limit, or for    *)
(* two prefixes with all their limits, so that known, new, shared and      *)
(* refused keys all occur.                                                 *)
(***************************************************************************)
EXTENDS Counter

MCPrefixes == {"classic", "swapped", "long"}
MCStringCost == [x \in MCPrefixes |-> IF x = "long" THEN 2 ELSE 1]

=============================================================================
