------------------------------- MODULE MCCatalog -------------------------------
(* One user and one admin, whose access tokens carry their role.              *)
EXTENDS Catalog, TLC

CONSTANTS ann, root, c1, r1, r2, acme

MCPrincipals ==
    {[id |-> ann, role |-> "user", company |-> None],
     [id |-> root, role |-> "admin", company |-> None]}

Interchangeable == Permutations({r1, r2})
===============================================================================
