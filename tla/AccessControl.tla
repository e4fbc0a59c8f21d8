----------------------------- MODULE AccessControl ----------------------------
(* Who may reach whose resources: the check that every service makes, and the *)
(* filter that stands for it in a query.                                      *)
CONSTANTS
    Users, Companies,
    Unnamed,   \* the empty company name, which a claim or a column may hold
    None

ASSUME AccessAssumption ==
    /\ Unnamed \notin Companies
    /\ None \notin Companies \union {Unnamed}

Roles == {"admin", "agency", "user"}

Names == Companies \union {Unnamed, None}

Principal == [id : Users, role : Roles, company : Names]

(* ensure_scope_access; the company is None where no resolver is configured,  *)
(* which is everywhere: then an agency reaches nothing.                       *)
ScopeAccess(p, owner, company) ==
    \/ p.role = "admin"
    \/ /\ p.role = "agency"
       /\ p.company \notin {Unnamed, None}
       /\ company = p.company
    \/ p.role = "user" /\ p.id = owner

(* scope_filter: the columns a query is restricted to, or a refusal.          *)
Refused == [refused |-> TRUE]

ScopeFilter(p) ==
    IF p.role = "admin" THEN [all |-> TRUE]
    ELSE IF p.role = "user" THEN [owner |-> p.id]
    ELSE IF p.company \in {Unnamed, None} THEN Refused
    ELSE [company |-> p.company]

Selects(filter, owner, company) ==
    /\ filter # Refused
    /\ "owner" \in DOMAIN filter => filter.owner = owner
    /\ "company" \in DOMAIN filter => filter.company = company
===============================================================================
