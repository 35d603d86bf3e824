----------------------------- MODULE MCDiscovery -----------------------------
EXTENDS Discovery
CONSTANTS org, team, lib, app, copy, priv, ann, bob

TwoLogins == <<org, team>>
Overlap   == [a \in {org, team} |-> IF a = org THEN {lib, app, copy} ELSE {app, priv}]
ForkOf    == [r \in {lib, app, copy, priv} |-> IF r = copy THEN lib ELSE NoRepo]
AnyOrApp  == {{}, {app}}
=============================================================================
