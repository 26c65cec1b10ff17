------------------------- MODULE MCResourceClaims --------------------------
\* Workers share the integration target; their paths lie below each other.
EXTENDS ResourceClaims
CONSTANTS p1, p2, c1, c2

Target == [kind |-> "integration-target", key |-> <<"main">>,
           mode |-> "shared-read"]
Src == [kind |-> "path", key |-> <<"src">>, mode |-> "exclusive"]
SrcA == [kind |-> "path", key |-> <<"src", "a">>, mode |-> "exclusive"]
SrcRead == [kind |-> "path", key |-> <<"src", "a", "x">>,
            mode |-> "shared-read"]
MCRequests == {{Src}, {Target, SrcA}, {Target, SrcRead}}
=============================================================================
