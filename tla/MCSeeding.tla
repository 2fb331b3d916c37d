----------------------------- MODULE MCSeeding -----------------------------
\* The standalone script, either script, and a request to the service.
EXTENDS Seeding

CONSTANTS first, standalone, request, read, export, super

MCRuns == {first, standalone, request}
MCMayRun ==
  [p \in MCRuns |-> CASE p = first -> {"seed", "standalone"}
                      [] p = standalone -> {"standalone"}
                      [] p = request -> {"create", "endpoint"}]

\* One default permission both programs have, and one of the standalone seed.
MCServicePerms == <<read>>
MCStandalonePerms == <<read, export>>
MCStandaloneRoles == <<super>>
=============================================================================
