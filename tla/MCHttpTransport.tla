--------------------------- MODULE MCHttpTransport ---------------------------
(* Policies whose backoff stays below its cap, reaches it, or, against a 429  *)
(* with no header, exceeds the ceiling on the wait.                           *)
EXTENDS HttpTransport

MCPolicies ==
    {[maxAttempts |-> 1, baseDelay |-> 1, maxDelay |-> 2],
     [maxAttempts |-> 3, baseDelay |-> 1, maxDelay |-> 3],
     [maxAttempts |-> 2, baseDelay |-> 6, maxDelay |-> 7]}
=============================================================================
