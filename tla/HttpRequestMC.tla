---------------------------- MODULE HttpRequestMC ----------------------------
EXTENDS HttpRequest

\* Per-call overrides around the clamp, the default, and a long budget.
MCRetryArgs == {-1, 0, 1, 2, 4, NotGiven}

\* One status per branch of _request; no status between 405 and 499.
ListedCodes == {200, 400, 401, 403, 404, 500, 502}
=============================================================================
