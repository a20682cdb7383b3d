---------------------------- MODULE MCCloseRetry ----------------------------
EXTENDS CloseRetry

\* As in PRODUCTION: the first re-issue comes inside the confirm window.
MCRetryAt == <<1, 3>>
=============================================================================
